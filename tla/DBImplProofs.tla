----------------------------- MODULE DBImplProofs ----------------------------
(***************************************************************************)
(* Theorems about DBImpl for every set of threads and every bound: the     *)
(* discipline of the queue of writers, that the pointer to a manual        *)
(* compaction request never dangles, that no call of Write that began      *)
(* after an error was recorded returns OK, that whoever sleeps has         *)
(* somebody to wake it, that a closed database is left alone, what is kept *)
(* of a write (logs, syncs, tables), what a reader sees of it (whole       *)
(* batches, the refinement of BatchStore), and the types.                  *)
(***************************************************************************)
EXTENDS DBImpl, DataLemmas

(* Where a leader has formed its group. *)
Committed == {"log", "sync", "insert", "relock", "pop"}

(* The inductive invariant: OneLogger and ManualInScope together, with the *)
(* shapes the steps rely on, and the last writer of a formed group still   *)
(* in the queue, since writers enter at the back only and leave when the   *)
(* group does.  A thread with a manual request is not a writer, so that    *)
(* setting manual.done never changes who is in the queue.                  *)
QueueShape ==
    /\ writers_ \in Seq(Threads)
    /\ pc \in [Threads -> PC]
    /\ DOMAIN frame = Threads
    /\ \A t \in Threads : DOMAIN frame[t] = DOMAIN Idle
    /\ manual_compaction_ \in Threads \union {NoThread}

GroupInQueue ==
    \A t \in Threads : pc[t] \in Committed => InQueue(frame[t].last_writer)

QueueInv == QueueShape /\ OneLogger /\ GroupInQueue /\ ManualInScope

-----------------------------------------------------------------------------
(* A step that changes neither the queue, nor where a thread is, nor the   *)
(* flags and groups of the threads, nor the request.                       *)
SameFlags ==
    /\ DOMAIN frame' = Threads
    /\ \A u \in Threads : /\ DOMAIN frame'[u] = DOMAIN Idle
                          /\ frame'[u].done = frame[u].done
                          /\ frame'[u].last_writer = frame[u].last_writer

(* A step that leaves the queue, the places and the flags as they are      *)
(* keeps the invariant (waits, delays, log and memtable switches).         *)
LEMMA QuietStep ==
    ASSUME QueueInv, UNCHANGED <<pc, writers_, manual_compaction_>>, SameFlags
    PROVE  QueueInv'
<1>1. QueueShape'
  BY DEF QueueInv, QueueShape, SameFlags, Idle
<1>2. OneLogger'
  BY DEF QueueInv, OneLogger, SameFlags, InQueue
<1>3. GroupInQueue'
  BY DEF QueueInv, GroupInQueue, SameFlags, InQueue
<1>4. ManualInScope'
  BY DEF QueueInv, QueueShape, ManualInScope, SameFlags
<1> QED
  BY <1>1, <1>2, <1>3, <1>4 DEF QueueInv

(* A leader that goes on to another of its steps, perhaps with a group it  *)
(* just formed, keeps the invariant (MakeRoomForWrite to the end of Write).*)
LEMMA LeaderStep ==
    ASSUME QueueInv, NEW t \in Threads, NEW p \in Leading,
           pc[t] \in Leading, pc' = [pc EXCEPT ![t] = p],
           UNCHANGED <<writers_, manual_compaction_>>,
           DOMAIN frame' = Threads,
           \A u \in Threads : /\ DOMAIN frame'[u] = DOMAIN Idle
                              /\ frame'[u].done = frame[u].done
                              /\ u # t => frame'[u].last_writer = frame[u].last_writer,
           p \in Committed => InQueue(frame'[t].last_writer)
    PROVE  QueueInv'
<1>1. QueueShape'
  BY DEF QueueInv, QueueShape, Idle, PC, Leading
<1>2. OneLogger'
  BY DEF QueueInv, QueueShape, OneLogger, InQueue, Leading
<1>3. GroupInQueue'
  BY DEF QueueInv, QueueShape, GroupInQueue, InQueue
<1>4. ManualInScope'
  BY DEF QueueInv, QueueShape, ManualInScope, Leading
<1> QED
  BY <1>1, <1>2, <1>3, <1>4 DEF QueueInv

(* A thread outside Write that stays outside Write, while the flags of the *)
(* threads in Write stay, keeps the queue's part of the invariant (waits   *)
(* for imm_, manual compactions, the destructor, the background thread).   *)
Outside == {"idle", "flush", "manual", "closing", "closed"}

LEMMA OutsideStep ==
    ASSUME QueueInv, writers_' = writers_, pc' \in [Threads -> PC],
           DOMAIN frame' = Threads,
           \A u \in Threads : DOMAIN frame'[u] = DOMAIN Idle,
           \A u \in Threads : \/ pc[u] \in Outside /\ pc'[u] \in Outside
                              \/ pc'[u] = pc[u] /\ frame'[u] = frame[u],
           manual_compaction_' \in Threads \union {NoThread}
    PROVE  QueueShape' /\ OneLogger' /\ GroupInQueue'
<1>1. QueueShape'
  BY DEF QueueInv, QueueShape, Idle
<1>2. OneLogger'
  BY DEF QueueInv, QueueShape, OneLogger, InQueue, Leading, Outside
<1>3. GroupInQueue'
  BY DEF QueueInv, QueueShape, GroupInQueue, InQueue, Outside, Committed
<1> QED
  BY <1>1, <1>2, <1>3

-----------------------------------------------------------------------------
(* The steps that change the queue *)

(* A new writer enters at the back (Write, line 1211). *)
LEMMA WriteKeeps ==
    ASSUME QueueInv, NEW t \in Threads, NEW r \in Requests, Write(t, r)
    PROVE  QueueInv'
<1>1. /\ pc[t] = "idle" /\ pc' = [pc EXCEPT ![t] = "turn"]
      /\ writers_' = Append(writers_, t) /\ UNCHANGED manual_compaction_
  BY DEF Write, bgVars
<1>2. /\ DOMAIN frame' = Threads
      /\ \A u \in Threads \ {t} : frame'[u] = frame[u]
      /\ DOMAIN frame'[t] = DOMAIN Idle /\ ~frame'[t].done
  BY DEF Write, QueueInv, QueueShape, Idle
<1>3. QueueShape'
  BY <1>1, <1>2 DEF QueueInv, QueueShape, Idle, PC
<1>4. /\ Len(writers_') = Len(writers_) + 1
      /\ \A i \in DOMAIN writers_ : i \in DOMAIN writers_' /\ writers_'[i] = writers_[i]
      /\ \A i \in DOMAIN writers_' : i \in DOMAIN writers_ \/ i = Len(writers_) + 1
      /\ Len(writers_) + 1 \in DOMAIN writers_' /\ writers_'[Len(writers_) + 1] = t
  BY <1>1 DEF QueueInv, QueueShape
<1>5. ~InQueue(t)
  BY <1>1 DEF QueueInv, OneLogger, Leading
<1>6. \A u \in Threads : InQueue(u)' <=> InQueue(u) \/ u = t
  BY <1>4 DEF InQueue
<1>7. OneLogger'
  <2>1. \A u \in Threads : pc'[u] \in Leading => writers_' # <<>> /\ Head(writers_') = u
    BY <1>1, <1>4 DEF QueueInv, QueueShape, OneLogger, Leading
  <2>2. \A i, j \in DOMAIN writers_' : writers_'[i] = writers_'[j] => i = j
    BY <1>4, <1>5 DEF QueueInv, OneLogger, InQueue
  <2>3. \A u \in Threads :
          InQueue(u)' <=> pc'[u] \in Leading \/ (pc'[u] = "turn" /\ ~frame'[u].done)
    BY <1>1, <1>2, <1>6 DEF QueueInv, QueueShape, OneLogger
  <2> QED
    BY <2>1, <2>2, <2>3 DEF OneLogger
<1>8. GroupInQueue'
  <2> SUFFICES ASSUME NEW u \in Threads, pc'[u] \in Committed
               PROVE  \E i \in DOMAIN writers_' : writers_'[i] = frame'[u].last_writer
    BY DEF GroupInQueue, InQueue
  <2>1. u # t /\ pc[u] \in Committed
    BY <1>1 DEF QueueInv, QueueShape, Committed
  <2>2. InQueue(frame[u].last_writer) /\ frame'[u] = frame[u]
    BY <2>1, <1>2 DEF QueueInv, GroupInQueue
  <2> QED
    BY <2>2, <1>4 DEF InQueue
<1>9. ManualInScope'
  BY <1>1, <1>2 DEF QueueInv, QueueShape, ManualInScope
<1> QED
  BY <1>3, <1>7, <1>8, <1>9 DEF QueueInv

(* A writer whose work was done returns; it left the queue before (lines   *)
(* 1215-1217).                                                             *)
LEMMA TurnDoneKeeps ==
    ASSUME QueueInv, NEW t \in Threads, TurnDone(t)
    PROVE  QueueInv'
<1>1. /\ pc[t] = "turn" /\ frame[t].done
      /\ pc' = [pc EXCEPT ![t] = AfterWrite(t)] /\ AfterWrite(t) \in {"idle", "flush"}
      /\ frame' = [frame EXCEPT ![t] = LocalsAfter(t)]
      /\ UNCHANGED <<writers_, manual_compaction_>>
  BY DEF TurnDone, AfterWrite, bgVars
<1>2. /\ DOMAIN frame' = Threads
      /\ \A u \in Threads \ {t} : frame'[u] = frame[u]
      /\ DOMAIN frame'[t] = DOMAIN Idle
  BY <1>1 DEF QueueInv, QueueShape, LocalsAfter
<1>3. QueueShape'
  BY <1>1, <1>2 DEF QueueInv, QueueShape, PC
<1>4. OneLogger'
  BY <1>1, <1>2 DEF QueueInv, QueueShape, OneLogger, InQueue, Leading
<1>5. GroupInQueue'
  BY <1>1, <1>2 DEF QueueInv, QueueShape, GroupInQueue, InQueue, Committed
<1>6. ManualInScope'
  BY <1>1, <1>2 DEF QueueInv, QueueShape, ManualInScope
<1> QED
  BY <1>3, <1>4, <1>5, <1>6 DEF QueueInv

(* The writer at the front becomes the leader (lines 1212-1220). *)
LEMMA TurnLeadKeeps ==
    ASSUME QueueInv, NEW t \in Threads, TurnLead(t)
    PROVE  QueueInv'
<1>1. /\ pc[t] = "turn" /\ ~frame[t].done /\ Head(writers_) = t
      /\ pc' = [pc EXCEPT ![t] = "room"]
      /\ UNCHANGED <<writers_, manual_compaction_>>
  BY DEF TurnLead, MyTurn, bgVars
<1>2. SameFlags
  BY DEF TurnLead, QueueInv, QueueShape, SameFlags, Idle
<1>3. InQueue(t) /\ writers_ # <<>>
  BY <1>1 DEF QueueInv, QueueShape, OneLogger, InQueue
<1>4. QueueShape'
  BY <1>1, <1>2 DEF QueueInv, QueueShape, SameFlags, PC
<1>5. OneLogger'
  BY <1>1, <1>2, <1>3 DEF QueueInv, QueueShape, OneLogger, InQueue, SameFlags, Leading
<1>6. GroupInQueue'
  BY <1>1, <1>2 DEF QueueInv, QueueShape, GroupInQueue, InQueue, SameFlags, Committed
<1>7. ManualInScope'
  BY <1>1, <1>2 DEF QueueInv, QueueShape, ManualInScope, SameFlags
<1> QED
  BY <1>4, <1>5, <1>6, <1>7 DEF QueueInv

(* A leader forms its group from the front of the queue (BuildBatchGroup). *)
LEMMA BuildGroupKeeps ==
    ASSUME QueueInv, NEW t \in Threads, BuildGroup(t) \/ NoGroup(t)
    PROVE  QueueInv'
<1>1. PICK p \in {"log", "pop"} : pc' = [pc EXCEPT ![t] = p]
  BY DEF BuildGroup, NoGroup
<1>2. pc[t] = "group" /\ UNCHANGED <<writers_, manual_compaction_>>
  BY DEF BuildGroup, NoGroup, bgVars
<1>3. PICK w : /\ InQueue(w)
               /\ DOMAIN frame' = Threads
               /\ \A u \in Threads : /\ DOMAIN frame'[u] = DOMAIN Idle
                                     /\ frame'[u].done = frame[u].done
                                     /\ u # t => frame'[u].last_writer = frame[u].last_writer
               /\ frame'[t].last_writer = w
  <2>1. CASE BuildGroup(t)
    <3>1. PICK n \in GroupSizes(t) :
            frame' = [frame EXCEPT ![t].last_writer = writers_[n],
                                   ![t].record = GroupRecord(n)]
      BY <2>1 DEF BuildGroup
    <3>2. InQueue(writers_[n])
      BY <3>1 DEF GroupSizes, InQueue
    <3> QED
      BY <3>1, <3>2 DEF QueueInv, QueueShape, Idle
  <2>2. CASE NoGroup(t)
    <3>1. InQueue(t)
      BY <1>2 DEF QueueInv, OneLogger, Leading
    <3> QED
      BY <2>2, <3>1 DEF NoGroup, QueueInv, QueueShape, Idle
  <2> QED
    BY <2>1, <2>2
<1>4. InQueue(frame'[t].last_writer)
  BY <1>3
<1> QED
  BY <1>1, <1>2, <1>3, <1>4, LeaderStep DEF Leading

(* The group leaves the queue and the next writer comes to the front       *)
(* (lines 1258-1274).                                                      *)
LEMMA PopKeeps ==
    ASSUME QueueInv, NEW t \in Threads, Pop(t)
    PROVE  QueueInv'
<1> DEFINE n == GroupSize(t)
<1>1. /\ pc[t] = "pop" /\ pc' = [pc EXCEPT ![t] = AfterWrite(t)]
      /\ AfterWrite(t) \in {"idle", "flush"}
      /\ writers_' = SubSeq(writers_, n + 1, Len(writers_))
      /\ UNCHANGED manual_compaction_
  BY DEF Pop, LeftInQueue, AfterWrite, bgVars
<1>2. n \in DOMAIN writers_ /\ writers_ # <<>> /\ Head(writers_) = t
  <2>1. InQueue(frame[t].last_writer)
    BY <1>1 DEF QueueInv, GroupInQueue, Committed
  <2>2. n \in DOMAIN writers_
    BY <2>1 DEF InQueue, GroupSize
  <2> QED
    BY <1>1, <2>2 DEF QueueInv, OneLogger, Leading
<1>3. writers_ \in Seq(Threads) /\ n \in 1 .. Len(writers_) /\ writers_[1] = t
  BY <1>2 DEF QueueInv, QueueShape
<1>4. /\ writers_' \in Seq(Threads)
      /\ \A i \in DOMAIN writers_' : n + i \in DOMAIN writers_ /\ writers_'[i] = writers_[n + i]
      /\ \A i \in DOMAIN writers_ : i > n => i - n \in DOMAIN writers_' /\ writers_'[i - n] = writers_[i]
  BY <1>1, <1>3
<1>5. \A u \in Threads : InQueue(u)' <=> InQueue(u) /\ u # t /\ u \notin Followers(t)
  <2>1. \A i \in DOMAIN writers_ : i > n <=> writers_[i] # t /\ writers_[i] \notin Followers(t)
    BY <1>3 DEF Followers, QueueInv, OneLogger
  <2> QED
    BY <1>3, <1>4, <2>1 DEF InQueue
<1>6. /\ DOMAIN frame' = Threads
      /\ frame'[t] = LocalsAfter(t)
      /\ \A u \in Threads \ {t} :
           frame'[u] = IF u \in Followers(t)
                       THEN [frame[u] EXCEPT !.status = FollowerStatus(t), !.done = TRUE]
                       ELSE frame[u]
  BY DEF Pop
<1>7. /\ \A u \in Threads : DOMAIN frame'[u] = DOMAIN Idle
      /\ \A u \in Threads \ {t} : frame'[u].done <=> frame[u].done \/ u \in Followers(t)
  BY <1>6 DEF QueueInv, QueueShape, LocalsAfter, Idle
<1>8. \A u \in Threads \ {t} : pc'[u] = pc[u] /\ pc[u] \notin Leading
  BY <1>1, <1>2 DEF QueueInv, QueueShape, OneLogger
<1>9. QueueShape'
  BY <1>1, <1>4, <1>6, <1>7 DEF QueueInv, QueueShape, PC
<1>10. OneLogger'
  <2>1. \A u \in Threads : pc'[u] \notin Leading
    BY <1>1, <1>8 DEF QueueInv, QueueShape, Leading
  <2>2. \A i, j \in DOMAIN writers_' : writers_'[i] = writers_'[j] => i = j
    <3> SUFFICES ASSUME NEW i \in DOMAIN writers_', NEW j \in DOMAIN writers_',
                        writers_'[i] = writers_'[j]
                 PROVE  i = j
      OBVIOUS
    <3>1. n + i = n + j
      BY <1>4 DEF QueueInv, OneLogger
    <3> QED
      BY <3>1, <1>3, <1>4
  <2>3. \A u \in Threads : InQueue(u)' <=> pc'[u] = "turn" /\ ~frame'[u].done
    <3>1. ~InQueue(t)' /\ pc'[t] # "turn"
      BY <1>1, <1>5 DEF QueueInv, QueueShape
    <3>2. \A u \in Threads \ {t} : InQueue(u)' <=> pc'[u] = "turn" /\ ~frame'[u].done
      BY <1>5, <1>7, <1>8 DEF QueueInv, OneLogger
    <3> QED
      BY <3>1, <3>2
  <2> QED
    BY <2>1, <2>2, <2>3 DEF OneLogger
<1>11. GroupInQueue'
  BY <1>1, <1>8 DEF QueueInv, QueueShape, GroupInQueue, Committed, Leading
<1>12. ManualInScope'
  <2>1. \A u \in Followers(t) : pc[u] \in Leading \union {"turn"}
    BY <1>3 DEF QueueInv, QueueShape, OneLogger, InQueue, Followers
  <2> QED
    BY <1>1, <1>7, <1>8, <2>1 DEF QueueInv, QueueShape, ManualInScope, Leading
<1> QED
  BY <1>9, <1>10, <1>11, <1>12 DEF QueueInv

-----------------------------------------------------------------------------
(* The other steps *)

(* Waiting, sleeping, switching log and memtable: the thread stays where   *)
(* it is (lines 1213, 1339-1400).                                          *)
LEMMA StayKeeps ==
    ASSUME QueueInv, NEW t \in Threads,
           TurnWait(t) \/ RoomDelay(t) \/ RoomWait(t) \/ RoomSwitch(t)
    PROVE  QueueInv'
<1>1. UNCHANGED <<pc, writers_, manual_compaction_>>
  BY DEF TurnWait, RoomDelay, RoomWait, RoomSwitch, threadVars, bgVars
<1>2. SameFlags
  <2>1. CASE UNCHANGED frame
    BY <2>1 DEF QueueInv, QueueShape, SameFlags
  <2>2. CASE RoomDelay(t)
    BY <2>2 DEF RoomDelay, QueueInv, QueueShape, SameFlags, Idle
  <2>3. CASE RoomSwitch(t)
    BY <2>3 DEF RoomSwitch, QueueInv, QueueShape, SameFlags, Idle
  <2> QED
    BY <2>1, <2>2, <2>3 DEF TurnWait, RoomWait, threadVars
<1> QED
  BY <1>1, <1>2, QuietStep

(* The leader goes on: out of MakeRoomForWrite, then through the log, the  *)
(* sync and the memtable without the mutex, and back under it.             *)
LEMMA LeaderKeeps ==
    ASSUME QueueInv, NEW t \in Threads,
           \/ RoomError(t) \/ RoomFits(t) \/ RoomNoLog(t)
           \/ AddRecord(t) \/ AddRecordFails(t) \/ Sync(t) \/ SyncFails(t)
           \/ InsertUpdate(t) \/ Relock(t)
    PROVE  QueueInv'
<1>1. UNCHANGED <<writers_, manual_compaction_>>
  BY DEF RoomError, RoomFits, RoomNoLog, LeaveRoom, AddRecord, AddRecordFails, Sync, SyncFails,
         InsertUpdate, Relock, bgVars
<1>2. PICK p \in {"group", "sync", "insert", "relock", "pop"} : pc' = [pc EXCEPT ![t] = p]
  BY DEF RoomError, RoomFits, RoomNoLog, LeaveRoom, AddRecord, AddRecordFails, Sync, SyncFails,
         InsertUpdate, Relock
<1>3. /\ pc[t] \in Leading
      /\ pc[t] \in Committed \/ p = "group"
  <2>1. CASE RoomError(t) \/ RoomFits(t) \/ RoomNoLog(t)
    <3>1. pc[t] = "room" /\ pc' = [pc EXCEPT ![t] = "group"]
      BY <2>1 DEF RoomError, RoomFits, RoomNoLog, LeaveRoom, InRoom, SwitchDue
    <3> QED
      BY <3>1, <1>2 DEF QueueInv, QueueShape, Leading
  <2>2. CASE ~(RoomError(t) \/ RoomFits(t) \/ RoomNoLog(t))
    BY <2>2 DEF AddRecord, AddRecordFails, Sync, SyncFails, InsertUpdate, Relock, Leading,
                Committed
  <2> QED
    BY <2>1, <2>2
<1>4. SameFlags
  <2>1. \/ frame' = frame
        \/ \E st \in {"ok", "error"} : frame' = [frame EXCEPT ![t].status = st]
        \/ frame' = [frame EXCEPT ![t].status = "error", ![t].sync_error = TRUE]
        \/ frame' = [frame EXCEPT ![t].inserted = frame[t].inserted + 1]
    BY DEF RoomError, RoomFits, RoomNoLog, LeaveRoom, AddRecord, AddRecordFails, Sync, SyncFails,
           InsertUpdate, Relock
  <2> QED
    BY <2>1 DEF QueueInv, QueueShape, SameFlags, Idle
<1>5. p \in Committed => InQueue(frame'[t].last_writer)
  BY <1>3, <1>4 DEF QueueInv, GroupInQueue, SameFlags, Committed
<1> QED
  BY <1>1, <1>2, <1>3, <1>4, <1>5, LeaderStep DEF SameFlags, Leading

(* Waiting for a flush, manual compactions and the destructor move only    *)
(* threads that are not in Write (lines 156-183, 603-656).                 *)
LEMMA OutsideKeeps ==
    ASSUME QueueInv, NEW t \in Threads,
           \/ FlushStep(t) \/ CompactRange(t) \/ ManualWait(t) \/ ManualReturn(t)
           \/ Close(t) \/ CloseStep(t)
    PROVE  QueueInv'
<1>1. writers_' = writers_
  BY DEF FlushStep, CompactRange, ManualWait, ManualReturn, Close, CloseStep, threadVars
<1>2. pc[t] \in Outside
  BY DEF FlushStep, CompactRange, ManualWait, ManualReturn, Close, CloseStep, Outside
<1>3. PICK p \in Outside : pc' = [pc EXCEPT ![t] = p]
  <2>1. CASE pc' = pc
    BY <2>1, <1>2 DEF QueueInv, QueueShape
  <2>2. CASE pc' # pc
    BY <2>2 DEF FlushStep, CompactRange, ManualWait, ManualReturn, Close, CloseStep, Outside,
                threadVars
  <2> QED
    BY <2>1, <2>2
<1>4. /\ DOMAIN frame' = Threads
      /\ \A u \in Threads : DOMAIN frame'[u] = DOMAIN Idle
      /\ \A u \in Threads \ {t} : frame'[u] = frame[u]
  <2>1. CASE frame' = frame
    BY <2>1 DEF QueueInv, QueueShape
  <2>2. CASE CompactRange(t)
    BY <2>2 DEF CompactRange, QueueInv, QueueShape, Idle
  <2>3. CASE frame' = [frame EXCEPT ![t] = Idle]
    BY <2>3 DEF QueueInv, QueueShape
  <2> QED
    BY <2>1, <2>2, <2>3 DEF FlushStep, ManualWait, ManualReturn, Close, CloseStep, threadVars
<1>5. \/ UNCHANGED manual_compaction_ /\ pc[t] # "manual"
      \/ /\ ManualWait(t) /\ UNCHANGED <<pc, frame>>
         /\ pc[t] = "manual" /\ ~frame[t].done
         /\ manual_compaction_' \in {manual_compaction_, t}
      \/ /\ ManualReturn(t)
         /\ manual_compaction_' = IF manual_compaction_ = t THEN NoThread
                                  ELSE manual_compaction_
  <2>1. CASE ManualWait(t)
    BY <2>1 DEF ManualWait, threadVars
  <2>2. CASE ManualReturn(t)
    BY <2>2 DEF ManualReturn, Cancelled
  <2>3. CASE FlushStep(t) \/ CompactRange(t) \/ Close(t) \/ CloseStep(t)
    <3>1. CASE FlushStep(t)
      BY <3>1 DEF FlushStep, bgVars
    <3>2. CASE CompactRange(t)
      BY <3>2 DEF CompactRange
    <3>3. CASE Close(t)
      BY <3>3 DEF Close, QueueInv, QueueShape
    <3>4. CASE CloseStep(t)
      BY <3>4 DEF CloseStep, bgVars
    <3> QED
      BY <2>3, <3>1, <3>2, <3>3, <3>4
  <2> QED
    BY <2>1, <2>2, <2>3
<1>6. manual_compaction_' \in Threads \union {NoThread}
  BY <1>5 DEF QueueInv, QueueShape
<1>7. pc' \in [Threads -> PC]
  BY <1>3 DEF QueueInv, QueueShape, Outside, PC
<1>8. QueueShape' /\ OneLogger' /\ GroupInQueue'
  <2>1. \A u \in Threads : \/ pc[u] \in Outside /\ pc'[u] \in Outside
                           \/ pc'[u] = pc[u] /\ frame'[u] = frame[u]
    BY <1>2, <1>3, <1>4 DEF QueueInv, QueueShape
  <2> QED
    BY <1>1, <1>4, <1>6, <1>7, <2>1, OutsideStep
<1>9. ManualInScope'
  <2>1. CASE UNCHANGED manual_compaction_ /\ pc[t] # "manual"
    BY <2>1, <1>3, <1>4 DEF QueueInv, QueueShape, ManualInScope
  <2>2. CASE /\ UNCHANGED <<pc, frame>> /\ pc[t] = "manual" /\ ~frame[t].done
             /\ manual_compaction_' \in {manual_compaction_, t}
    BY <2>2 DEF QueueInv, QueueShape, ManualInScope
  <2>3. CASE ManualReturn(t)
    <3>1. manual_compaction_' # t
      BY <2>3, DBAssumption DEF ManualReturn, Cancelled, QueueInv, QueueShape
    <3> QED
      BY <3>1, <2>3, <1>3, <1>4 DEF ManualReturn, Cancelled, QueueInv, QueueShape, ManualInScope
  <2> QED
    BY <1>5, <2>1, <2>2, <2>3
<1> QED
  BY <1>8, <1>9 DEF QueueInv

(* The background thread touches at most the request of a thread that      *)
(* waits in TEST_CompactRange (lines 687-785, 896-1055).                   *)
LEMMA BackgroundKeeps ==
    ASSUME QueueInv, BGStep
    PROVE  QueueInv'
<1>1. CASE \/ BGNothing \/ BGMemTable \/ BGCompaction \/ BGInnerMemTable
           \/ BGTableBuilt \/ BGTableFailed \/ BGApplied \/ BGApplyFailed
           \/ BGUnlinked \/ BGCompacted
  <2>1. UNCHANGED <<pc, frame, writers_, manual_compaction_>>
    BY <1>1 DEF BGNothing, BGMemTable, BGCompaction, BGInnerMemTable, BGTableBuilt,
                BGTableFailed, BGApplied, BGApplyFailed, BGUnlinked, BGCompacted, threadVars
  <2>2. SameFlags
    BY <2>1 DEF QueueInv, QueueShape, SameFlags
  <2> QED
    BY <2>1, <2>2, QuietStep
<1>2. CASE \/ BGManualDone \/ BGCompactionFailed \/ BGInstalled
           \/ BGInstallFailed \/ BGCleaned
  <2>1. UNCHANGED <<pc, writers_>>
    BY <1>2 DEF BGManualDone, BGCompactionFailed, BGInstalled, BGInstallFailed, BGCleaned
  <2>2. \/ UNCHANGED <<frame, manual_compaction_>>
        \/ /\ manual_compaction_ # NoThread /\ manual_compaction_' = NoThread
           /\ DOMAIN frame' = Threads
           /\ DOMAIN frame'[manual_compaction_] = DOMAIN Idle
           /\ \A u \in Threads : u # manual_compaction_ => frame'[u] = frame[u]
    <3>1. CASE BGManualDone
      BY <3>1 DEF BGManualDone, QueueInv, QueueShape, Idle
    <3>2. ASSUME NEW failed, EndCompaction(failed)
          PROVE  \/ UNCHANGED <<frame, manual_compaction_>>
                 \/ /\ manual_compaction_ # NoThread /\ manual_compaction_' = NoThread
                    /\ DOMAIN frame' = Threads
                    /\ DOMAIN frame'[manual_compaction_] = DOMAIN Idle
                    /\ \A u \in Threads : u # manual_compaction_ => frame'[u] = frame[u]
      BY <3>2 DEF EndCompaction, QueueInv, QueueShape, Idle
    <3>3. CASE BGCompactionFailed
      BY <3>2, <3>3 DEF BGCompactionFailed
    <3>4. CASE BGInstalled
      BY <3>2, <3>4 DEF BGInstalled
    <3>5. CASE BGInstallFailed
      BY <3>2, <3>5 DEF BGInstallFailed
    <3>6. CASE BGCleaned
      BY <3>2, <3>6 DEF BGCleaned
    <3> QED
      BY <1>2, <3>1, <3>3, <3>4, <3>5, <3>6
  <2>3. \A u \in Threads : \/ pc[u] \in Outside /\ pc'[u] \in Outside
                           \/ pc'[u] = pc[u] /\ frame'[u] = frame[u]
    BY <2>1, <2>2 DEF QueueInv, QueueShape, ManualInScope, Outside
  <2>4. QueueShape' /\ OneLogger' /\ GroupInQueue'
    <3>1. /\ DOMAIN frame' = Threads
          /\ \A u \in Threads : DOMAIN frame'[u] = DOMAIN Idle
          /\ pc' \in [Threads -> PC]
          /\ manual_compaction_' \in Threads \union {NoThread}
      BY <2>1, <2>2 DEF QueueInv, QueueShape
    <3> QED
      BY <2>1, <2>3, <3>1, OutsideStep
  <2>5. ManualInScope'
    BY <2>1, <2>2 DEF QueueInv, ManualInScope
  <2> QED
    BY <2>4, <2>5 DEF QueueInv
<1> QED
  BY <1>1, <1>2 DEF BGStep

LEMMA QueueInvInit == Init => QueueInv
<1> SUFFICES ASSUME Init PROVE QueueInv
  OBVIOUS
<1>1. QueueShape
  BY DEF Init, QueueShape, Idle, PC
<1>2. OneLogger
  BY DEF Init, OneLogger, InQueue, Leading
<1>3. GroupInQueue
  BY DEF Init, GroupInQueue, Committed
<1>4. ManualInScope
  BY DEF Init, ManualInScope
<1> QED
  BY <1>1, <1>2, <1>3, <1>4 DEF QueueInv

(* Every step of any thread keeps the queue's discipline. *)
LEMMA QueueInvNext == QueueInv /\ [Next]_vars => QueueInv'
<1> SUFFICES ASSUME QueueInv, [Next]_vars PROVE QueueInv'
  OBVIOUS
<1>1. CASE UNCHANGED vars
  <2>1. UNCHANGED <<pc, frame, writers_, manual_compaction_>>
    BY <1>1 DEF vars, threadVars, bgVars
  <2>2. SameFlags
    BY <2>1 DEF QueueInv, QueueShape, SameFlags
  <2> QED
    BY <2>1, <2>2, QuietStep
<1>2. ASSUME NEW t \in Threads, NEW r \in Requests, Write(t, r)
      PROVE  QueueInv'
  BY <1>2, WriteKeeps
<1>3. ASSUME NEW t \in Threads, CompactRange(t) \/ Close(t) \/ Step(t)
      PROVE  QueueInv'
  BY <1>3, TurnDoneKeeps, TurnLeadKeeps, BuildGroupKeeps, PopKeeps, StayKeeps, LeaderKeeps,
     OutsideKeeps DEF Step
<1>4. CASE BGStep
  BY <1>4, BackgroundKeeps
<1> QED
  BY <1>1, <1>2, <1>3, <1>4 DEF Next, Finished

LEMMA QueueInvariant == Spec => []QueueInv
  BY QueueInvInit, QueueInvNext, PTL DEF Spec

(* For every number of threads and every mix of failures, only the thread  *)
(* at the front of the queue is past its turn in Write, and a thread is in *)
(* the queue exactly while its Write is not done: logging and filling the  *)
(* memtable without the mutex is safe (db_impl.cc 1204-1275).              *)
THEOREM OneLoggerAlways == Spec => []OneLogger
<1>1. QueueInv => OneLogger
  BY DEF QueueInv
<1> QED
  BY <1>1, QueueInvariant, PTL

(* manual_compaction_ always points to the frame of a TEST_CompactRange    *)
(* that still waits, whoever else compacts, fails or returns (db_impl.cc   *)
(* 627-640, 772-784).                                                      *)
THEOREM ManualInScopeAlways == Spec => []ManualInScope
<1>1. QueueInv => ManualInScope
  BY DEF QueueInv
<1> QED
  BY <1>1, QueueInvariant, PTL

-----------------------------------------------------------------------------
(* Errors *)

InWrite == Leading \union {"turn"}

Call == [op: {"write", "flush"}, updates: Nat, sync: BOOLEAN,
         afterError: BOOLEAN, result: {"pending", "ok", "error"}]

CallShape ==
    /\ hist \in Seq(Call) /\ bg_error_ \in BOOLEAN
    /\ \A t \in Threads : pc[t] \in InWrite =>
         frame[t].call \in DOMAIN hist /\ frame[t].status \in {"ok", "error"}

(* bg_error_ is never taken back. *)
ErrorStays == \A c \in DOMAIN hist : hist[c].afterError => bg_error_

(* The leader holds the mutex from the test of bg_error_ to the moment its *)
(* group is formed, so that whoever is in a group it goes on with came     *)
(* before the error.                                                       *)
TestedUnderMutex ==
    \A t \in Threads : pc[t] = "group" =>
        mutex = t /\ (frame[t].status = "ok" => ~bg_error_)

GroupCameBefore ==
    \A t \in Threads : pc[t] \in Committed /\ frame[t].status = "ok" =>
        \A i, j \in DOMAIN writers_ : i <= j /\ writers_[j] = frame[t].last_writer =>
            ~Batch(writers_[i]).afterError

(* Its status is passed on to the group. *)
DoneCameBefore ==
    \A t \in Threads : pc[t] = "turn" /\ frame[t].done /\ frame[t].status = "ok" =>
        ~Batch(t).afterError

StatusInv ==
    /\ CallShape /\ ErrorStays /\ TestedUnderMutex /\ GroupCameBefore /\ DoneCameBefore
    /\ NoWriteAfterError

-----------------------------------------------------------------------------
(* A step under the mutex of anyone but a leader that forms its group      *)
(* finds no such leader (and neither does the background thread).          *)
LEMMA NobodyForms ==
    ASSUME StatusInv, NEW t \in Threads,
           mutex = NoThread \/ (Locked(t) /\ pc[t] # "group")
    PROVE  \A u \in Threads : pc[u] # "group"
  BY DBAssumption DEF StatusInv, TestedUnderMutex, Locked

(* Steps that neither begin nor end a call: the places of the threads may  *)
(* change and a status may turn to an error.                               *)
SameCall(u) ==
    /\ pc[u] \in InWrite
    /\ frame'[u].call = frame[u].call
    /\ frame'[u].done = frame[u].done
    /\ frame'[u].last_writer = frame[u].last_writer
    /\ frame'[u].status \in {"ok", "error"}
    /\ frame'[u].status = "ok" /\ pc'[u] # "group" => frame[u].status = "ok"
    /\ pc'[u] = "turn" => pc[u] = "turn"
    /\ pc'[u] \in Committed => pc[u] \in Committed
    /\ pc'[u] = "group" => mutex' = u /\ (frame'[u].status = "ok" => ~bg_error_')

LEMMA SameCallsKeep ==
    ASSUME QueueInv, StatusInv, hist' = hist, writers_' = writers_,
           bg_error_' \in BOOLEAN, bg_error_ => bg_error_',
           \A u \in Threads : pc[u] \in InWrite => SameCall(u),
           \A u \in Threads : pc'[u] \in InWrite => pc[u] \in InWrite
    PROVE  StatusInv'
<1>1. CallShape'
  BY DEF StatusInv, CallShape, SameCall
<1>2. ErrorStays'
  BY DEF StatusInv, ErrorStays
<1>3. TestedUnderMutex'
  BY DEF TestedUnderMutex, SameCall, InWrite, Leading
<1>4. GroupCameBefore'
  <2> SUFFICES ASSUME NEW t \in Threads, pc'[t] \in Committed, frame'[t].status = "ok",
                      NEW i \in DOMAIN writers_, NEW j \in DOMAIN writers_,
                      i <= j, writers_[j] = frame'[t].last_writer
               PROVE  ~hist[frame'[writers_[i]].call].afterError
    BY DEF GroupCameBefore, Batch
  <2>1. pc[t] \in Committed /\ frame[t].status = "ok" /\ writers_[j] = frame[t].last_writer
    BY DEF SameCall, Committed, InWrite, Leading
  <2>2. ~hist[frame[writers_[i]].call].afterError
    BY <2>1 DEF StatusInv, GroupCameBefore, Batch
  <2>3. writers_[i] \in Threads /\ pc[writers_[i]] \in InWrite
    BY DEF QueueInv, QueueShape, OneLogger, InQueue, InWrite
  <2> QED
    BY <2>2, <2>3 DEF SameCall
<1>5. DoneCameBefore'
  BY DEF StatusInv, DoneCameBefore, SameCall, Batch, InWrite
<1>6. NoWriteAfterError'
  BY DEF StatusInv, NoWriteAfterError
<1> QED
  BY <1>1, <1>2, <1>3, <1>4, <1>5, <1>6 DEF StatusInv

-----------------------------------------------------------------------------
(* The steps that begin and end calls *)

(* A call begins: it knows whether an error was recorded before, and       *)
(* enters behind every group (Write, line 1211).                           *)
LEMMA WriteStatus ==
    ASSUME QueueInv, StatusInv, NEW t \in Threads, NEW r \in Requests, Write(t, r)
    PROVE  StatusInv'
<1> DEFINE new == [op |-> r.op, updates |-> r.updates, sync |-> r.sync,
                   afterError |-> bg_error_, result |-> "pending"]
<1>1. /\ pc[t] = "idle" /\ pc' = [pc EXCEPT ![t] = "turn"]
      /\ writers_' = Append(writers_, t) /\ hist' = Append(hist, new)
      /\ UNCHANGED bg_error_ /\ Locked(t)
  BY DEF Write, bgVars, Keep
<1>2. /\ DOMAIN frame' = Threads
      /\ \A u \in Threads \ {t} : frame'[u] = frame[u]
      /\ frame'[t].call = Len(hist) + 1 /\ frame'[t].status = "ok" /\ ~frame'[t].done
  BY DEF Write, QueueInv, QueueShape, Idle
<1>3. hist \in Seq(Call) /\ new \in Call
  <2>1. r \in Request /\ hist \in Seq(Call) /\ bg_error_ \in BOOLEAN
    BY DBAssumption DEF StatusInv, CallShape
  <2>2. r.op \in {"write", "flush"} /\ r.updates \in Nat /\ r.sync \in BOOLEAN
    <3>1. CASE r \in [op: {"write"}, updates: Nat \ {0}, sync: BOOLEAN]
      BY <3>1
    <3>2. CASE r \in [op: {"flush"}, updates: {0}, sync: {FALSE}]
      <4>1. r.op \in {"flush"} /\ r.updates \in {0} /\ r.sync \in {FALSE}
        BY <3>2
      <4>2. r.sync \in BOOLEAN
        BY <4>1, Zenon
      <4> QED
        BY <4>1, <4>2
    <3>3. \/ r \in [op: {"write"}, updates: Nat \ {0}, sync: BOOLEAN]
          \/ r \in [op: {"flush"}, updates: {0}, sync: {FALSE}]
      BY <2>1, Zenon DEF Request
    <3> QED
      BY <3>1, <3>2, <3>3
  <2> QED
    BY <2>1, <2>2 DEF Call
<1> HIDE DEF new
<1>4. /\ hist' \in Seq(Call) /\ Len(hist') = Len(hist) + 1
      /\ \A c \in DOMAIN hist : c \in DOMAIN hist' /\ hist'[c] = hist[c]
      /\ \A c \in DOMAIN hist' : c \in DOMAIN hist \/ c = Len(hist) + 1
      /\ Len(hist) + 1 \in DOMAIN hist' /\ hist'[Len(hist) + 1] = new
  BY <1>1, <1>3
<1>5. /\ \A i \in DOMAIN writers_ : i \in DOMAIN writers_' /\ writers_'[i] = writers_[i]
      /\ \A i \in DOMAIN writers_' : i \in DOMAIN writers_ \/ i = Len(writers_) + 1
      /\ writers_'[Len(writers_) + 1] = t
  BY <1>1 DEF QueueInv, QueueShape
<1>6. \A u \in Threads \ {t} : pc'[u] = pc[u]
  BY <1>1 DEF QueueInv, QueueShape
<1>7. pc'[t] = "turn"
  BY <1>1 DEF QueueInv, QueueShape
<1>8. CallShape'
  BY <1>1, <1>2, <1>4, <1>6, <1>7 DEF StatusInv, CallShape
<1>9. ErrorStays'
  BY <1>1, <1>4 DEF StatusInv, ErrorStays, new
<1>10. TestedUnderMutex'
  <2>1. \A u \in Threads : pc[u] # "group"
    BY <1>1, NobodyForms
  <2> QED
    BY <2>1, <1>6, <1>7 DEF TestedUnderMutex
<1>11. GroupCameBefore'
  <2> SUFFICES ASSUME NEW u \in Threads, pc'[u] \in Committed, frame'[u].status = "ok",
                      NEW i \in DOMAIN writers_', NEW j \in DOMAIN writers_',
                      i <= j, writers_'[j] = frame'[u].last_writer
               PROVE  ~hist'[frame'[writers_'[i]].call].afterError
    BY DEF GroupCameBefore, Batch
  <2>1. u # t /\ pc[u] \in Committed /\ frame'[u] = frame[u]
    BY <1>2, <1>6, <1>7 DEF Committed
  <2>2. InQueue(frame[u].last_writer) /\ ~InQueue(t)
    BY <2>1, <1>1 DEF QueueInv, GroupInQueue, OneLogger, Leading
  <2>3. j \in DOMAIN writers_
    BY <2>1, <2>2, <1>5 DEF InQueue
  <2>4. i \in DOMAIN writers_ /\ writers_ \in Seq(Threads)
    BY <2>3, <1>5 DEF QueueInv, QueueShape
  <2>5. writers_'[i] = writers_[i] /\ writers_'[j] = writers_[j]
    BY <2>3, <2>4, <1>5
  <2>6. writers_[i] \in Threads /\ pc[writers_[i]] \in InWrite /\ writers_[i] # t
    BY <2>2, <2>4 DEF QueueInv, OneLogger, InQueue, InWrite
  <2>7. ~hist[frame[writers_[i]].call].afterError /\ frame[writers_[i]].call \in DOMAIN hist
    BY <2>1, <2>3, <2>4, <2>5, <2>6 DEF StatusInv, GroupCameBefore, CallShape, Batch
  <2> QED
    BY <2>5, <2>6, <2>7, <1>2, <1>4
<1>12. DoneCameBefore'
  BY <1>2, <1>4, <1>6, <1>7 DEF StatusInv, DoneCameBefore, CallShape, Batch, InWrite
<1>13. NoWriteAfterError'
  BY <1>4 DEF StatusInv, NoWriteAfterError, new
<1> QED
  BY <1>8, <1>9, <1>10, <1>11, <1>12, <1>13 DEF StatusInv

(* A result is noted: its call keeps what it knew when it began.           *)
LEMMA ResultNoted ==
    ASSUME StatusInv, NEW c \in DOMAIN hist, NEW status \in {"ok", "error"},
           status = "ok" => ~hist[c].afterError,
           hist' = [hist EXCEPT ![c].result = status], UNCHANGED bg_error_
    PROVE  /\ hist' \in Seq(Call) /\ DOMAIN hist' = DOMAIN hist
           /\ \A d \in DOMAIN hist : hist'[d].afterError = hist[d].afterError
           /\ ErrorStays' /\ NoWriteAfterError'
<1>1. hist \in Seq(Call)
  BY DEF StatusInv, CallShape
<1>2. hist' \in Seq(Call) /\ DOMAIN hist' = DOMAIN hist
  <2>1. hist[c] \in Call
    BY <1>1
  <2>2. [hist[c] EXCEPT !.result = status] \in Call
    BY <2>1 DEF Call
  <2> QED
    BY <1>1, <2>2
<1>3. \A d \in DOMAIN hist : hist'[d].afterError = hist[d].afterError
  BY <1>1 DEF Call
<1>4. \A d \in DOMAIN hist : hist'[d].result = IF d = c THEN status ELSE hist[d].result
  BY <1>1 DEF Call
<1> QED
  BY <1>2, <1>3, <1>4 DEF StatusInv, ErrorStays, NoWriteAfterError

(* A writer whose work was done returns what its leader left it (lines     *)
(* 1215-1217).                                                             *)
LEMMA TurnDoneStatus ==
    ASSUME QueueInv, StatusInv, NEW t \in Threads, TurnDone(t)
    PROVE  StatusInv'
<1> DEFINE status == frame[t].status
           c == frame[t].call
<1>1. /\ pc[t] = "turn" /\ frame[t].done /\ Locked(t)
      /\ pc' = [pc EXCEPT ![t] = AfterWrite(t)] /\ AfterWrite(t) \in {"idle", "flush"}
      /\ hist' = [hist EXCEPT ![c].result = status]
      /\ frame' = [frame EXCEPT ![t] = LocalsAfter(t)]
      /\ UNCHANGED <<writers_, bg_error_>>
  BY DEF TurnDone, AfterWrite, bgVars, Release
<1>2. c \in DOMAIN hist /\ status \in {"ok", "error"} /\ (status = "ok" => ~hist[c].afterError)
  BY <1>1 DEF StatusInv, CallShape, DoneCameBefore, Batch, InWrite
<1>3. /\ hist' \in Seq(Call) /\ DOMAIN hist' = DOMAIN hist
      /\ \A d \in DOMAIN hist : hist'[d].afterError = hist[d].afterError
      /\ ErrorStays' /\ NoWriteAfterError'
  BY <1>1, <1>2, ResultNoted
<1>4. /\ \A u \in Threads \ {t} : pc'[u] = pc[u] /\ frame'[u] = frame[u]
      /\ pc'[t] \in {"idle", "flush"}
  BY <1>1 DEF QueueInv, QueueShape
<1>5. ~InQueue(t)
  BY <1>1 DEF QueueInv, OneLogger, Leading
<1>6. CallShape'
  BY <1>1, <1>3, <1>4 DEF StatusInv, CallShape, InWrite, Leading
<1>7. TestedUnderMutex'
  <2>1. \A u \in Threads : pc[u] # "group"
    BY <1>1, NobodyForms
  <2> QED
    BY <2>1, <1>4 DEF TestedUnderMutex
<1>8. GroupCameBefore'
  <2> SUFFICES ASSUME NEW u \in Threads, pc'[u] \in Committed, frame'[u].status = "ok",
                      NEW i \in DOMAIN writers_, NEW j \in DOMAIN writers_,
                      i <= j, writers_[j] = frame'[u].last_writer
               PROVE  ~hist'[frame'[writers_[i]].call].afterError
    BY <1>1 DEF GroupCameBefore, Batch
  <2>1. u # t /\ pc[u] \in Committed /\ frame'[u] = frame[u]
    BY <1>4 DEF Committed
  <2>2. ~hist[frame[writers_[i]].call].afterError
    BY <2>1 DEF StatusInv, GroupCameBefore, Batch
  <2>3. writers_[i] \in Threads /\ pc[writers_[i]] \in InWrite /\ writers_[i] # t
    BY <1>5 DEF QueueInv, QueueShape, OneLogger, InQueue, InWrite
  <2>4. frame[writers_[i]].call \in DOMAIN hist
    BY <2>3 DEF StatusInv, CallShape
  <2> QED
    BY <2>2, <2>3, <2>4, <1>3, <1>4
<1>9. DoneCameBefore'
  BY <1>3, <1>4 DEF StatusInv, DoneCameBefore, CallShape, Batch, InWrite
<1> QED
  BY <1>3, <1>6, <1>7, <1>8, <1>9 DEF StatusInv

(* A leader without an error forms its group of writers that are in the    *)
(* queue by now, before an error can be recorded (lines 1221-1234).        *)
LEMMA GroupStatus ==
    ASSUME QueueInv, StatusInv, NEW t \in Threads, BuildGroup(t) \/ NoGroup(t)
    PROVE  StatusInv'
<1>1. /\ pc[t] = "group" /\ Locked(t)
      /\ UNCHANGED <<writers_, hist, bg_error_>>
  BY DEF BuildGroup, NoGroup, bgVars, Release, Keep
<1>2. PICK p \in {"log", "pop"} : pc' = [pc EXCEPT ![t] = p]
  BY DEF BuildGroup, NoGroup
<1>3. /\ DOMAIN frame' = Threads
      /\ \A u \in Threads : /\ frame'[u].call = frame[u].call
                            /\ frame'[u].done = frame[u].done
                            /\ frame'[u].status = frame[u].status
  <2>1. CASE BuildGroup(t)
    <3>1. PICK k \in GroupSizes(t) :
            frame' = [frame EXCEPT ![t].last_writer = writers_[k],
                                   ![t].record = GroupRecord(k)]
      BY <2>1 DEF BuildGroup
    <3> QED
      BY <3>1 DEF QueueInv, QueueShape, Idle
  <2>2. CASE NoGroup(t)
    BY <2>2 DEF NoGroup, QueueInv, QueueShape, Idle
  <2> QED
    BY <2>1, <2>2
<1>4. pc'[t] \in {"log", "pop"} /\ \A u \in Threads \ {t} : pc'[u] = pc[u] /\ pc[u] \notin Leading
  BY <1>1, <1>2 DEF QueueInv, QueueShape, OneLogger, Leading
<1>5. CallShape'
  BY <1>1, <1>3, <1>4 DEF StatusInv, CallShape, InWrite, Leading
<1>6. ErrorStays' /\ NoWriteAfterError'
  BY <1>1 DEF StatusInv, ErrorStays, NoWriteAfterError
<1>7. TestedUnderMutex'
  BY <1>4 DEF TestedUnderMutex, Leading
<1>8. GroupCameBefore'
  <2> SUFFICES ASSUME frame'[t].status = "ok", NEW i \in DOMAIN writers_
               PROVE  ~hist[frame'[writers_[i]].call].afterError
    <3>1. \A u \in Threads : pc'[u] \in Committed => u = t
      BY <1>4 DEF Committed, Leading
    <3> QED
      BY <3>1, <1>1 DEF GroupCameBefore, Batch
  <2>1. ~bg_error_
    BY <1>1, <1>3 DEF StatusInv, TestedUnderMutex
  <2>2. writers_[i] \in Threads /\ pc[writers_[i]] \in InWrite
    BY DEF QueueInv, QueueShape, OneLogger, InQueue, InWrite
  <2>3. frame[writers_[i]].call \in DOMAIN hist
    BY <2>2 DEF StatusInv, CallShape
  <2> QED
    BY <2>1, <2>2, <2>3, <1>3 DEF StatusInv, ErrorStays
<1>9. DoneCameBefore'
  BY <1>1, <1>3, <1>4 DEF StatusInv, DoneCameBefore, Batch
<1> QED
  BY <1>5, <1>6, <1>7, <1>8, <1>9 DEF StatusInv

(* The group leaves with its leader's status (lines 1258-1274).            *)
LEMMA PopStatus ==
    ASSUME QueueInv, StatusInv, NEW t \in Threads, Pop(t)
    PROVE  StatusInv'
<1> DEFINE n == GroupSize(t)
           status == frame[t].status
           c == frame[t].call
<1>1. /\ pc[t] = "pop" /\ pc' = [pc EXCEPT ![t] = AfterWrite(t)]
      /\ AfterWrite(t) \in {"idle", "flush"} /\ Locked(t)
      /\ hist' = [hist EXCEPT ![c].result = status]
      /\ UNCHANGED bg_error_
  BY DEF Pop, AfterWrite, bgVars, Release
<1>2. n \in DOMAIN writers_ /\ writers_[n] = frame[t].last_writer /\ Head(writers_) = t
  <2>1. InQueue(frame[t].last_writer)
    BY <1>1 DEF QueueInv, GroupInQueue, Committed
  <2>2. n \in DOMAIN writers_ /\ writers_[n] = frame[t].last_writer
    BY <2>1 DEF InQueue, GroupSize
  <2> QED
    BY <1>1, <2>2 DEF QueueInv, OneLogger, Leading
<1> HIDE DEF n
<1>3. writers_ \in Seq(Threads) /\ n \in 1 .. Len(writers_) /\ writers_[1] = t
  BY <1>2 DEF QueueInv, QueueShape
<1>4. status = "ok" => \A i \in 1 .. n : ~Batch(writers_[i]).afterError
  BY <1>1, <1>2, <1>3 DEF StatusInv, GroupCameBefore, Committed
<1>5. c \in DOMAIN hist /\ status \in {"ok", "error"} /\ (status = "ok" => ~hist[c].afterError)
  BY <1>1, <1>3, <1>4 DEF StatusInv, CallShape, InWrite, Leading, Batch
<1>6. /\ hist' \in Seq(Call) /\ DOMAIN hist' = DOMAIN hist
      /\ \A d \in DOMAIN hist : hist'[d].afterError = hist[d].afterError
      /\ ErrorStays' /\ NoWriteAfterError'
  BY <1>1, <1>5, ResultNoted
<1>7. /\ \A u \in Threads \ {t} : pc'[u] = pc[u] /\ pc[u] \notin Leading
      /\ pc'[t] \in {"idle", "flush"}
  BY <1>1, <1>2 DEF QueueInv, QueueShape, OneLogger, Leading
<1>8. \A u \in Threads \ {t} :
        /\ frame'[u].call = frame[u].call
        /\ \/ frame'[u].done = frame[u].done /\ frame'[u].status = frame[u].status
           \/ /\ frame'[u].status = status
              /\ status = "ok" => ~Batch(u).afterError
  <2> SUFFICES ASSUME NEW u \in Threads \ {t}
               PROVE  /\ frame'[u].call = frame[u].call
                      /\ \/ frame'[u].done = frame[u].done /\ frame'[u].status = frame[u].status
                         \/ /\ frame'[u].status = status
                            /\ status = "ok" => ~Batch(u).afterError
    OBVIOUS
  <2>1. frame'[u] = IF u \in Followers(t)
                    THEN [frame[u] EXCEPT !.status = status, !.done = TRUE]
                    ELSE frame[u]
    BY DEF Pop, FollowerStatus
  <2>2. CASE u \in Followers(t)
    <3>1. frame'[u].call = frame[u].call /\ frame'[u].status = status
      BY <2>1, <2>2 DEF QueueInv, QueueShape, Idle
    <3>2. \E i \in 1 .. n : u = writers_[i]
      BY <2>2, <1>3 DEF Followers, n
    <3> QED
      BY <3>1, <3>2, <1>4
  <2>3. CASE u \notin Followers(t)
    BY <2>1, <2>3
  <2> QED
    BY <2>2, <2>3
<1>9. CallShape'
  BY <1>1, <1>5, <1>6, <1>7, <1>8 DEF StatusInv, CallShape, InWrite, Leading
<1>10. TestedUnderMutex' /\ GroupCameBefore'
  BY <1>7 DEF TestedUnderMutex, GroupCameBefore, Committed, Leading
<1>11. DoneCameBefore'
  <2> SUFFICES ASSUME NEW u \in Threads \ {t}, pc[u] = "turn", frame'[u].done,
                      frame'[u].status = "ok"
               PROVE  ~hist'[frame'[u].call].afterError
    BY <1>7 DEF DoneCameBefore, Batch
  <2>1. frame[u].call \in DOMAIN hist
    BY DEF StatusInv, CallShape, InWrite
  <2>2. ~hist[frame[u].call].afterError
    BY <1>8 DEF StatusInv, DoneCameBefore, Batch
  <2> QED
    BY <2>1, <2>2, <1>6, <1>8
<1> QED
  BY <1>6, <1>9, <1>10, <1>11 DEF StatusInv

-----------------------------------------------------------------------------
(* The other steps of a thread *)

(* Waiting for the turn, for room or for a moment, becoming the leader,    *)
(* switching the memtable: a step under the mutex before the group.        *)
LEMMA BeforeGroupStatus ==
    ASSUME QueueInv, StatusInv, NEW t \in Threads,
           TurnWait(t) \/ TurnLead(t) \/ RoomDelay(t) \/ RoomWait(t) \/ RoomSwitch(t)
    PROVE  StatusInv'
<1>1. /\ Locked(t) /\ pc[t] \in {"turn", "room"}
      /\ UNCHANGED <<hist, writers_>>
  BY DEF TurnWait, TurnLead, RoomDelay, RoomWait, RoomSwitch, SwitchDue, InRoom, threadVars,
         Keep, Release
<1>2. \A u \in Threads : pc[u] # "group"
  BY <1>1, NobodyForms
<1>3. bg_error_' \in BOOLEAN /\ (bg_error_ => bg_error_')
  <2>1. CASE RoomSwitch(t)
    BY <2>1 DEF RoomSwitch, SwitchDue, Refused
  <2>2. CASE TurnWait(t) \/ TurnLead(t) \/ RoomDelay(t) \/ RoomWait(t)
    BY <2>2 DEF TurnWait, TurnLead, RoomDelay, RoomWait, bgVars, StatusInv, CallShape
  <2> QED
    BY <2>1, <2>2
<1>4. pc' = pc \/ (pc[t] = "turn" /\ pc' = [pc EXCEPT ![t] = "room"])
  BY DEF TurnWait, TurnLead, RoomDelay, RoomWait, RoomSwitch, threadVars
<1>5. \A u \in Threads : pc'[u] = pc[u] \/ (pc[u] = "turn" /\ pc'[u] = "room")
  BY <1>4 DEF QueueInv, QueueShape
<1>6. \A u \in Threads : /\ frame'[u].call = frame[u].call
                         /\ frame'[u].done = frame[u].done
                         /\ frame'[u].last_writer = frame[u].last_writer
                         /\ frame'[u].status = frame[u].status
  <2>1. CASE TurnWait(t) \/ RoomWait(t)
    BY <2>1 DEF TurnWait, RoomWait, threadVars
  <2>2. CASE TurnLead(t)
    BY <2>2 DEF TurnLead, QueueInv, QueueShape, Idle
  <2>3. CASE RoomDelay(t)
    BY <2>3 DEF RoomDelay, QueueInv, QueueShape, Idle
  <2>4. CASE RoomSwitch(t)
    BY <2>4 DEF RoomSwitch, QueueInv, QueueShape, Idle
  <2> QED
    BY <2>1, <2>2, <2>3, <2>4
<1>7. \A u \in Threads : pc[u] \in InWrite => SameCall(u)
  <2> SUFFICES ASSUME NEW u \in Threads, pc[u] \in InWrite
               PROVE  SameCall(u)
    OBVIOUS
  <2>1. frame[u].status \in {"ok", "error"}
    BY DEF StatusInv, CallShape
  <2>2. pc'[u] # "group" /\ (pc'[u] = "turn" => pc[u] = "turn")
    BY <1>2, <1>5
  <2>3. pc'[u] \in Committed => pc[u] \in Committed
    BY <1>5 DEF Committed
  <2> QED
    BY <1>6, <2>1, <2>2, <2>3 DEF SameCall
<1>8. \A u \in Threads : pc'[u] \in InWrite => pc[u] \in InWrite
  BY <1>5 DEF InWrite, Leading
<1> QED
  BY <1>1, <1>3, <1>7, <1>8, SameCallsKeep

(* Out of MakeRoomForWrite, still under the mutex, with an error if one is *)
(* recorded.                                                               *)
LEMMA RoomStatus ==
    ASSUME QueueInv, StatusInv, NEW t \in Threads,
           RoomError(t) \/ RoomFits(t) \/ RoomNoLog(t)
    PROVE  StatusInv'
<1>1. PICK status \in {"ok", "error"} : /\ status = "ok" => ~bg_error_
                                        /\ LeaveRoom(t, status)
  BY DEF RoomError, RoomFits, RoomNoLog, Refused
<1>2. /\ pc[t] = "room" /\ pc' = [pc EXCEPT ![t] = "group"] /\ mutex' = t /\ Locked(t)
      /\ frame' = [frame EXCEPT ![t].status = status]
      /\ UNCHANGED <<hist, writers_, bg_error_>>
  BY <1>1 DEF RoomError, RoomFits, RoomNoLog, SwitchDue, InRoom, LeaveRoom, Keep, bgVars
<1>3. \A u \in Threads : pc[u] # "group"
  BY <1>2, NobodyForms
<1>4. \A u \in Threads : /\ u # t => pc'[u] = pc[u] /\ frame'[u] = frame[u]
                         /\ frame'[u].call = frame[u].call
                         /\ frame'[u].done = frame[u].done
                         /\ frame'[u].last_writer = frame[u].last_writer
  BY <1>2 DEF QueueInv, QueueShape, Idle
<1>5. pc'[t] = "group" /\ frame'[t].status = status
  BY <1>2 DEF QueueInv, QueueShape, Idle
<1>6. \A u \in Threads : pc[u] \in InWrite => SameCall(u)
  BY <1>1, <1>2, <1>3, <1>4, <1>5 DEF SameCall, StatusInv, CallShape, Committed
<1>7. \A u \in Threads : pc'[u] \in InWrite => pc[u] \in InWrite
  BY <1>2, <1>4 DEF InWrite, Leading
<1> QED
  BY <1>2, <1>6, <1>7, SameCallsKeep DEF StatusInv, CallShape

(* The log, the sync, the memtable: an error is kept (lines 1235-1257).    *)
LEMMA CommitStatus ==
    ASSUME QueueInv, StatusInv, NEW t \in Threads,
           \/ AddRecord(t) \/ AddRecordFails(t) \/ Sync(t) \/ SyncFails(t)
           \/ InsertUpdate(t) \/ Relock(t)
    PROVE  StatusInv'
<1>1. pc[t] \in Committed /\ UNCHANGED <<hist, writers_>>
  BY DEF AddRecord, AddRecordFails, Sync, SyncFails, InsertUpdate, Relock, Committed
<1>2. PICK p \in Committed : pc' = [pc EXCEPT ![t] = p]
  BY DEF AddRecord, AddRecordFails, Sync, SyncFails, InsertUpdate, Relock, Committed
<1>3. /\ pc'[t] = p
      /\ \A u \in Threads \ {t} : pc'[u] = pc[u] /\ pc[u] \notin Leading
  BY <1>1, <1>2 DEF QueueInv, QueueShape, OneLogger, Leading, Committed
<1>4. bg_error_' \in BOOLEAN /\ (bg_error_ => bg_error_')
  <2>1. bg_error_' = bg_error_ \/ bg_error_' = (bg_error_ \/ frame[t].sync_error)
    BY DEF AddRecord, AddRecordFails, Sync, SyncFails, InsertUpdate, Relock, bgVars
  <2>2. bg_error_ \in BOOLEAN
    BY DEF StatusInv, CallShape
  <2>3. CASE bg_error_' = bg_error_
    BY <2>2, <2>3
  <2>4. CASE bg_error_' = (bg_error_ \/ frame[t].sync_error)
    BY <2>4
  <2> QED
    BY <2>1, <2>3, <2>4
<1>5. \A u \in Threads : /\ frame'[u].call = frame[u].call
                         /\ frame'[u].done = frame[u].done
                         /\ frame'[u].last_writer = frame[u].last_writer
                         /\ frame'[u].status \in {frame[u].status, "error"}
  <2>1. \/ frame' = frame
        \/ frame' = [frame EXCEPT ![t].status = "error"]
        \/ frame' = [frame EXCEPT ![t].status = "error", ![t].sync_error = TRUE]
        \/ frame' = [frame EXCEPT ![t].inserted = frame[t].inserted + 1]
    BY DEF AddRecord, AddRecordFails, Sync, SyncFails, InsertUpdate, Relock
  <2> QED
    BY <2>1 DEF QueueInv, QueueShape, Idle
<1>6. \A u \in Threads : pc[u] \in InWrite => SameCall(u)
  <2> SUFFICES ASSUME NEW u \in Threads, pc[u] \in InWrite
               PROVE  SameCall(u)
    OBVIOUS
  <2>1. frame[u].status \in {"ok", "error"}
    BY DEF StatusInv, CallShape
  <2>2. pc'[u] # "group" /\ (pc'[u] = "turn" => pc[u] = "turn")
    BY <1>3 DEF Committed, Leading
  <2>3. pc'[u] \in Committed => pc[u] \in Committed
    BY <1>1, <1>3 DEF Committed, Leading
  <2> QED
    BY <1>5, <2>1, <2>2, <2>3 DEF SameCall
<1>7. \A u \in Threads : pc'[u] \in InWrite => pc[u] \in InWrite
  BY <1>1, <1>3 DEF InWrite, Leading, Committed
<1> QED
  BY <1>1, <1>4, <1>6, <1>7, SameCallsKeep

-----------------------------------------------------------------------------
(* Flushes, manual compactions and the destructor leave writers alone.     *)
LEMMA OutsideStatus ==
    ASSUME QueueInv, StatusInv, NEW t \in Threads,
           \/ FlushStep(t) \/ CompactRange(t) \/ ManualWait(t) \/ ManualReturn(t)
           \/ Close(t) \/ CloseStep(t)
    PROVE  StatusInv'
<1>1. UNCHANGED <<hist, writers_, bg_error_>>
  BY DEF FlushStep, CompactRange, ManualWait, ManualReturn, Close, CloseStep, threadVars, bgVars
<1>2. pc[t] \in Outside
  <2>1. CASE Close(t)
    BY <2>1 DEF Close, Outside
  <2>2. CASE ~Close(t)
    BY <2>2 DEF FlushStep, CompactRange, ManualWait, ManualReturn, CloseStep, Outside
  <2> QED
    BY <2>1, <2>2
<1>3. PICK p \in Outside : pc' = [pc EXCEPT ![t] = p]
  <2>1. CASE pc' = pc
    BY <2>1, <1>2 DEF QueueInv, QueueShape
  <2>2. CASE pc' # pc
    BY <2>2 DEF FlushStep, CompactRange, ManualWait, ManualReturn, Close, CloseStep, Outside,
                threadVars
  <2> QED
    BY <2>1, <2>2
<1>4. \A u \in Threads \ {t} : frame'[u] = frame[u] /\ pc'[u] = pc[u]
  <2>1. \/ frame' = frame
        \/ \E f : frame' = [frame EXCEPT ![t] = f]
    BY DEF FlushStep, CompactRange, ManualWait, ManualReturn, Close, CloseStep, threadVars
  <2> QED
    BY <2>1, <1>3 DEF QueueInv, QueueShape
<1>5. pc'[t] \in Outside
  BY <1>3 DEF QueueInv, QueueShape
<1>6. mutex' = mutex \/ Locked(t)
  BY DEF FlushStep, CompactRange, ManualWait, ManualReturn, Close, CloseStep, lockVars, Release
<1>7. \A u \in Threads : pc[u] = "group" => mutex' = u
  <2>1. CASE mutex' = mutex
    BY <2>1 DEF StatusInv, TestedUnderMutex
  <2>2. CASE Locked(t)
    BY <2>2, <1>2, NobodyForms DEF Outside
  <2> QED
    BY <1>6, <2>1, <2>2
<1>8. \A u \in Threads : pc[u] \in InWrite => SameCall(u)
  <2> SUFFICES ASSUME NEW u \in Threads, pc[u] \in InWrite
               PROVE  SameCall(u)
    OBVIOUS
  <2>1. frame'[u] = frame[u] /\ pc'[u] = pc[u]
    BY <1>2, <1>4 DEF InWrite, Leading, Outside
  <2>2. frame[u].status \in {"ok", "error"}
    BY DEF StatusInv, CallShape
  <2>3. pc[u] = "group" => (frame[u].status = "ok" => ~bg_error_)
    BY DEF StatusInv, TestedUnderMutex
  <2> QED
    BY <1>1, <1>7, <2>1, <2>2, <2>3 DEF SameCall
<1>9. \A u \in Threads : pc'[u] \in InWrite => pc[u] \in InWrite
  BY <1>4, <1>5 DEF InWrite, Leading, Outside
<1> QED
  BY <1>1, <1>8, <1>9, SameCallsKeep DEF StatusInv, CallShape

(* The background thread may record an error, under the mutex.             *)
LEMMA BackgroundStatus ==
    ASSUME QueueInv, StatusInv, BGStep
    PROVE  StatusInv'
<1>1. mutex = NoThread /\ UNCHANGED <<pc, hist, writers_>>
  BY DEF BGStep, BGNothing, BGReady, BGMemTable, BGManualDone, BGCompaction, BGInnerMemTable,
         BGTableBuilt, BGTableFailed, BGApplied, BGApplyFailed, BGUnlinked, BGCompacted,
         BGCompactionFailed, BGInstalled, BGInstallFailed, BGCleaned, BGTakes, threadVars
<1>2. \/ bg_error_' = bg_error_
      \/ \E failed \in BOOLEAN : bg_error_' = (bg_error_ \/ failed)
  <2>1. ASSUME NEW failed \in BOOLEAN, EndCompaction(failed)
        PROVE  bg_error_' = (bg_error_ \/ failed)
    BY <2>1 DEF EndCompaction, EndCall, Signals
  <2>2. ASSUME NEW failed \in BOOLEAN, AfterMemTable(failed)
        PROVE  bg_error_' = (bg_error_ \/ failed)
    BY <2>2 DEF AfterMemTable, EndCall, Signals
  <2>3. CASE BGNothing \/ BGManualDone
    BY <2>3 DEF BGNothing, BGManualDone, EndCall, Signals
  <2>4. CASE BGMemTable \/ BGCompaction \/ BGInnerMemTable \/ BGTableBuilt \/ BGApplied
             \/ BGCompacted
    BY <2>4 DEF BGMemTable, BGCompaction, BGInnerMemTable, BGTableBuilt, BGApplied, BGCompacted
  <2>5. CASE BGTableFailed \/ BGApplyFailed \/ BGUnlinked
    BY <2>5, <2>2 DEF BGTableFailed, BGApplyFailed, BGUnlinked
  <2>6. CASE BGCompactionFailed \/ BGInstalled \/ BGInstallFailed \/ BGCleaned
    BY <2>6, <2>1 DEF BGCompactionFailed, BGInstalled, BGInstallFailed, BGCleaned
  <2> QED
    BY <2>3, <2>4, <2>5, <2>6 DEF BGStep
<1>3. bg_error_' \in BOOLEAN /\ (bg_error_ => bg_error_')
  <2>1. CASE bg_error_' = bg_error_
    BY <2>1 DEF StatusInv, CallShape
  <2>2. ASSUME NEW failed \in BOOLEAN, bg_error_' = (bg_error_ \/ failed)
        PROVE  bg_error_' \in BOOLEAN /\ (bg_error_ => bg_error_')
    BY <2>2
  <2> QED
    BY <1>2, <2>1, <2>2
<1>4. \A u \in Threads : pc[u] \in InWrite => frame'[u] = frame[u]
  <2>1. \/ frame' = frame
        \/ /\ manual_compaction_ # NoThread
           /\ \E f : frame' = [frame EXCEPT ![manual_compaction_] = f]
    BY DEF BGStep, BGNothing, BGMemTable, BGManualDone, BGCompaction, BGInnerMemTable,
           BGTableBuilt, BGTableFailed, BGApplied, BGApplyFailed, BGUnlinked, BGCompacted,
           BGCompactionFailed, BGInstalled, BGInstallFailed, BGCleaned, EndCompaction, threadVars
  <2> QED
    BY <2>1 DEF QueueInv, QueueShape, ManualInScope, InWrite, Leading
<1>5. \A u \in Threads : pc[u] # "group"
  <2> SUFFICES ASSUME NEW u \in Threads PROVE pc[u] # "group"
    OBVIOUS
  <2> QED
    BY <1>1, NobodyForms
<1>6. \A u \in Threads : pc[u] \in InWrite => SameCall(u)
  BY <1>1, <1>4, <1>5 DEF SameCall, StatusInv, CallShape
<1> QED
  BY <1>1, <1>3, <1>6, SameCallsKeep

-----------------------------------------------------------------------------
LEMMA StatusInvariant == Spec => [](QueueInv /\ StatusInv)
<1>1. Init => StatusInv
  <2> SUFFICES ASSUME Init PROVE StatusInv
    OBVIOUS
  <2>1. hist = <<>> /\ bg_error_ = FALSE /\ \A t \in Threads : pc[t] = "idle"
    BY DEF Init
  <2>2. CallShape
    <3>1. bg_error_ \in BOOLEAN
      BY <2>1, Zenon
    <3>2. hist \in Seq(Call)
      BY <2>1
    <3> QED
      BY <2>1, <3>1, <3>2 DEF CallShape, InWrite, Leading
  <2>3. ErrorStays /\ NoWriteAfterError
    BY <2>1 DEF ErrorStays, NoWriteAfterError
  <2>4. TestedUnderMutex /\ GroupCameBefore /\ DoneCameBefore
    BY <2>1 DEF TestedUnderMutex, GroupCameBefore, DoneCameBefore, Committed
  <2> QED
    BY <2>2, <2>3, <2>4 DEF StatusInv
<1>2. QueueInv /\ StatusInv /\ [Next]_vars => StatusInv'
  <2> SUFFICES ASSUME QueueInv, StatusInv, [Next]_vars PROVE StatusInv'
    OBVIOUS
  <2>1. CASE UNCHANGED vars
    <3>1. UNCHANGED <<pc, frame, writers_, hist, bg_error_, mutex>>
      BY <2>1 DEF vars, threadVars, bgVars, lockVars
    <3> QED
      BY <3>1 DEF StatusInv, CallShape, ErrorStays, TestedUnderMutex, GroupCameBefore,
                  DoneCameBefore, NoWriteAfterError, Batch
  <2>2. ASSUME NEW t \in Threads, NEW r \in Requests, Write(t, r)
        PROVE  StatusInv'
    BY <2>2, WriteStatus
  <2>3. ASSUME NEW t \in Threads, CompactRange(t) \/ Close(t) \/ Step(t)
        PROVE  StatusInv'
    BY <2>3, TurnDoneStatus, BeforeGroupStatus, RoomStatus, GroupStatus, CommitStatus,
       PopStatus, OutsideStatus DEF Step
  <2>4. CASE BGStep
    BY <2>4, BackgroundStatus
  <2> QED
    BY <2>1, <2>2, <2>3, <2>4 DEF Next, Finished
<1> QED
  BY <1>1, <1>2, QueueInvInit, QueueInvNext, PTL DEF Spec

(* "So we force the DB into a mode where all future writes fail"           *)
(* (db_impl.cc 1247-1249), for any number of threads and any failures: a   *)
(* call of Write that begins after an error was recorded never returns OK, *)
(* whoever leads its group.                                                *)
THEOREM NoWriteAfterErrorAlways == Spec => []NoWriteAfterError
<1>1. StatusInv => NoWriteAfterError
  BY DEF StatusInv
<1> QED
  BY <1>1, StatusInvariant, PTL

-----------------------------------------------------------------------------
(* A sleeping writer waits for its turn, behind the front of the queue.    *)
SleepersWait ==
    /\ cvWaiting \subseteq Threads
    /\ \A t \in cvWaiting : pc[t] = "turn" /\ ~frame[t].done /\ Head(writers_) # t

(* MaybeScheduleCompaction is called wherever there may be more to do, so  *)
(* that without a scheduled call there is nothing.                         *)
BackgroundShape ==
    /\ l0 \in Int /\ bg.inputs \in Int /\ DOMAIN bg = DOMAIN BGIdle
    /\ {scheduled, bg_error_, shutting_down_} \subseteq BOOLEAN

NothingToDo == imm_ = Null /\ manual_compaction_ = NoThread /\ l0 < CompactionTrigger

ScheduledIfDue ==
    /\ bg.pc # "idle" => scheduled
    /\ ~scheduled /\ ~shutting_down_ /\ ~bg_error_ => NothingToDo
    /\ workWaiting # {} => scheduled

(* After the destructor began nobody calls, and when it is through nothing *)
(* is scheduled any more.                                                  *)
ShutDown ==
    /\ shutting_down_ => \A t \in Threads : pc[t] \in {"idle", "closing", "closed"}
    /\ \A t \in Threads : pc[t] \in {"closing", "closed"} => shutting_down_
    /\ \A t \in Threads : pc[t] = "closed" => ~scheduled

WakeInv == BackgroundShape /\ SleepersWait /\ ScheduledIfDue /\ ShutDown

-----------------------------------------------------------------------------
(* MaybeScheduleCompaction leaves nothing to do behind.                    *)
LEMMA SchedulesIfDue ==
    ASSUME NEW already, NEW error, NEW imm, NEW manual, NEW files \in Int,
           ~Schedules(already, error, imm, manual, files)
    PROVE  ~already /\ (~shutting_down_ /\ ~error =>
                          imm = Null /\ manual = NoThread /\ files < CompactionTrigger)
  BY TriggerAssumption DEF Schedules

(* Steps under which the sleeping writers sleep on: the queue is as it is  *)
(* or grows at the back.                                                   *)
LEMMA SleepersStay ==
    ASSUME QueueInv, WakeInv, cvWaiting' = cvWaiting,
           writers_' = writers_ \/ \E t \in Threads : writers_' = Append(writers_, t),
           \A u \in cvWaiting : pc'[u] = pc[u] /\ frame'[u].done = frame[u].done
    PROVE  SleepersWait'
<1> SUFFICES ASSUME NEW u \in cvWaiting PROVE Head(writers_') # u
  BY DEF WakeInv, SleepersWait
<1>1. InQueue(u) /\ Head(writers_) # u /\ writers_ \in Seq(Threads)
  BY DEF WakeInv, SleepersWait, QueueInv, QueueShape, OneLogger
<1>2. writers_ # <<>>
  BY <1>1 DEF InQueue
<1>3. ASSUME NEW t \in Threads, writers_' = Append(writers_, t)
      PROVE  Head(writers_') = Head(writers_)
  BY <1>1, <1>2, <1>3
<1> QED
  BY <1>1, <1>3

(* A step of t that leaves the background thread's business alone.         *)
LEMMA ForegroundStay ==
    ASSUME WakeInv, NEW t \in Threads,
           UNCHANGED <<l0, bg, scheduled, bg_error_, shutting_down_, imm_, manual_compaction_>>,
           workWaiting' = workWaiting \/ (workWaiting' = workWaiting \union {t} /\ scheduled)
    PROVE  BackgroundShape' /\ ScheduledIfDue'
  BY DEF WakeInv, BackgroundShape, ScheduledIfDue, NothingToDo

(* A step of a thread in a call that stays in one or returns.              *)
LEMMA CallersStay ==
    ASSUME QueueInv, WakeInv, NEW t \in Threads,
           pc[t] \notin {"idle", "closing", "closed"},
           \A u \in Threads \ {t} : pc'[u] = pc[u],
           pc'[t] \notin {"closing", "closed"},
           UNCHANGED shutting_down_
    PROVE  ShutDown'
  BY DEF WakeInv, ShutDown, BackgroundShape

-----------------------------------------------------------------------------
(* The steps of a writer *)

(* A call begins (Write, line 1211). *)
LEMMA WriteWakes ==
    ASSUME QueueInv, WakeInv, NEW t \in Threads, NEW r \in Requests, Write(t, r)
    PROVE  WakeInv'
<1>1. /\ pc[t] = "idle" /\ pc' = [pc EXCEPT ![t] = "turn"] /\ ~shutting_down_
      /\ writers_' = Append(writers_, t)
      /\ UNCHANGED <<cvWaiting, workWaiting, l0, bg, scheduled, bg_error_, shutting_down_, imm_,
                     manual_compaction_>>
  BY DEF Write, storeVars, versionVars, bgVars
<1>2. /\ \A u \in Threads \ {t} : frame'[u] = frame[u] /\ pc'[u] = pc[u]
      /\ pc'[t] = "turn"
  BY <1>1 DEF Write, QueueInv, QueueShape
<1>3. SleepersWait'
  <2>1. \A u \in cvWaiting : pc'[u] = pc[u] /\ frame'[u].done = frame[u].done
    BY <1>1, <1>2 DEF WakeInv, SleepersWait
  <2> QED
    BY <1>1, <2>1, SleepersStay
<1>4. BackgroundShape' /\ ScheduledIfDue'
  BY <1>1, ForegroundStay
<1>5. ShutDown'
  BY <1>1, <1>2 DEF WakeInv, ShutDown
<1> QED
  BY <1>3, <1>4, <1>5 DEF WakeInv

(* What the leader of the queue does, or who becomes it, or whose work was *)
(* done, does not concern those asleep; who waits for room sees a reason   *)
(* to, and for the reason a call of the background thread is scheduled.    *)
LEMMA WriterWakes ==
    ASSUME QueueInv, WakeInv, NEW t \in Threads,
           \/ TurnDone(t) \/ TurnLead(t)
           \/ RoomError(t) \/ RoomDelay(t) \/ RoomFits(t) \/ RoomWait(t) \/ RoomNoLog(t)
           \/ BuildGroup(t) \/ NoGroup(t)
           \/ AddRecord(t) \/ AddRecordFails(t) \/ Sync(t) \/ SyncFails(t) \/ InsertUpdate(t)
    PROVE  WakeInv'
<1>1. UNCHANGED <<cvWaiting, writers_, l0, bg, scheduled, bg_error_, shutting_down_, imm_,
                  manual_compaction_>>
  BY DEF TurnDone, TurnLead, RoomError, RoomDelay, RoomFits, RoomWait, RoomNoLog, LeaveRoom,
         BuildGroup, NoGroup, AddRecord, AddRecordFails, Sync, SyncFails, InsertUpdate,
         storeVars, versionVars, bgVars, lockVars, threadVars
<1>2. pc[t] \in Leading \union {"turn"} /\ t \notin cvWaiting
  <2>1. CASE TurnDone(t) \/ TurnLead(t)
    BY <2>1 DEF TurnDone, TurnLead
  <2>2. CASE ~(TurnDone(t) \/ TurnLead(t))
    <3>1. pc[t] \in Leading
      BY <2>2 DEF RoomError, RoomDelay, RoomFits, RoomWait, RoomNoLog, InRoom, SwitchDue,
                  BuildGroup, NoGroup, AddRecord, AddRecordFails, Sync, SyncFails, InsertUpdate,
                  Leading
    <3> QED
      BY <3>1 DEF WakeInv, SleepersWait, Leading
  <2> QED
    BY <2>1, <2>2
<1>3. PICK p \in Leading \union {"idle", "flush"} : pc' = [pc EXCEPT ![t] = p]
  <2>1. CASE RoomDelay(t) \/ RoomWait(t)
    <3>1. pc' = pc /\ pc[t] = "room"
      BY <2>1 DEF RoomDelay, RoomWait, InRoom, threadVars
    <3> QED
      BY <3>1 DEF QueueInv, QueueShape, Leading
  <2>2. CASE ~(RoomDelay(t) \/ RoomWait(t))
    BY <2>2 DEF TurnDone, AfterWrite, TurnLead, RoomError, RoomFits, RoomNoLog, LeaveRoom,
                BuildGroup, NoGroup, AddRecord, AddRecordFails, Sync, SyncFails, InsertUpdate,
                Leading
  <2> QED
    BY <2>1, <2>2
<1>4. \A u \in Threads \ {t} : frame'[u] = frame[u] /\ pc'[u] = pc[u]
  <2>1. \/ frame' = frame
        \/ \E f : frame' = [frame EXCEPT ![t] = f]
    <3>1. CASE TurnDone(t) \/ RoomWait(t) \/ AddRecord(t) \/ Sync(t)
      BY <3>1 DEF TurnDone, RoomWait, AddRecord, Sync, threadVars
    <3>2. CASE TurnLead(t) \/ RoomError(t) \/ RoomFits(t) \/ RoomNoLog(t) \/ RoomDelay(t)
      BY <3>2 DEF TurnLead, RoomError, RoomFits, RoomNoLog, LeaveRoom, RoomDelay
    <3>3. CASE BuildGroup(t) \/ NoGroup(t)
      BY <3>3 DEF BuildGroup, NoGroup
    <3>4. CASE AddRecordFails(t) \/ SyncFails(t) \/ InsertUpdate(t)
      BY <3>4 DEF AddRecordFails, SyncFails, InsertUpdate
    <3> QED
      BY <3>1, <3>2, <3>3, <3>4
  <2> QED
    BY <2>1, <1>3 DEF QueueInv, QueueShape
<1>5. pc'[t] = p
  BY <1>3 DEF QueueInv, QueueShape
<1>6. workWaiting' = workWaiting \/ (workWaiting' = workWaiting \union {t} /\ scheduled)
  <2>1. CASE RoomWait(t)
    <3>1. /\ ~bg_error_ /\ (imm_ # Null \/ l0 >= StopTrigger)
          /\ workWaiting' = workWaiting \union {t}
      BY <2>1 DEF RoomWait, Refused
    <3>2. ~shutting_down_
      BY <1>2 DEF WakeInv, ShutDown, Leading
    <3>3. ~NothingToDo
      BY <3>1, TriggerAssumption DEF NothingToDo, WakeInv, BackgroundShape
    <3> QED
      BY <3>1, <3>2, <3>3 DEF WakeInv, ScheduledIfDue
  <2>2. CASE ~RoomWait(t)
    BY <2>2 DEF TurnDone, TurnLead, RoomError, RoomDelay, RoomFits, RoomNoLog, LeaveRoom,
                BuildGroup, NoGroup, AddRecord, AddRecordFails, Sync, SyncFails, InsertUpdate,
                lockVars
  <2> QED
    BY <2>1, <2>2
<1>7. SleepersWait'
  <2>1. \A u \in cvWaiting : pc'[u] = pc[u] /\ frame'[u].done = frame[u].done
    BY <1>2, <1>4 DEF WakeInv, SleepersWait
  <2> QED
    BY <1>1, <2>1, SleepersStay
<1>8. BackgroundShape' /\ ScheduledIfDue'
  BY <1>1, <1>6, ForegroundStay
<1>9. ShutDown'
  <2>1. pc[t] \notin {"idle", "closing", "closed"}
    BY <1>2 DEF Leading
  <2>2. pc'[t] \notin {"closing", "closed"}
    BY <1>5 DEF Leading
  <2> QED
    BY <1>1, <1>4, <2>1, <2>2, CallersStay
<1> QED
  BY <1>7, <1>8, <1>9 DEF WakeInv

(* Who goes to sleep is not at the front (lines 1212-1214). *)
LEMMA TurnWaitWakes ==
    ASSUME QueueInv, WakeInv, NEW t \in Threads, TurnWait(t)
    PROVE  WakeInv'
<1>1. /\ pc[t] = "turn" /\ ~frame[t].done /\ Head(writers_) # t
      /\ cvWaiting' = cvWaiting \union {t}
      /\ UNCHANGED <<pc, frame, writers_, workWaiting, l0, bg, scheduled, bg_error_,
                     shutting_down_, imm_, manual_compaction_>>
  BY DEF TurnWait, MyTurn, threadVars, storeVars, versionVars, bgVars
<1>2. SleepersWait'
  BY <1>1 DEF WakeInv, SleepersWait
<1>3. BackgroundShape' /\ ScheduledIfDue'
  BY <1>1, ForegroundStay
<1>4. ShutDown'
  BY <1>1 DEF WakeInv, ShutDown
<1> QED
  BY <1>2, <1>3, <1>4 DEF WakeInv

(* The switch of memtables schedules their compaction; an error that it or *)
(* a failed sync records wakes those who wait (RecordBackgroundError).     *)
LEMMA SwitchWakes ==
    ASSUME QueueInv, WakeInv, NEW t \in Threads, RoomSwitch(t) \/ Relock(t)
    PROVE  WakeInv'
<1>1. /\ UNCHANGED <<cvWaiting, writers_, l0, bg, shutting_down_, manual_compaction_>>
      /\ pc[t] \in Leading
      /\ pc' = pc \/ pc' = [pc EXCEPT ![t] = "pop"]
  BY DEF RoomSwitch, Relock, SwitchDue, InRoom, Leading, versionVars
<1>2. /\ \A u \in Threads \ {t} : frame'[u] = frame[u] /\ pc'[u] = pc[u]
      /\ pc'[t] \in Leading
  <2>1. \/ frame' = frame
        \/ \E f : frame' = [frame EXCEPT ![t] = f]
    BY DEF RoomSwitch, Relock
  <2> QED
    BY <1>1, <2>1 DEF QueueInv, QueueShape, Leading
<1>3. SleepersWait'
  <2>1. \A u \in cvWaiting : pc'[u] = pc[u] /\ frame'[u].done = frame[u].done
    BY <1>1, <1>2 DEF WakeInv, SleepersWait, Leading
  <2> QED
    BY <1>1, <2>1, SleepersStay
<1>4. ShutDown'
  <2>1. CASE RoomSwitch(t)
    <3>1. ~shutting_down_
      BY <1>1 DEF WakeInv, ShutDown, Leading
    <3> QED
      BY <3>1, <1>1, <1>2 DEF WakeInv, ShutDown, Leading
  <2>2. CASE Relock(t)
    <3>1. UNCHANGED scheduled
      BY <2>2 DEF Relock
    <3> QED
      BY <3>1, <1>1, <1>2 DEF WakeInv, ShutDown, Leading
  <2> QED
    BY <2>1, <2>2
<1>5. BackgroundShape' /\ ScheduledIfDue'
  <2>1. CASE RoomSwitch(t)
    <3>1. /\ imm_' = mem_ /\ ~bg_error_
          /\ bg_error_' \in BOOLEAN /\ workWaiting' \subseteq workWaiting
          /\ scheduled' = Schedules(scheduled, bg_error_', mem_, manual_compaction_, l0)
      <4>1. PICK closed \in {TRUE, ~MayFail("close")} :
              /\ bg_error_' = ~closed
              /\ workWaiting' = IF closed THEN workWaiting ELSE {}
        BY <2>1 DEF RoomSwitch
      <4> QED
        BY <2>1, <4>1 DEF RoomSwitch, SwitchDue, Refused
    <3>2. scheduled' \in BOOLEAN /\ (scheduled => scheduled')
      BY <3>1 DEF Schedules
    <3>3. ~scheduled' /\ ~shutting_down_ /\ ~bg_error_' => NothingToDo'
      BY <3>1, <1>1, SchedulesIfDue DEF NothingToDo, WakeInv, BackgroundShape
    <3> QED
      BY <3>1, <3>2, <3>3, <1>1 DEF WakeInv, BackgroundShape, ScheduledIfDue
  <2>2. CASE Relock(t)
    <3>1. /\ bg_error_' = (bg_error_ \/ frame[t].sync_error)
          /\ workWaiting' \subseteq workWaiting
          /\ UNCHANGED <<imm_, scheduled>>
      BY <2>2 DEF Relock, storeVars
    <3>2. bg_error_' \in BOOLEAN /\ (bg_error_ => bg_error_')
      BY <3>1
    <3> QED
      BY <3>1, <3>2, <1>1 DEF WakeInv, BackgroundShape, ScheduledIfDue, NothingToDo
  <2> QED
    BY <2>1, <2>2
<1> QED
  BY <1>3, <1>4, <1>5 DEF WakeInv

(* The group is woken, and so is the new front (lines 1258-1274). *)
LEMMA PopWakes ==
    ASSUME QueueInv, WakeInv, NEW t \in Threads, Pop(t)
    PROVE  WakeInv'
<1>1. /\ pc[t] = "pop" /\ pc' = [pc EXCEPT ![t] = AfterWrite(t)]
      /\ AfterWrite(t) \in {"idle", "flush"}
      /\ writers_' = LeftInQueue(t) /\ cvWaiting' = cvWaiting \ Signalled(t)
      /\ UNCHANGED <<workWaiting, l0, bg, scheduled, bg_error_, shutting_down_, imm_,
                     manual_compaction_>>
  BY DEF Pop, AfterWrite, storeVars, versionVars, bgVars
<1>2. /\ \A u \in Threads \ {t} : pc'[u] = pc[u]
      /\ pc'[t] \in {"idle", "flush"}
  BY <1>1 DEF QueueInv, QueueShape
<1>3. SleepersWait'
  <2> SUFFICES ASSUME NEW u \in cvWaiting, u \notin Signalled(t)
               PROVE  /\ u \in Threads /\ pc'[u] = "turn" /\ ~frame'[u].done
                      /\ Head(writers_') # u
    BY <1>1 DEF SleepersWait
  <2>1. u \in Threads \ {t} /\ pc[u] = "turn" /\ ~frame[u].done
    BY <1>1 DEF WakeInv, SleepersWait
  <2>2. u \notin Followers(t) /\ (writers_' # <<>> => Head(writers_') # u)
    BY <1>1 DEF Signalled
  <2>3. frame'[u] = frame[u] /\ pc'[u] = pc[u]
    BY <1>2, <2>1, <2>2 DEF Pop
  <2>4. InQueue(u)'
    BY <2>1, <2>3, PopKeeps DEF QueueInv, OneLogger
  <2>5. writers_' # <<>>
    BY <2>4 DEF InQueue
  <2> QED
    BY <2>1, <2>2, <2>3, <2>5
<1>4. BackgroundShape' /\ ScheduledIfDue'
  BY <1>1, ForegroundStay
<1>5. ShutDown'
  BY <1>1, <1>2, CallersStay
<1> QED
  BY <1>3, <1>4, <1>5 DEF WakeInv

-----------------------------------------------------------------------------
(* Flushes and manual compactions (lines 603-656): both wait for a call of *)
(* the background thread that is scheduled.                                *)
LEMMA CallWakes ==
    ASSUME QueueInv, WakeInv, NEW t \in Threads,
           FlushStep(t) \/ CompactRange(t) \/ ManualWait(t) \/ ManualReturn(t)
    PROVE  WakeInv'
<1>1. /\ pc[t] \in {"idle", "flush", "manual"}
      /\ UNCHANGED <<cvWaiting, writers_, l0, bg, bg_error_, shutting_down_, imm_>>
  BY DEF FlushStep, CompactRange, ManualWait, ManualReturn, threadVars, lockVars, storeVars,
         versionVars, bgVars
<1>2. /\ \A u \in Threads \ {t} : frame'[u] = frame[u] /\ pc'[u] = pc[u]
      /\ pc'[t] \in {"idle", "flush", "manual"}
  <2>1. \/ frame' = frame
        \/ \E f : frame' = [frame EXCEPT ![t] = f]
    BY DEF FlushStep, CompactRange, ManualWait, ManualReturn, threadVars
  <2>2. \/ pc' = pc
        \/ \E p \in {"idle", "manual"} : pc' = [pc EXCEPT ![t] = p]
    BY DEF FlushStep, CompactRange, ManualWait, ManualReturn, threadVars
  <2> QED
    BY <2>1, <2>2, <1>1 DEF QueueInv, QueueShape
<1>3. SleepersWait'
  <2>1. \A u \in cvWaiting : pc'[u] = pc[u] /\ frame'[u].done = frame[u].done
    BY <1>1, <1>2 DEF WakeInv, SleepersWait
  <2> QED
    BY <1>1, <2>1, SleepersStay
<1>4. CASE FlushStep(t)
  <2>1. /\ pc[t] = "flush" /\ UNCHANGED <<scheduled, manual_compaction_>>
        /\ \/ workWaiting' = workWaiting
           \/ workWaiting' = workWaiting \union {t} /\ imm_ # Null /\ ~bg_error_
    BY <1>4 DEF FlushStep, bgVars
  <2>2. ~shutting_down_
    BY <2>1 DEF WakeInv, ShutDown
  <2>3. imm_ # Null /\ ~bg_error_ => scheduled
    BY <2>2 DEF WakeInv, ScheduledIfDue, NothingToDo
  <2>4. BackgroundShape' /\ ScheduledIfDue'
    BY <1>1, <2>1, <2>3, ForegroundStay
  <2>5. ShutDown'
    BY <1>1, <1>2, <2>1, CallersStay
  <2> QED
    BY <1>3, <2>4, <2>5 DEF WakeInv
<1>5. CASE CompactRange(t)
  <2>1. ~shutting_down_ /\ UNCHANGED <<scheduled, manual_compaction_, workWaiting>>
    BY <1>5 DEF CompactRange, lockVars
  <2>2. BackgroundShape' /\ ScheduledIfDue'
    BY <1>1, <2>1, ForegroundStay
  <2>3. ShutDown'
    BY <1>1, <1>2, <2>1 DEF WakeInv, ShutDown
  <2> QED
    BY <1>3, <2>2, <2>3 DEF WakeInv
<1>6. CASE ManualWait(t)
  <2>1. /\ pc[t] = "manual" /\ ~shutting_down_ /\ ~bg_error_
        /\ workWaiting' = workWaiting \union {t}
    BY <1>6 DEF ManualWait
  <2>2. scheduled' /\ scheduled' \in BOOLEAN
    <3>1. CASE manual_compaction_ = NoThread
      <4>1. scheduled' = Schedules(scheduled, bg_error_, imm_, t, l0)
        BY <1>6, <3>1 DEF ManualWait
      <4> QED
        BY <4>1, <2>1, DBAssumption DEF Schedules
    <3>2. CASE manual_compaction_ # NoThread
      BY <1>6, <2>1, <3>2 DEF ManualWait, WakeInv, ScheduledIfDue, NothingToDo, BackgroundShape
    <3> QED
      BY <3>1, <3>2
  <2>3. BackgroundShape' /\ ScheduledIfDue'
    BY <1>1, <2>2 DEF WakeInv, BackgroundShape, ScheduledIfDue
  <2>4. ShutDown'
    BY <1>1, <1>2, <2>1, CallersStay
  <2> QED
    BY <1>3, <2>3, <2>4 DEF WakeInv
<1>7. CASE ManualReturn(t)
  <2>1. /\ pc[t] = "manual" /\ UNCHANGED <<scheduled, workWaiting>>
        /\ manual_compaction_' \in {manual_compaction_, NoThread}
    BY <1>7 DEF ManualReturn, Cancelled
  <2>2. BackgroundShape' /\ ScheduledIfDue'
    BY <1>1, <2>1 DEF WakeInv, BackgroundShape, ScheduledIfDue, NothingToDo
  <2>3. ShutDown'
    BY <1>1, <1>2, <2>1, CallersStay
  <2> QED
    BY <1>3, <2>2, <2>3 DEF WakeInv
<1> QED
  BY <1>4, <1>5, <1>6, <1>7

(* The destructor waits for the call that is scheduled (lines 156-183). *)
LEMMA CloseWakes ==
    ASSUME QueueInv, WakeInv, NEW t \in Threads, Close(t) \/ CloseStep(t)
    PROVE  WakeInv'
<1>1. /\ UNCHANGED <<cvWaiting, writers_, frame, l0, bg, bg_error_, imm_, scheduled,
                     manual_compaction_>>
      /\ \A u \in Threads : pc[u] \in {"idle", "closing", "closed"}
      /\ shutting_down_' = TRUE
  <2>1. CASE Close(t)
    BY <2>1 DEF Close, storeVars, versionVars
  <2>2. CASE CloseStep(t)
    BY <2>2 DEF CloseStep, storeVars, versionVars, bgVars, WakeInv, ShutDown, BackgroundShape
  <2> QED
    BY <2>1, <2>2
<1>2. /\ \A u \in Threads \ {t} : pc'[u] = pc[u]
      /\ pc'[t] \in {"closing", "closed"} /\ (pc'[t] = "closed" => ~scheduled)
      /\ \/ workWaiting' = workWaiting
         \/ workWaiting' = workWaiting \union {t} /\ scheduled
  <2>1. CASE Close(t)
    BY <2>1 DEF Close, BackgroundBusy, QueueInv, QueueShape
  <2>2. CASE CloseStep(t)
    BY <2>2 DEF CloseStep, BackgroundBusy, QueueInv, QueueShape
  <2> QED
    BY <2>1, <2>2
<1>3. SleepersWait'
  BY <1>1 DEF WakeInv, SleepersWait
<1>4. BackgroundShape' /\ ScheduledIfDue'
  BY <1>1, <1>2 DEF WakeInv, BackgroundShape, ScheduledIfDue
<1>5. ShutDown'
  BY <1>1, <1>2 DEF WakeInv, ShutDown
<1> QED
  BY <1>3, <1>4, <1>5 DEF WakeInv

-----------------------------------------------------------------------------
(* The end of a call reschedules if there is more to do, and wakes         *)
(* everybody (lines 666-704).                                              *)
LEMMA EndCallWakes ==
    ASSUME WakeInv, NEW failed \in BOOLEAN, EndCall(failed), l0' \in Int,
           UNCHANGED shutting_down_
    PROVE  BackgroundShape' /\ ScheduledIfDue'
<1>1. /\ bg' = BGIdle /\ workWaiting' = {} /\ bg_error_' = (bg_error_ \/ failed)
      /\ scheduled' = Schedules(FALSE, bg_error_', imm_', manual_compaction_', l0')
  BY DEF EndCall, Signals
<1>2. bg_error_' \in BOOLEAN
  BY <1>1
<1>3. scheduled' \in BOOLEAN
  BY <1>1 DEF Schedules
<1>4. ~scheduled' /\ ~shutting_down_ /\ ~bg_error_' => NothingToDo'
  BY <1>1, SchedulesIfDue DEF NothingToDo
<1>5. bg'.inputs = 0 /\ bg'.pc = "idle" /\ DOMAIN bg' = DOMAIN BGIdle
  BY <1>1 DEF BGIdle
<1>6. {scheduled, bg_error_, shutting_down_}' \subseteq BOOLEAN
  BY <1>2, <1>3 DEF WakeInv, BackgroundShape
<1>7. BackgroundShape'
  BY <1>5, <1>6 DEF BackgroundShape
<1>8. ScheduledIfDue'
  BY <1>1, <1>4, <1>5 DEF ScheduledIfDue
<1> QED
  BY <1>7, <1>8

(* A call of the background thread that goes on.                           *)
LEMMA GoesOnWakes ==
    ASSUME WakeInv, scheduled, UNCHANGED <<scheduled, shutting_down_>>,
           bg_error_' \in BOOLEAN, l0' \in Int, bg'.inputs \in Int, DOMAIN bg' = DOMAIN BGIdle
    PROVE  BackgroundShape' /\ ScheduledIfDue'
  BY DEF WakeInv, BackgroundShape, ScheduledIfDue

(* The background thread neither loses a reason to be called again nor     *)
(* leaves anybody asleep (lines 666-785, 896-1055).                        *)
LEMMA BackgroundWakes ==
    ASSUME QueueInv, WakeInv, BGStep
    PROVE  WakeInv'
<1>1. UNCHANGED <<pc, cvWaiting, writers_, shutting_down_>>
  BY DEF BGStep, BGNothing, BGMemTable, BGManualDone, BGCompaction, BGInnerMemTable,
         BGTableBuilt, BGTableFailed, BGApplied, BGApplyFailed, BGUnlinked, BGCompacted,
         BGCompactionFailed, BGInstalled, BGInstallFailed, BGCleaned, threadVars, bgRest
<1>2. scheduled
  BY DEF BGStep, BGNothing, BGReady, BGMemTable, BGManualDone, BGCompaction, BGInnerMemTable,
         BGTableBuilt, BGTableFailed, BGApplied, BGApplyFailed, BGUnlinked, BGCompacted,
         BGCompactionFailed, BGInstalled, BGInstallFailed, BGCleaned, WakeInv, ScheduledIfDue
<1>3. SleepersWait'
  <2>1. \/ frame' = frame
        \/ /\ manual_compaction_ # NoThread
           /\ \E f : frame' = [frame EXCEPT ![manual_compaction_] = f]
    BY DEF BGStep, BGNothing, BGMemTable, BGManualDone, BGCompaction, BGInnerMemTable,
           BGTableBuilt, BGTableFailed, BGApplied, BGApplyFailed, BGUnlinked, BGCompacted,
           BGCompactionFailed, BGInstalled, BGInstallFailed, BGCleaned, EndCompaction, threadVars
  <2>2. \A u \in cvWaiting : pc'[u] = pc[u] /\ frame'[u].done = frame[u].done
    BY <1>1, <2>1 DEF WakeInv, SleepersWait, QueueInv, QueueShape, ManualInScope
  <2> QED
    BY <1>1, <2>2, SleepersStay
<1>4. ShutDown'
  BY <1>1, <1>2 DEF WakeInv, ShutDown
<1>5. BackgroundShape' /\ ScheduledIfDue'
  <2>1. ASSUME NEW failed \in BOOLEAN, EndCompaction(failed), l0' \in Int
        PROVE  BackgroundShape' /\ ScheduledIfDue'
    <3>1. CASE EndCall(failed)
      BY <1>1, <2>1, <3>1, EndCallWakes
    <3>2. CASE ~EndCall(failed)
      <4>1. /\ bg' = [bg EXCEPT !.pc = "crashed"] /\ UNCHANGED scheduled
            /\ bg_error_' = (bg_error_ \/ failed)
        BY <2>1, <3>2 DEF EndCompaction, Signals
      <4>2. bg_error_' \in BOOLEAN
        BY <4>1
      <4>3. bg'.inputs \in Int /\ DOMAIN bg' = DOMAIN BGIdle
        BY <4>1 DEF WakeInv, BackgroundShape, BGIdle
      <4> QED
        BY <1>1, <1>2, <2>1, <4>1, <4>2, <4>3, GoesOnWakes
    <3> QED
      BY <3>1, <3>2
  <2>2. ASSUME NEW failed \in BOOLEAN, AfterMemTable(failed), UNCHANGED l0
        PROVE  BackgroundShape' /\ ScheduledIfDue'
    <3>1. CASE EndCall(failed)
      BY <1>1, <2>2, <3>1, EndCallWakes DEF WakeInv, BackgroundShape
    <3>2. CASE ~EndCall(failed)
      <4>1. /\ bg' = [bg EXCEPT !.pc = "compact", !.inner = FALSE, !.log = 0, !.doomed = {}]
            /\ UNCHANGED scheduled /\ bg_error_' = (bg_error_ \/ failed)
        BY <2>2, <3>2 DEF AfterMemTable, Signals
      <4>2. bg_error_' \in BOOLEAN
        BY <4>1
      <4>3. bg'.inputs \in Int /\ DOMAIN bg' = DOMAIN BGIdle
        BY <4>1 DEF WakeInv, BackgroundShape, BGIdle
      <4> QED
        BY <1>1, <1>2, <2>2, <4>1, <4>2, <4>3, GoesOnWakes DEF WakeInv, BackgroundShape
    <3> QED
      BY <3>1, <3>2
  <2>3. CASE BGNothing \/ BGManualDone
    <3>1. EndCall(FALSE) /\ UNCHANGED l0
      BY <2>3 DEF BGNothing, BGManualDone, versionVars
    <3> QED
      BY <1>1, <3>1, EndCallWakes DEF WakeInv, BackgroundShape
  <2>4. CASE BGMemTable \/ BGInnerMemTable \/ BGTableBuilt \/ BGCompacted
    <3>1. UNCHANGED <<scheduled, bg_error_, l0>>
      BY <2>4 DEF BGMemTable, BGInnerMemTable, BGTableBuilt, BGCompacted, versionVars
    <3>2. bg'.inputs \in Int /\ DOMAIN bg' = DOMAIN BGIdle
      <4>1. \/ bg' = [BGIdle EXCEPT !.pc = "build"]
            \/ bg' = [bg EXCEPT !.pc = "build", !.inner = TRUE]
            \/ bg' = [bg EXCEPT !.pc = "apply", !.log = logfile_number_]
            \/ bg' = [bg EXCEPT !.pc = "install"]
        BY <2>4 DEF BGMemTable, BGInnerMemTable, BGTableBuilt, BGCompacted
      <4>2. CASE bg' = [BGIdle EXCEPT !.pc = "build"]
        BY <4>2 DEF BGIdle
      <4>3. CASE bg' = [bg EXCEPT !.pc = "build", !.inner = TRUE]
        BY <4>3 DEF BGIdle, WakeInv, BackgroundShape
      <4>4. CASE bg' = [bg EXCEPT !.pc = "apply", !.log = logfile_number_]
        BY <4>4 DEF BGIdle, WakeInv, BackgroundShape
      <4>5. CASE bg' = [bg EXCEPT !.pc = "install"]
        BY <4>5 DEF BGIdle, WakeInv, BackgroundShape
      <4> QED
        BY <4>1, <4>2, <4>3, <4>4, <4>5
    <3> QED
      BY <1>1, <1>2, <3>1, <3>2, GoesOnWakes DEF WakeInv, BackgroundShape
  <2>5. CASE BGCompaction
    <3>1. UNCHANGED <<scheduled, bg_error_, l0>>
      BY <2>5 DEF BGCompaction, versionVars
    <3>2. l0 \in Int
      BY DEF WakeInv, BackgroundShape
    <3>3. \/ \E n \in 0 .. l0 :
                bg' = [BGIdle EXCEPT !.pc = "compact", !.manual = TRUE, !.inputs = n]
          \/ \E n \in 1 .. l0, p \in {"move", "compact"} :
                bg' = [BGIdle EXCEPT !.pc = p, !.inputs = n]
      BY <2>5 DEF BGCompaction
    <3>4. bg'.inputs \in Int /\ DOMAIN bg' = DOMAIN BGIdle
      <4>1. ASSUME NEW n \in 0 .. l0,
                   bg' = [BGIdle EXCEPT !.pc = "compact", !.manual = TRUE, !.inputs = n]
            PROVE  bg'.inputs \in Int /\ DOMAIN bg' = DOMAIN BGIdle
        BY <3>2, <4>1 DEF BGIdle
      <4>2. ASSUME NEW n \in 1 .. l0, NEW p, bg' = [BGIdle EXCEPT !.pc = p, !.inputs = n]
            PROVE  bg'.inputs \in Int /\ DOMAIN bg' = DOMAIN BGIdle
        BY <4>2 DEF BGIdle
      <4> QED
        BY <3>3, <4>1, <4>2
    <3> QED
      BY <1>1, <1>2, <3>1, <3>4, GoesOnWakes DEF WakeInv, BackgroundShape
  <2>6. CASE BGApplied
    <3>1. UNCHANGED <<scheduled, bg_error_>> /\ l0' \in {l0, l0 + 1}
      BY <2>6 DEF BGApplied
    <3>2. l0' \in Int
      BY <3>1 DEF WakeInv, BackgroundShape
    <3>3. bg'.inputs \in Int /\ DOMAIN bg' = DOMAIN BGIdle
      <4>1. \E doomed : bg' = [bg EXCEPT !.pc = "unlink", !.doomed = doomed]
        BY <2>6 DEF BGApplied
      <4> QED
        BY <4>1 DEF BGIdle, WakeInv, BackgroundShape
    <3> QED
      BY <1>1, <1>2, <3>1, <3>2, <3>3, GoesOnWakes DEF WakeInv, BackgroundShape
  <2>7. CASE BGTableFailed \/ BGApplyFailed \/ BGUnlinked
    BY <2>2, <2>7 DEF BGTableFailed, BGApplyFailed, BGUnlinked, versionVars
  <2>8. CASE BGCompactionFailed \/ BGInstallFailed \/ BGCleaned
    <3>1. l0' \in Int
      BY <2>8 DEF BGCompactionFailed, BGInstallFailed, BGCleaned, versionVars, WakeInv,
                  BackgroundShape
    <3> QED
      BY <2>1, <2>8, <3>1 DEF BGCompactionFailed, BGInstallFailed, BGCleaned
  <2>9. CASE BGInstalled
    <3>1. l0' \in Int
      BY <2>9 DEF BGInstalled, WakeInv, BackgroundShape
    <3>2. CASE EndCompaction(FALSE)
      BY <2>1, <3>1, <3>2
    <3>3. CASE ~EndCompaction(FALSE)
      <4>1. UNCHANGED <<scheduled, bg_error_>> /\ bg' = [bg EXCEPT !.pc = "cleanup"]
        BY <2>9, <3>3 DEF BGInstalled
      <4>2. bg'.inputs \in Int /\ DOMAIN bg' = DOMAIN BGIdle
        BY <4>1 DEF WakeInv, BackgroundShape, BGIdle
      <4> QED
        BY <1>1, <1>2, <3>1, <4>1, <4>2, GoesOnWakes DEF WakeInv, BackgroundShape
    <3> QED
      BY <3>2, <3>3
  <2> QED
    BY <2>3, <2>4, <2>5, <2>6, <2>7, <2>8, <2>9 DEF BGStep
<1> QED
  BY <1>3, <1>4, <1>5 DEF WakeInv

-----------------------------------------------------------------------------
LEMMA WakeInvariant == Spec => [](QueueInv /\ WakeInv)
<1>1. Init => WakeInv
  <2> SUFFICES ASSUME Init PROVE WakeInv
    OBVIOUS
  <2>1. /\ scheduled = FALSE /\ bg_error_ = FALSE /\ shutting_down_ = FALSE /\ l0 = 0
        /\ cvWaiting = {} /\ workWaiting = {} /\ imm_ = Null /\ manual_compaction_ = NoThread
        /\ bg = BGIdle /\ \A t \in Threads : pc[t] = "idle"
    BY DEF Init
  <2>2. {scheduled, bg_error_, shutting_down_} \subseteq BOOLEAN
    BY <2>1, Zenon
  <2>3. BackgroundShape
    BY <2>1, <2>2 DEF BackgroundShape, BGIdle
  <2>4. SleepersWait /\ ShutDown
    BY <2>1 DEF SleepersWait, ShutDown
  <2>5. ScheduledIfDue
    BY <2>1, TriggerAssumption DEF ScheduledIfDue, NothingToDo, BGIdle
  <2> QED
    BY <2>3, <2>4, <2>5 DEF WakeInv
<1>2. QueueInv /\ WakeInv /\ [Next]_vars => WakeInv'
  <2> SUFFICES ASSUME QueueInv, WakeInv, [Next]_vars PROVE WakeInv'
    OBVIOUS
  <2>1. CASE UNCHANGED vars
    BY <2>1 DEF vars, lockVars, threadVars, storeVars, versionVars, bgVars, WakeInv,
                BackgroundShape, SleepersWait, ScheduledIfDue, NothingToDo, ShutDown
  <2>2. ASSUME NEW t \in Threads, NEW r \in Requests, Write(t, r)
        PROVE  WakeInv'
    BY <2>2, WriteWakes
  <2>3. ASSUME NEW t \in Threads, CompactRange(t) \/ Close(t) \/ Step(t)
        PROVE  WakeInv'
    BY <2>3, WriterWakes, TurnWaitWakes, SwitchWakes, PopWakes, CallWakes, CloseWakes DEF Step
  <2>4. CASE BGStep
    BY <2>4, BackgroundWakes
  <2> QED
    BY <2>1, <2>2, <2>3, <2>4 DEF Next, Finished
<1> QED
  BY <1>1, <1>2, QueueInvInit, QueueInvNext, PTL DEF Spec

(* For any number of threads and any failures, no wakeup is lost: a writer *)
(* asleep on its own condition variable is neither done nor at the front,  *)
(* and who sleeps on background_work_finished_signal_ has a scheduled call *)
(* to wait for (db_impl.cc 627-704, 1212-1214, 1258-1272, 1355-1363).      *)
THEOREM NoLostWakeupAlways == Spec => []NoLostWakeup
<1>1. WakeInv => NoLostWakeup
  BY DEF WakeInv, SleepersWait, ScheduledIfDue, NoLostWakeup
<1> QED
  BY <1>1, WakeInvariant, PTL

(* When ~DBImpl has returned no background call runs or is scheduled, for  *)
(* any number of threads and any failures before (lines 156-183).          *)
THEOREM ClosedIsQuietAlways == Spec => []ClosedIsQuiet
<1>1. WakeInv => ClosedIsQuiet
  BY DEF WakeInv, ScheduledIfDue, ShutDown, ClosedIsQuiet
<1> QED
  BY <1>1, WakeInvariant, PTL

-----------------------------------------------------------------------------
(* An update is in one of the first m records. *)
Holds(records, u, m) ==
    \E i \in 1 .. m : \E k \in DOMAIN records[i] : records[i][k] = u

(* A log holds what was written to it; the current one is never obsolete.  *)
LogShape ==
    /\ logfile_number_ \in DOMAIN logs /\ DOMAIN synced = DOMAIN logs
    /\ \A n \in DOMAIN logs : /\ n \in Nat /\ n < nextLog
                              /\ logs[n] \in Seq(Record)
                              /\ synced[n] \in 0 .. Len(logs[n])
    /\ nextLog \in Nat /\ logNumber \in Nat /\ logNumber <= logfile_number_

MemShape ==
    /\ mem_ \subseteq Entry /\ lastSequence \in Nat
    /\ \A t \in Threads : pc[t] \in InWrite =>
         frame[t].record \in Record /\ frame[t].inserted \in Nat

(* The background thread works on imm_, which nobody replaces meanwhile;   *)
(* the logs it unlinks are behind LogNumber.                               *)
BgShape ==
    /\ DOMAIN bg = DOMAIN BGIdle
    /\ bg.pc \in {"build", "apply"} => imm_ # Null
    /\ bg.pc = "apply" => bg.log \in Nat /\ bg.log <= logfile_number_
    /\ bg.pc = "unlink" => \A n \in bg.doomed : n < logNumber

(* The memtable is in the current log, the immutable one in a log that     *)
(* recovery will read.                                                     *)
MemLogged ==
    \A e \in mem_ : Holds(logs[logfile_number_], e.update, Len(logs[logfile_number_]))

ImmLogged ==
    imm_ # Null => \A e \in imm_ : \E n \in DOMAIN logs :
        n >= logNumber /\ Holds(logs[n], e.update, Len(logs[n]))

(* What a leader that writes has done so far: its record is in the current *)
(* log, in the synced part if it asked for that, and its first updates are *)
(* in the memtable; it has the updates of the group and no others, and is  *)
(* synced if a member asked for that.                                      *)
Fresh   == {"turn", "room", "group"}
Putting == {"log", "sync", "insert"}

Writing(t) == pc[t] \in Committed /\ frame[t].status = "ok" /\ Batch(t).updates # 0

LoggedTo(t) == IF Batch(t).sync /\ pc[t] # "sync"
               THEN synced[logfile_number_] ELSE Len(logs[logfile_number_])

Progress(t) ==
    /\ pc[t] \in Putting => frame[t].inserted < Len(frame[t].record)
    /\ pc[t] \notin Putting => frame[t].inserted = Len(frame[t].record)
    /\ \A k \in 1 .. frame[t].inserted : \E e \in mem_ : e.update = frame[t].record[k]
    /\ pc[t] # "log" => \A k \in DOMAIN frame[t].record :
                          Holds(logs[logfile_number_], frame[t].record[k], LoggedTo(t))

InGroup(t, i) ==
    i \in DOMAIN writers_ /\ \E j \in DOMAIN writers_ : i <= j /\ writers_[j] = frame[t].last_writer

GroupHeld(t) ==
    /\ \A i \in DOMAIN writers_ : InGroup(t, i) =>
         /\ Batch(writers_[i]).sync => Batch(t).sync
         /\ \A u \in Updates(frame[writers_[i]].call) :
              \E k \in DOMAIN frame[t].record : frame[t].record[k] = u
    /\ \A k \in DOMAIN frame[t].record : \E i \in DOMAIN writers_ :
         InGroup(t, i) /\ frame[t].record[k] \in Updates(frame[writers_[i]].call)

GroupOf(t) ==
    /\ pc[t] \in Fresh => frame[t].inserted = 0
    /\ pc[t] \in Putting \/ (pc[t] = "relock" /\ frame[t].status = "ok") => Writing(t)
    /\ Writing(t) => Progress(t) /\ GroupHeld(t)
    /\ pc[t] = "pop" /\ frame[t].status = "ok" /\ ~Writing(t) => frame[t].last_writer = t

GroupWritten == \A t \in Threads : GroupOf(t)

(* An update that a reader finds, and that a crash leaves: in a table, or  *)
(* in the synced part of a log that stays until its memtable is one.       *)
Stored(u) == \E e \in Store : e.update = u

Durable(u) ==
    \/ InTables(u)
    \/ \E n \in DOMAIN logs :
         /\ n >= logNumber /\ Holds(logs[n], u, synced[n])
         /\ n = logfile_number_ \/ (imm_ # Null /\ \E e \in imm_ : e.update = u)

Kept(c) == \A u \in Updates(c) : Stored(u) /\ (hist[c].sync => Durable(u))

AckedKept == \A c \in DOMAIN hist : hist[c].result = "ok" => Kept(c)

DoneKept == \A t \in Threads :
    pc[t] = "turn" /\ frame[t].done /\ frame[t].status = "ok" => Kept(frame[t].call)

StorageInv == LogShape /\ MemShape /\ BgShape /\ MemLogged /\ ImmLogged

DurabilityInv == StorageInv /\ GroupWritten /\ AckedKept /\ DoneKept

(* A null pointer is no memtable. *)
NullIsNoMemtable == Null \notin SUBSET Entry

-----------------------------------------------------------------------------
(* What a step leaves alone *)

ClientStep(t) ==
    (\E r \in Requests : Write(t, r)) \/ CompactRange(t) \/ Close(t) \/ Step(t)

(* A step of t changes no other thread but the followers of its group,     *)
(* which it tells that they are done.                                      *)
LEMMA Elsewhere ==
    ASSUME QueueInv, NEW t \in Threads, ClientStep(t), NEW u \in Threads \ {t}
    PROVE  /\ pc'[u] = pc[u]
           /\ frame'[u].call = frame[u].call /\ frame'[u].record = frame[u].record
           /\ frame'[u].inserted = frame[u].inserted
           /\ frame'[u].last_writer = frame[u].last_writer
           /\ frame'[u] = frame[u] \/ (Pop(t) /\ u \in Followers(t))
<1>1. pc'[u] = pc[u]
  <2>1. pc' = pc \/ \E p : pc' = [pc EXCEPT ![t] = p]
    BY DEF ClientStep, Write, CompactRange, Close, Step, TurnDone, TurnWait, TurnLead, RoomError,
           RoomDelay, RoomFits, RoomWait, RoomNoLog, RoomSwitch, LeaveRoom, BuildGroup, NoGroup,
           AddRecord, AddRecordFails, Sync, SyncFails, InsertUpdate, Relock, Pop, FlushStep,
           ManualWait, ManualReturn, CloseStep, threadVars
  <2> QED
    BY <2>1 DEF QueueInv, QueueShape
<1>2. CASE Pop(t)
  <2>1. frame'[u] = IF u \in Followers(t)
                    THEN [frame[u] EXCEPT !.status = FollowerStatus(t), !.done = TRUE]
                    ELSE frame[u]
    BY <1>2 DEF Pop
  <2> QED
    BY <1>1, <1>2, <2>1 DEF QueueInv, QueueShape, Idle
<1>3. CASE ~Pop(t)
  <2>1. frame'[u] = frame[u]
    <3>1. CASE \E r \in Requests : Write(t, r)
      BY <3>1 DEF Write, QueueInv, QueueShape
    <3>2. CASE CompactRange(t)
      BY <3>2 DEF CompactRange, QueueInv, QueueShape
    <3>3. CASE BuildGroup(t)
      BY <3>3 DEF BuildGroup, QueueInv, QueueShape
    <3>4. CASE Close(t) \/ TurnDone(t) \/ TurnWait(t) \/ TurnLead(t) \/ RoomError(t)
               \/ RoomDelay(t) \/ RoomFits(t) \/ RoomWait(t) \/ RoomNoLog(t) \/ RoomSwitch(t)
      BY <3>4 DEF Close, TurnDone, TurnWait, TurnLead, RoomError, RoomDelay, RoomFits, RoomWait,
                  RoomNoLog, RoomSwitch, LeaveRoom, threadVars, QueueInv, QueueShape
    <3>5. CASE NoGroup(t) \/ AddRecord(t) \/ AddRecordFails(t) \/ Sync(t) \/ SyncFails(t)
               \/ InsertUpdate(t) \/ Relock(t)
      BY <3>5 DEF NoGroup, AddRecord, AddRecordFails, Sync, SyncFails, InsertUpdate, Relock,
                  QueueInv, QueueShape
    <3>6. CASE FlushStep(t) \/ ManualWait(t) \/ ManualReturn(t) \/ CloseStep(t)
      BY <3>6 DEF FlushStep, ManualWait, ManualReturn, CloseStep, threadVars, QueueInv, QueueShape
    <3> QED
      BY <1>3, <3>1, <3>2, <3>3, <3>4, <3>5, <3>6 DEF ClientStep, Step
  <2> QED
    BY <1>1, <2>1
<1> QED
  BY <1>2, <1>3

(* The background thread and a pause change no writer. *)
LEMMA BackgroundElsewhere ==
    ASSUME QueueInv, BGStep \/ UNCHANGED vars
    PROVE  /\ UNCHANGED <<pc, hist, writers_>>
           /\ \A u \in Threads : pc[u] \in InWrite => frame'[u] = frame[u]
<1>1. UNCHANGED <<pc, hist, writers_>>
  BY DEF BGStep, BGNothing, BGReady, BGMemTable, BGManualDone, BGCompaction, BGInnerMemTable,
         BGTableBuilt, BGTableFailed, BGApplied, BGApplyFailed, BGUnlinked, BGCompacted,
         BGCompactionFailed, BGInstalled, BGInstallFailed, BGCleaned, vars, threadVars
<1>2. \A u \in Threads : pc[u] \in InWrite => frame'[u] = frame[u]
  <2>1. \/ frame' = frame
        \/ /\ manual_compaction_ # NoThread
           /\ \E f : frame' = [frame EXCEPT ![manual_compaction_] = f]
    BY DEF BGStep, BGNothing, BGMemTable, BGManualDone, BGCompaction, BGInnerMemTable,
           BGTableBuilt, BGTableFailed, BGApplied, BGApplyFailed, BGUnlinked, BGCompacted,
           BGCompactionFailed, BGInstalled, BGInstallFailed, BGCleaned, EndCompaction, threadVars,
           vars
  <2> QED
    BY <2>1 DEF QueueInv, QueueShape, ManualInScope, InWrite, Leading
<1> QED
  BY <1>1, <1>2

(* The steps that change a log, a memtable or the tables are few. *)
StorageQuiet == UNCHANGED <<storeVars, logNumber, tables>>

LEMMA StorageKinds ==
    ASSUME NEW t \in Threads, ClientStep(t)
    PROVE  \/ StorageQuiet
           \/ RoomSwitch(t) \/ AddRecord(t) \/ AddRecordFails(t) \/ Sync(t) \/ InsertUpdate(t)
  BY DEF ClientStep, Write, CompactRange, Close, Step, TurnDone, TurnWait, TurnLead, RoomError,
         RoomDelay, RoomFits, RoomWait, RoomNoLog, LeaveRoom, BuildGroup, NoGroup, SyncFails,
         Relock, Pop, FlushStep, ManualWait, ManualReturn, CloseStep, StorageQuiet, versionVars

LEMMA BackgroundKinds ==
    ASSUME BGStep \/ UNCHANGED vars
    PROVE  StorageQuiet \/ BGApplied \/ BGUnlinked
  BY DEF BGStep, BGNothing, BGMemTable, BGManualDone, BGCompaction, BGInnerMemTable,
         BGTableBuilt, BGTableFailed, BGApplyFailed, BGCompacted, BGCompactionFailed,
         BGInstalled, BGInstallFailed, BGCleaned, StorageQuiet, versionVars, vars

LEMMA StepKinds ==
    ASSUME [Next]_vars
    PROVE  (BGStep \/ UNCHANGED vars) \/ \E t \in Threads : ClientStep(t)
  BY DEF Next, ClientStep, Finished

-----------------------------------------------------------------------------
(* Records and logs *)

LEMMA InLogHolds ==
    ASSUME NEW n, NEW u, NEW m
    PROVE  InLog(n, u, m) <=> Holds(logs[n], u, m)
  BY DEF InLog, Holds

LEMMA HoldsGrows ==
    ASSUME NEW old, NEW new, NEW l \in Nat, NEW m \in Nat, l <= m,
           \A i \in 1 .. l : new[i] = old[i], NEW u, Holds(old, u, l)
    PROVE  Holds(new, u, m)
<1>1. PICK i \in 1 .. l : \E k \in DOMAIN old[i] : old[i][k] = u
  BY DEF Holds
<1>2. i \in 1 .. m /\ new[i] = old[i]
  OBVIOUS
<1> QED
  BY <1>1, <1>2 DEF Holds

(* A record of a call's updates holds one update per k. *)
LEMMA UpdatesAreRecord ==
    ASSUME CallShape, NEW c \in DOMAIN hist
    PROVE  /\ UpdatesOf(c) \in Record
           /\ \A u \in Updates(c) : \E k \in DOMAIN UpdatesOf(c) : UpdatesOf(c)[k] = u
           /\ \A k \in DOMAIN UpdatesOf(c) : UpdatesOf(c)[k] \in Updates(c)
<1>1. c \in Nat /\ hist[c].updates \in Nat
  <2>1. hist \in Seq(Call)
    BY DEF CallShape
  <2>2. hist[c] \in Call /\ c \in Nat
    BY <2>1
  <2> QED
    BY <2>2 DEF Call
<1>2. \A k \in 1 .. hist[c].updates : [call |-> c, k |-> k] \in Update
  BY <1>1 DEF Update
<1>3. UpdatesOf(c) \in [1 .. hist[c].updates -> Update]
  BY <1>2 DEF UpdatesOf
<1>4. UpdatesOf(c) \in Record
  BY <1>1, <1>3 DEF Record
<1> QED
  BY <1>3, <1>4 DEF Updates

(* The record of a group holds the updates of each of its calls. *)
LEMMA GroupRecordHolds ==
    ASSUME CallShape, writers_ \in Seq(Threads), NEW n \in DOMAIN writers_,
           \A i \in 1 .. n : frame[writers_[i]].call \in DOMAIN hist
    PROVE  /\ GroupRecord(n) \in Record
           /\ \A i \in 1 .. n : \A u \in Updates(frame[writers_[i]].call) :
                \E k \in DOMAIN GroupRecord(n) : GroupRecord(n)[k] = u
           /\ \A k \in DOMAIN GroupRecord(n) : \E i \in 1 .. n :
                GroupRecord(n)[k] \in Updates(frame[writers_[i]].call)
<1> DEFINE g == [i \in 1 .. n |-> UpdatesOf(frame[writers_[i]].call)]
           rec(f) == [i \in 0 .. n |->
                        IF i = 0 THEN <<>> ELSE f[i - 1] \o UpdatesOf(frame[writers_[i]].call)]
           upTo == CHOOSE f : f = rec(f)
<1>1. n \in Nat
  OBVIOUS
<1>2. GroupRecord(n) = upTo[n]
  BY DEF GroupRecord
<1>3. ASSUME NEW f PROVE rec(f) = [i \in 0 .. n |-> IF i = 0 THEN <<>> ELSE f[i - 1] \o g[i]]
  <2>1. \A i \in 0 .. n : i # 0 => g[i] = UpdatesOf(frame[writers_[i]].call)
    BY <1>1
  <2> HIDE DEF g
  <2> QED
    BY <2>1
<1>4. \A i \in 1 .. n : g[i] \in Seq(Update) /\ g[i] = UpdatesOf(frame[writers_[i]].call)
  BY UpdatesAreRecord DEF Record
<1> HIDE DEF g
<1>5. PICK h : IsConcat(h, n, g)
  BY <1>1, ConcatExists
<1>6. h = rec(h)
  BY <1>3, <1>5 DEF IsConcat
<1> HIDE DEF rec
<1>7. upTo = rec(upTo)
  BY <1>6
<1> HIDE DEF upTo
<1>8. IsConcat(upTo, n, g)
  BY <1>3, <1>7 DEF IsConcat
<1>9. upTo[n] \in Seq(Update) /\ HasFirst(upTo[n], n, g)
  <2>1. n \in 0 .. n
    BY <1>1
  <2>2. g \in [1 .. n -> Seq(Update)]
    BY <1>4 DEF g
  <2> QED
    BY <1>1, <1>8, <2>1, <2>2, ConcatHolds, Zenon
<1>10. ASSUME NEW i \in 1 .. n, NEW u \in Updates(frame[writers_[i]].call)
       PROVE  \E k \in DOMAIN GroupRecord(n) : GroupRecord(n)[k] = u
  <2>1. PICK k \in DOMAIN g[i] : g[i][k] = u
    BY <1>4, UpdatesAreRecord
  <2> QED
    BY <1>2, <1>9, <2>1 DEF HasFirst
<1>11. ASSUME NEW k \in DOMAIN GroupRecord(n)
       PROVE  \E i \in 1 .. n : GroupRecord(n)[k] \in Updates(frame[writers_[i]].call)
  <2>1. PICK i \in 1 .. n : \E l \in DOMAIN g[i] : GroupRecord(n)[k] = g[i][l]
    BY <1>2, <1>9 DEF HasFirst
  <2> QED
    BY <1>4, <2>1, UpdatesAreRecord
<1> QED
  BY <1>2, <1>9, <1>10, <1>11 DEF Record

(* What a step keeps of the logs that recovery still reads. *)
LogsKept ==
    \A n \in DOMAIN logs : n >= logNumber' =>
        /\ n \in DOMAIN logs'
        /\ \A u : Holds(logs[n], u, Len(logs[n])) => Holds(logs'[n], u, Len(logs'[n]))
        /\ \A u : Holds(logs[n], u, synced[n]) => Holds(logs'[n], u, synced'[n])

LEMMA LogsGrow ==
    ASSUME LogShape, LogShape',
           \A n \in DOMAIN logs : n >= logNumber' =>
              /\ n \in DOMAIN logs'
              /\ Len(logs[n]) <= Len(logs'[n]) /\ synced[n] <= synced'[n]
              /\ \A i \in 1 .. Len(logs[n]) : logs'[n][i] = logs[n][i]
    PROVE  LogsKept
<1> SUFFICES ASSUME NEW n \in DOMAIN logs, n >= logNumber', NEW u
             PROVE  /\ n \in DOMAIN logs'
                    /\ Holds(logs[n], u, Len(logs[n])) => Holds(logs'[n], u, Len(logs'[n]))
                    /\ Holds(logs[n], u, synced[n]) => Holds(logs'[n], u, synced'[n])
  BY DEF LogsKept
<1>1. /\ logs[n] \in Seq(Record) /\ synced[n] \in 0 .. Len(logs[n])
      /\ logs'[n] \in Seq(Record) /\ synced'[n] \in 0 .. Len(logs'[n])
      /\ \A i \in 1 .. Len(logs[n]) : logs'[n][i] = logs[n][i]
  BY DEF LogShape
<1>2. Len(logs[n]) \in Nat /\ Len(logs'[n]) \in Nat
  BY <1>1
<1>3. synced[n] \in Nat /\ synced'[n] \in Nat /\ \A i \in 1 .. synced[n] : i \in 1 .. Len(logs[n])
  BY <1>1, <1>2
<1> QED
  BY <1>1, <1>2, <1>3, HoldsGrows

(* log_->AddRecord puts the record behind the others.                      *)
Appended(r) == logs' = [logs EXCEPT ![logfile_number_] = Append(@, r)]

LEMMA AppendedLog ==
    ASSUME LogShape, NEW r \in Record, Appended(r),
           UNCHANGED <<synced, logfile_number_, nextLog, logNumber>>
    PROVE  /\ LogShape' /\ LogsKept
           /\ \A k \in DOMAIN r :
                Holds(logs'[logfile_number_], r[k], Len(logs'[logfile_number_]))
<1> DEFINE n == logfile_number_
<1>1. logs[n] \in Seq(Record) /\ synced[n] \in 0 .. Len(logs[n]) /\ Len(logs[n]) \in Nat
  BY DEF LogShape
<1>2. /\ logs'[n] = Append(logs[n], r) /\ DOMAIN logs' = DOMAIN logs
      /\ \A m \in DOMAIN logs \ {n} : logs'[m] = logs[m]
  BY DEF LogShape, Appended
<1>3. /\ logs'[n] \in Seq(Record) /\ Len(logs'[n]) = Len(logs[n]) + 1
      /\ \A i \in 1 .. Len(logs[n]) : logs'[n][i] = logs[n][i]
      /\ logs'[n][Len(logs[n]) + 1] = r
  BY <1>1, <1>2, AppendProperties
<1>4. LogShape'
  BY <1>1, <1>2, <1>3, SMTT(40) DEF LogShape
<1>5. LogsKept
  <2>1. \A m \in DOMAIN logs : /\ m \in DOMAIN logs'
                               /\ Len(logs[m]) <= Len(logs'[m]) /\ synced[m] <= synced'[m]
                               /\ \A i \in 1 .. Len(logs[m]) : logs'[m][i] = logs[m][i]
    <3> SUFFICES ASSUME NEW m \in DOMAIN logs
                 PROVE  /\ m \in DOMAIN logs'
                        /\ Len(logs[m]) <= Len(logs'[m]) /\ synced[m] <= synced'[m]
                        /\ \A i \in 1 .. Len(logs[m]) : logs'[m][i] = logs[m][i]
      OBVIOUS
    <3>1. Len(logs[m]) \in Nat /\ synced[m] \in Nat
      <4>1. logs[m] \in Seq(Record) /\ synced[m] \in 0 .. Len(logs[m])
        BY DEF LogShape
      <4> QED
        BY <4>1
    <3>2. CASE m = n
      BY <1>1, <1>2, <1>3, <3>1, <3>2
    <3>3. CASE m # n
      <4>1. logs'[m] = logs[m] /\ m \in DOMAIN logs'
        BY <1>2, <3>3
      <4> QED
        BY <3>1, <4>1
    <3> QED
      BY <3>2, <3>3
  <2> QED
    BY <1>4, <2>1, LogsGrow
<1>6. Len(logs[n]) + 1 \in 1 .. Len(logs'[n])
  BY <1>1, <1>3
<1> QED
  BY <1>3, <1>4, <1>5, <1>6 DEF Holds

-----------------------------------------------------------------------------
(* Every step keeps the log behind the memtables, and what was stored or   *)
(* durable stays so                                                        *)

Carries == \A u : /\ Stored(u) => Stored(u)'
                  /\ Stored(u) /\ Durable(u) => Durable(u)'

StorageSafe == LogShape' /\ MemLogged' /\ ImmLogged' /\ Carries /\ LogsKept

(* Steps that leave the memtables and their log what they are, but for new *)
(* entries.                                                                *)
LEMMA StorageGrows ==
    ASSUME StorageInv, LogShape', LogsKept, mem_ \subseteq mem_',
           UNCHANGED <<imm_, logfile_number_, logNumber, tables>>
    PROVE  /\ ImmLogged' /\ Carries
           /\ \A e \in mem_ : Holds(logs'[logfile_number_], e.update, Len(logs'[logfile_number_]))
<1>1. logfile_number_ \in DOMAIN logs /\ logfile_number_ >= logNumber'
  BY DEF StorageInv, LogShape
<1>2. ImmLogged'
  <2> SUFFICES ASSUME imm_ # Null, NEW e \in imm_
               PROVE  \E n \in DOMAIN logs' :
                        n >= logNumber /\ Holds(logs'[n], e.update, Len(logs'[n]))
    BY DEF ImmLogged
  <2>1. PICK n \in DOMAIN logs : n >= logNumber /\ Holds(logs[n], e.update, Len(logs[n]))
    BY DEF StorageInv, ImmLogged
  <2> QED
    BY <2>1 DEF LogsKept
<1>3. \A e \in mem_ : Holds(logs'[logfile_number_], e.update, Len(logs'[logfile_number_]))
  BY <1>1 DEF StorageInv, MemLogged, LogsKept
<1>4. ASSUME NEW u, Stored(u) PROVE Stored(u)'
  <2>1. PICK e \in Store : e.update = u
    BY <1>4 DEF Stored
  <2>2. e \in Store'
    BY DEF Store, InMemory
  <2> QED
    BY <2>1, <2>2 DEF Stored
<1>5. ASSUME NEW u, Durable(u) PROVE Durable(u)'
  <2>1. CASE InTables(u)
    BY <2>1 DEF InTables, Durable
  <2>2. CASE \E n \in DOMAIN logs :
               /\ n >= logNumber /\ Holds(logs[n], u, synced[n])
               /\ n = logfile_number_ \/ (imm_ # Null /\ \E e \in imm_ : e.update = u)
    <3>1. PICK n \in DOMAIN logs :
            /\ n >= logNumber /\ Holds(logs[n], u, synced[n])
            /\ n = logfile_number_ \/ (imm_ # Null /\ \E e \in imm_ : e.update = u)
      BY <2>2
    <3>2. n \in DOMAIN logs' /\ Holds(logs'[n], u, synced'[n])
      BY <3>1 DEF LogsKept
    <3> QED
      BY <3>1, <3>2 DEF Durable
  <2> QED
    BY <1>5, <2>1, <2>2 DEF Durable
<1> QED
  BY <1>2, <1>3, <1>4, <1>5 DEF Carries

LEMMA QuietStorage ==
    ASSUME StorageInv, StorageQuiet
    PROVE  StorageSafe
<1>1. LogShape' /\ UNCHANGED <<mem_, imm_, logfile_number_, logNumber, tables, logs, synced>>
  BY DEF StorageInv, LogShape, StorageQuiet, storeVars
<1>2. LogsKept
  BY <1>1 DEF LogsKept
<1> QED
  BY <1>1, <1>2, StorageGrows DEF StorageSafe, MemLogged

(* The record goes to the log (line 1234). *)
LEMMA AddRecordStorage ==
    ASSUME QueueInv, StorageInv, NEW t \in Threads, AddRecord(t) \/ AddRecordFails(t)
    PROVE  /\ StorageSafe
           /\ AddRecord(t) => \A k \in DOMAIN frame[t].record :
                Holds(logs'[logfile_number_], frame[t].record[k], Len(logs'[logfile_number_]))
<1> DEFINE r == frame[t].record
<1>1. r \in Record
  BY DEF AddRecord, AddRecordFails, StorageInv, MemShape, InWrite, Leading
<1>2. UNCHANGED <<mem_, imm_, synced, logfile_number_, nextLog, logNumber, tables>>
  BY DEF AddRecord, AddRecordFails, versionVars
<1>3. CASE Appended(r)
  <2>1. /\ LogShape' /\ LogsKept
        /\ \A k \in DOMAIN r :
             Holds(logs'[logfile_number_], r[k], Len(logs'[logfile_number_]))
    BY <1>1, <1>2, <1>3, AppendedLog DEF StorageInv
  <2> QED
    BY <1>2, <2>1, StorageGrows DEF StorageSafe, MemLogged
<1>4. CASE ~Appended(r)
  <2>1. logs' = logs /\ ~AddRecord(t)
    BY <1>4 DEF AddRecord, AddRecordFails, Appended
  <2>2. StorageQuiet
    BY <1>2, <2>1 DEF StorageQuiet, storeVars
  <2> QED
    BY <2>1, <2>2, QuietStorage
<1> QED
  BY <1>3, <1>4

(* The log is synced (line 1237). *)
LEMMA SyncStorage ==
    ASSUME StorageInv, NEW t \in Threads, Sync(t)
    PROVE  /\ StorageSafe /\ logs' = logs
           /\ synced'[logfile_number_] = Len(logs[logfile_number_])
<1> DEFINE n == logfile_number_
<1>1. /\ UNCHANGED <<mem_, imm_, logs, logfile_number_, nextLog, logNumber, tables>>
      /\ synced' = [synced EXCEPT ![n] = Len(logs[n])]
  BY DEF Sync, versionVars
<1>2. LogShape
  BY DEF StorageInv
<1>3. \A m \in DOMAIN logs : Len(logs[m]) \in Nat /\ synced[m] \in Nat /\ synced[m] <= Len(logs[m])
  <2> SUFFICES ASSUME NEW m \in DOMAIN logs
               PROVE  Len(logs[m]) \in Nat /\ synced[m] \in Nat /\ synced[m] <= Len(logs[m])
    OBVIOUS
  <2>1. logs[m] \in Seq(Record) /\ synced[m] \in 0 .. Len(logs[m])
    BY <1>2 DEF LogShape
  <2> QED
    BY <2>1
<1>4. /\ DOMAIN synced' = DOMAIN logs /\ n \in DOMAIN logs
      /\ \A m \in DOMAIN logs : synced'[m] = IF m = n THEN Len(logs[n]) ELSE synced[m]
  BY <1>1, <1>2 DEF LogShape
<1>5. LogShape'
  BY <1>1, <1>2, <1>3, <1>4 DEF LogShape
<1>6. LogsKept
  BY <1>1, <1>2, <1>3, <1>4, <1>5, LogsGrow
<1> QED
  BY <1>1, <1>4, <1>5, <1>6, StorageGrows DEF StorageSafe, MemLogged

(* An update of the record, which is in the log by now, enters the         *)
(* memtable (line 1243).                                                   *)
LEMMA InsertStorage ==
    ASSUME StorageInv, GroupWritten, NEW t \in Threads, InsertUpdate(t)
    PROVE  /\ StorageSafe /\ mem_' \subseteq Entry /\ mem_ \subseteq mem_'
           /\ UNCHANGED <<logs, synced>>
           /\ \E e \in mem_' : e.update = frame[t].record[frame[t].inserted + 1]
           /\ frame[t].inserted + 1 \in DOMAIN frame[t].record
<1> DEFINE r == frame[t].record
           i == frame[t].inserted + 1
           new == [seq |-> lastSequence + i, update |-> r[i]]
<1>1. /\ pc[t] = "insert" /\ mem_' = mem_ \union {new}
      /\ UNCHANGED <<imm_, logs, synced, logfile_number_, nextLog, logNumber, tables>>
  BY DEF InsertUpdate, versionVars
<1>2. r \in Seq(Update) /\ frame[t].inserted \in Nat /\ lastSequence \in Nat
  BY <1>1 DEF StorageInv, MemShape, InWrite, Leading, Record
<1>3. Writing(t) /\ Progress(t)
  BY <1>1 DEF GroupWritten, GroupOf, Putting
<1>4. i \in DOMAIN r /\ i \in Nat /\ r[i] \in Update
  <2>1. frame[t].inserted < Len(r) /\ DOMAIN r = 1 .. Len(r) /\ Len(r) \in Nat
    BY <1>1, <1>2, <1>3 DEF Progress, Putting
  <2> QED
    BY <1>2, <2>1
<1>5. new \in Entry /\ new.update = r[i]
  BY <1>2, <1>4 DEF Entry
<1>6. Holds(logs[logfile_number_], r[i], Len(logs[logfile_number_]))
  <2>1. Holds(logs[logfile_number_], r[i], LoggedTo(t))
    BY <1>1, <1>3, <1>4 DEF Progress
  <2>2. logs[logfile_number_] \in Seq(Record)
        /\ synced[logfile_number_] \in 0 .. Len(logs[logfile_number_])
    BY DEF StorageInv, LogShape
  <2>3. /\ LoggedTo(t) \in Nat /\ Len(logs[logfile_number_]) \in Nat
        /\ LoggedTo(t) <= Len(logs[logfile_number_])
    BY <2>2 DEF LoggedTo
  <2>4. \A k \in 1 .. LoggedTo(t) : k \in 1 .. Len(logs[logfile_number_])
    BY <2>3
  <2> QED
    BY <2>1, <2>4 DEF Holds
<1> HIDE DEF new
<1>7. LogShape' /\ LogsKept
  BY <1>1 DEF StorageInv, LogShape, LogsKept
<1>8. MemLogged'
  BY <1>1, <1>5, <1>6, <1>7, StorageGrows DEF MemLogged
<1> QED
  BY <1>1, <1>4, <1>5, <1>7, <1>8, StorageGrows DEF StorageSafe, StorageInv, MemShape

(* The memtable becomes the immutable one and a log is begun for the next  *)
(* (lines 1367-1397).  What was durable in the old log is in the memtable  *)
(* that goes with it.                                                      *)
LEMMA SwitchStorage ==
    ASSUME NullIsNoMemtable, StorageInv, NEW t \in Threads, RoomSwitch(t)
    PROVE  StorageSafe /\ mem_' = {} /\ imm_' # Null /\ imm_ = Null
<1> DEFINE n == logfile_number_
<1>1. /\ imm_ = Null /\ imm_' = mem_ /\ mem_' = {} /\ UNCHANGED <<logNumber, tables>>
      /\ nextLog' = nextLog + 1 /\ logfile_number_' = nextLog
      /\ logs' = [m \in DOMAIN logs \union {nextLog} |-> IF m = nextLog THEN <<>> ELSE logs[m]]
      /\ synced' = [m \in DOMAIN synced \union {nextLog} |-> IF m = nextLog THEN 0 ELSE synced[m]]
  BY DEF RoomSwitch, SwitchDue, versionVars
<1>2. LogShape /\ mem_ # Null
  BY DEF NullIsNoMemtable, StorageInv, MemShape
<1>3. /\ nextLog \notin DOMAIN logs /\ DOMAIN logs' = DOMAIN logs \union {nextLog}
      /\ DOMAIN synced' = DOMAIN logs' /\ logs'[nextLog] = <<>> /\ synced'[nextLog] = 0
      /\ \A m \in DOMAIN logs : logs'[m] = logs[m] /\ synced'[m] = synced[m]
  <2>1. nextLog \notin DOMAIN logs /\ DOMAIN synced = DOMAIN logs
    BY <1>2 DEF LogShape
  <2> QED
    BY <1>1, <2>1
<1>4. LogShape'
  <2>1. <<>> \in Seq(Record) /\ Len(<<>>) = 0 /\ 0 \in 0 .. Len(<<>>)
    OBVIOUS
  <2>2. logNumber <= nextLog
    BY <1>2 DEF LogShape
  <2>3. \A m \in DOMAIN logs' : /\ m \in Nat /\ m < nextLog'
                                /\ logs'[m] \in Seq(Record)
                                /\ synced'[m] \in 0 .. Len(logs'[m])
    BY <1>1, <1>2, <1>3, <2>1 DEF LogShape
  <2> QED
    BY <1>1, <1>2, <1>3, <2>2, <2>3 DEF LogShape
<1>5. LogsKept
  BY <1>3 DEF LogsKept
<1>6. n \in DOMAIN logs' /\ n >= logNumber' /\ logs'[n] = logs[n] /\ n \in Nat
  BY <1>1, <1>2, <1>3 DEF LogShape
<1>7. MemLogged' /\ ImmLogged'
  BY <1>1, <1>6 DEF MemLogged, ImmLogged, StorageInv
<1>8. Store' = Store
  BY <1>1, <1>2 DEF Store, InMemory
<1>9. ASSUME NEW u, Stored(u) PROVE Stored(u)'
  BY <1>8, <1>9 DEF Stored
<1>10. ASSUME NEW u, Stored(u), Durable(u) PROVE Durable(u)'
  <2>1. CASE InTables(u)
    BY <1>1, <2>1 DEF InTables, Durable
  <2>2. CASE ~InTables(u)
    <3>1. \E e \in imm_' : e.update = u
      BY <1>1, <1>10, <2>2 DEF Stored, Store, InMemory, InTables
    <3>2. Holds(logs[n], u, synced[n])
      BY <1>1, <1>10, <2>2 DEF Durable
    <3>3. n \in DOMAIN logs' /\ n >= logNumber' /\ Holds(logs'[n], u, synced'[n]) /\ imm_' # Null
      BY <1>1, <1>2, <1>3, <1>6, <3>2 DEF LogShape
    <3> QED
      BY <3>1, <3>3 DEF Durable
  <2> QED
    BY <2>1, <2>2
<1> QED
  BY <1>1, <1>2, <1>4, <1>5, <1>7, <1>9, <1>10 DEF StorageSafe, Carries

(* The immutable memtable is a table now; its log may go (lines 568-583).  *)
LEMMA AppliedStorage ==
    ASSUME StorageInv, BGApplied
    PROVE  StorageSafe /\ mem_' = mem_
<1>1. /\ bg.pc = "apply" /\ imm_ # Null /\ imm_' = Null /\ tables' = tables \union imm_
      /\ logNumber' = bg.log /\ bg.log \in Nat /\ bg.log <= logfile_number_
      /\ UNCHANGED <<mem_, logs, synced, logfile_number_, nextLog>>
  BY DEF BGApplied, StorageInv, BgShape
<1>2. LogShape' /\ LogsKept
  BY <1>1 DEF StorageInv, LogShape, LogsKept
<1>3. MemLogged' /\ ImmLogged'
  BY <1>1 DEF StorageInv, MemLogged, ImmLogged
<1>4. Store' = Store
  BY <1>1 DEF Store, InMemory
<1>5. ASSUME NEW u, Stored(u) PROVE Stored(u)'
  BY <1>4, <1>5 DEF Stored
<1>6. ASSUME NEW u, Durable(u) PROVE Durable(u)'
  <2>1. CASE InTables(u) \/ \E e \in imm_ : e.update = u
    BY <1>1, <2>1 DEF InTables, Durable
  <2>2. CASE ~(InTables(u) \/ \E e \in imm_ : e.update = u)
    <3>1. Holds(logs[logfile_number_], u, synced[logfile_number_])
      BY <1>6, <2>2 DEF Durable
    <3>2. logfile_number_ \in DOMAIN logs /\ logfile_number_ >= logNumber'
      BY <1>1 DEF StorageInv, LogShape
    <3> QED
      BY <1>1, <3>1, <3>2 DEF Durable
  <2> QED
    BY <2>1, <2>2
<1> QED
  BY <1>1, <1>2, <1>3, <1>5, <1>6 DEF StorageSafe, Carries

(* Obsolete logs are gone (lines 229-294). *)
LEMMA UnlinkedStorage ==
    ASSUME StorageInv, BGUnlinked
    PROVE  StorageSafe /\ mem_' = mem_
<1>1. /\ bg.pc = "unlink" /\ UNCHANGED <<mem_, imm_, logfile_number_, nextLog, logNumber, tables>>
      /\ logs' = [n \in DOMAIN logs \ bg.doomed |-> logs[n]]
      /\ synced' = [n \in DOMAIN synced \ bg.doomed |-> synced[n]]
  BY DEF BGUnlinked, versionVars
<1>2. LogShape /\ \A n \in bg.doomed : n < logNumber
  BY <1>1 DEF StorageInv, BgShape
<1>3. /\ DOMAIN logs' = DOMAIN logs \ bg.doomed /\ DOMAIN synced' = DOMAIN logs'
      /\ \A n \in DOMAIN logs' : n \in DOMAIN logs /\ logs'[n] = logs[n] /\ synced'[n] = synced[n]
  BY <1>1, <1>2 DEF LogShape
<1>4. \A n \in DOMAIN logs : n >= logNumber => n \in DOMAIN logs'
  <2>1. \A n \in DOMAIN logs : n >= logNumber => ~(n < logNumber)
    BY <1>2 DEF LogShape
  <2> QED
    BY <1>2, <1>3, <2>1
<1>5. LogShape'
  <2>1. logfile_number_ \in DOMAIN logs'
    BY <1>2, <1>4 DEF LogShape
  <2> QED
    BY <1>1, <1>2, <1>3, <2>1 DEF LogShape
<1>6. LogsKept
  BY <1>1, <1>3, <1>4 DEF LogsKept
<1> QED
  BY <1>1, <1>5, <1>6, StorageGrows DEF StorageSafe, MemLogged

-----------------------------------------------------------------------------
(* What a leader has done for its group *)

(* The calls keep what was asked of them; a result is noted by the thread  *)
(* that returns.                                                           *)
HistKept ==
    \A c \in DOMAIN hist : /\ c \in DOMAIN hist'
                           /\ hist'[c].updates = hist[c].updates
                           /\ hist'[c].sync = hist[c].sync

Returns(t) == (TurnDone(t) \/ Pop(t)) /\ frame[t].status = "ok"

LEMMA HistGrows ==
    ASSUME QueueInv, StatusInv, NEW t \in Threads, ClientStep(t)
    PROVE  /\ HistKept
           /\ \A c \in DOMAIN hist' : hist'[c].result = "ok" =>
                /\ c \in DOMAIN hist
                /\ hist[c].result = "ok" \/ (Returns(t) /\ c = frame[t].call)
<1>1. /\ hist \in Seq(Call)
      /\ \A c \in DOMAIN hist :
           DOMAIN hist[c] = {"op", "updates", "sync", "afterError", "result"}
  <2>1. hist \in Seq(Call)
    BY DEF StatusInv, CallShape
  <2>2. \A c \in DOMAIN hist : hist[c] \in Call
    BY <2>1
  <2> QED
    BY <2>1, <2>2 DEF Call
<1>2. CASE \E r \in Requests : Write(t, r)
  <2>1. PICK r \in Requests : Write(t, r)
    BY <1>2
  <2> DEFINE new == [op |-> r.op, updates |-> r.updates, sync |-> r.sync,
                     afterError |-> bg_error_, result |-> "pending"]
  <2>2. hist' = Append(hist, new) /\ new.result = "pending"
    BY <2>1 DEF Write
  <2> HIDE DEF new
  <2>3. /\ \A c \in DOMAIN hist : c \in DOMAIN hist' /\ hist'[c] = hist[c]
        /\ \A c \in DOMAIN hist' : c \in DOMAIN hist \/ hist'[c] = new
    BY <1>1, <2>2
  <2> QED
    BY <2>2, <2>3 DEF HistKept
<1>3. CASE TurnDone(t) \/ Pop(t)
  <2>1. hist' = [hist EXCEPT ![frame[t].call].result = frame[t].status]
    BY <1>3 DEF TurnDone, Pop
  <2>2. /\ DOMAIN hist' = DOMAIN hist
        /\ \A c \in DOMAIN hist :
             /\ hist'[c].updates = hist[c].updates /\ hist'[c].sync = hist[c].sync
             /\ hist'[c].result = IF c = frame[t].call THEN frame[t].status ELSE hist[c].result
    BY <1>1, <2>1
  <2> QED
    BY <1>3, <2>2 DEF HistKept, Returns
<1>4. CASE ~(\E r \in Requests : Write(t, r)) /\ ~TurnDone(t) /\ ~Pop(t)
  <2>1. hist' = hist
    BY <1>4 DEF ClientStep, CompactRange, Close, Step, TurnWait, TurnLead, RoomError,
         RoomDelay, RoomFits, RoomWait, RoomNoLog, RoomSwitch, LeaveRoom, BuildGroup, NoGroup,
         AddRecord, AddRecordFails, Sync, SyncFails, InsertUpdate, Relock, FlushStep,
         ManualWait, ManualReturn, CloseStep, threadVars
  <2> QED
    BY <2>1 DEF HistKept
<1> QED
  BY <1>2, <1>3, <1>4

LEMMA SameUpdates ==
    ASSUME HistKept, NEW c \in DOMAIN hist
    PROVE  Updates(c)' = Updates(c)
  BY DEF HistKept, Updates, UpdatesOf

(* A thread whose group is not formed. *)
LEMMA NoGroupYet ==
    ASSUME NEW u \in Threads, pc'[u] \notin Committed,
           pc'[u] \in Fresh => frame'[u].inserted = 0
    PROVE  GroupOf(u)'
  BY DEF GroupOf, Writing, Committed, Fresh, Putting

(* A leader that did not move, while others enter the queue and the        *)
(* background thread works.                                                *)
SameFrame(u) ==
    /\ frame'[u].call = frame[u].call /\ frame'[u].status = frame[u].status
    /\ frame'[u].record = frame[u].record /\ frame'[u].inserted = frame[u].inserted
    /\ frame'[u].last_writer = frame[u].last_writer

LEMMA GroupHeldStays ==
    ASSUME QueueInv, StatusInv, HistKept, NEW u \in Threads, pc[u] \in Committed, GroupHeld(u),
           \/ writers_' = writers_
           \/ \E t \in Threads : ~InQueue(t) /\ writers_' = Append(writers_, t),
           frame'[u].record = frame[u].record, frame'[u].last_writer = frame[u].last_writer,
           \A v \in Threads : InQueue(v) => frame'[v].call = frame[v].call
    PROVE  GroupHeld(u)'
<1>1. /\ writers_ \in Seq(Threads) /\ pc[u] \in InWrite /\ InQueue(u)
      /\ InQueue(frame[u].last_writer)
  BY DEF QueueInv, QueueShape, OneLogger, GroupInQueue, InWrite, Committed, Leading
<1>2. /\ \A i \in DOMAIN writers_ : i \in DOMAIN writers_' /\ writers_'[i] = writers_[i]
      /\ \A j \in DOMAIN writers_' : writers_'[j] = frame[u].last_writer => j \in DOMAIN writers_
      /\ DOMAIN writers_ = 1 .. Len(writers_) /\ Len(writers_) \in Nat
      /\ DOMAIN writers_' = 1 .. Len(writers_')
  <2>1. CASE writers_' = writers_
    BY <1>1, <2>1
  <2>2. ASSUME NEW t \in Threads, ~InQueue(t), writers_' = Append(writers_, t)
        PROVE  /\ \A i \in DOMAIN writers_ : i \in DOMAIN writers_' /\ writers_'[i] = writers_[i]
               /\ \A j \in DOMAIN writers_' :
                    writers_'[j] = frame[u].last_writer => j \in DOMAIN writers_
               /\ DOMAIN writers_ = 1 .. Len(writers_) /\ Len(writers_) \in Nat
               /\ DOMAIN writers_' = 1 .. Len(writers_')
    <3>1. frame[u].last_writer # t
      BY <1>1, <2>2
    <3> QED
      BY <1>1, <2>2, <3>1
  <2> QED
    BY <2>1, <2>2
<1>3. ASSUME NEW i \in DOMAIN writers_', InGroup(u, i)'
      PROVE  i \in DOMAIN writers_ /\ InGroup(u, i)
  <2>1. PICK j \in DOMAIN writers_' : i <= j /\ writers_'[j] = frame[u].last_writer
    BY <1>3 DEF InGroup
  <2>2. j \in DOMAIN writers_
    BY <1>2, <2>1
  <2>3. i \in 1 .. Len(writers_') /\ j \in 1 .. Len(writers_) /\ Len(writers_) \in Nat
    BY <1>2, <2>2
  <2>4. i \in Int /\ j \in Int /\ 1 <= i /\ i <= j /\ j <= Len(writers_)
    BY <2>1, <2>3
  <2>5. i \in 1 .. Len(writers_)
    BY <2>3, <2>4
  <2>6. i \in DOMAIN writers_
    BY <1>2, <2>5
  <2> QED
    BY <1>2, <2>1, <2>2, <2>6 DEF InGroup
<1>4. \A i \in DOMAIN writers_ : InGroup(u, i) => InGroup(u, i)'
  BY <1>2 DEF InGroup
<1>5. \A i \in DOMAIN writers_ : /\ writers_[i] \in Threads /\ InQueue(writers_[i])
                               /\ frame[writers_[i]].call \in DOMAIN hist
  BY <1>1 DEF InQueue, QueueInv, OneLogger, InWrite, StatusInv, CallShape
<1>6. frame[u].call \in DOMAIN hist /\ frame'[u].call = frame[u].call
  BY <1>1 DEF StatusInv, CallShape
<1>7. ASSUME NEW i \in DOMAIN writers_
      PROVE  /\ Batch(writers_[i])'.sync = Batch(writers_[i]).sync
             /\ Updates(frame[writers_[i]].call)' = Updates(frame[writers_[i]].call)
  <2>1. frame'[writers_'[i]].call = frame[writers_[i]].call
    BY <1>2, <1>5
  <2> QED
    BY <1>5, <2>1 DEF HistKept, Batch, Updates, UpdatesOf
<1>8. Batch(u)'.sync = Batch(u).sync
  BY <1>6 DEF HistKept, Batch
<1>9. ASSUME NEW i \in DOMAIN writers_', InGroup(u, i)'
      PROVE  /\ Batch(writers_[i])'.sync => Batch(u)'.sync
             /\ \A w \in Updates(frame[writers_[i]].call)' :
                  \E k \in DOMAIN frame[u].record : frame[u].record[k] = w
  <2>1. i \in DOMAIN writers_ /\ InGroup(u, i)
    BY <1>3, <1>9
  <2> QED
    BY <1>7, <1>8, <2>1 DEF GroupHeld
<1>10. ASSUME NEW k \in DOMAIN frame[u].record
       PROVE  \E i \in DOMAIN writers_' :
                InGroup(u, i)' /\ frame[u].record[k] \in Updates(frame[writers_[i]].call)'
  <2>1. PICK i \in DOMAIN writers_ :
          InGroup(u, i) /\ frame[u].record[k] \in Updates(frame[writers_[i]].call)
    BY DEF GroupHeld
  <2> QED
    BY <1>2, <1>4, <1>7, <2>1
<1> QED
  BY <1>9, <1>10 DEF GroupHeld

LEMMA GroupStays ==
    ASSUME QueueInv, StatusInv, StorageInv, LogsKept, logNumber' <= logfile_number_,
           mem_ \subseteq mem_', logfile_number_' = logfile_number_,
           HistKept, NEW u \in Threads, GroupOf(u), pc'[u] = pc[u], pc[u] \in InWrite, SameFrame(u),
           \/ writers_' = writers_
           \/ \E t \in Threads : ~InQueue(t) /\ writers_' = Append(writers_, t),
           \A v \in Threads : InQueue(v) => frame'[v].call = frame[v].call
    PROVE  GroupOf(u)'
<1>1. /\ frame[u].call \in DOMAIN hist
      /\ Batch(u)'.updates = Batch(u).updates /\ Batch(u)'.sync = Batch(u).sync
  BY DEF StatusInv, CallShape, SameFrame, HistKept, Batch
<1>2. Writing(u)' <=> Writing(u)
  BY <1>1 DEF Writing, SameFrame
<1>3. CASE Writing(u)
  <2>1. Progress(u)'
    <3>1. ASSUME pc[u] # "log", NEW k \in DOMAIN frame[u].record
          PROVE  Holds(logs'[logfile_number_], frame[u].record[k], LoggedTo(u)')
      <4>1. Holds(logs[logfile_number_], frame[u].record[k], LoggedTo(u))
        BY <1>3, <3>1 DEF GroupOf, Progress
      <4>2. logfile_number_ \in DOMAIN logs /\ logfile_number_ >= logNumber'
        BY DEF StorageInv, LogShape
      <4> QED
        BY <1>1, <4>1, <4>2 DEF LogsKept, LoggedTo
    <3> QED
      BY <1>3, <3>1 DEF GroupOf, Progress, SameFrame
  <2>2. GroupHeld(u)'
    BY <1>3, GroupHeldStays DEF GroupOf, Writing, SameFrame
  <2> QED
    BY <1>2, <1>3, <2>1, <2>2 DEF GroupOf, Writing, SameFrame, Committed, Fresh
<1>4. CASE ~Writing(u)
  BY <1>2, <1>4 DEF GroupOf, SameFrame
<1> QED
  BY <1>3, <1>4

(* A leader forms its group: the record holds the updates of its members,  *)
(* and it syncs if one of them asked (lines 1221-1233, BuildBatchGroup).   *)
LEMMA GroupFormed ==
    ASSUME QueueInv, StatusInv, StorageInv, NEW t \in Threads, GroupOf(t), BuildGroup(t)
    PROVE  GroupOf(t)' /\ frame'[t].record \in Record /\ frame'[t].inserted \in Nat
<1>1. PICK n \in GroupSizes(t) :
        frame' = [frame EXCEPT ![t].last_writer = writers_[n], ![t].record = GroupRecord(n)]
  BY DEF BuildGroup
<1>2. /\ pc[t] = "group" /\ pc'[t] = "log" /\ UNCHANGED <<writers_, hist>>
      /\ frame[t].status = "ok" /\ Batch(t).updates # 0
  BY DEF BuildGroup, QueueInv, QueueShape
<1>3. /\ frame'[t].last_writer = writers_[n] /\ frame'[t].record = GroupRecord(n)
      /\ frame'[t].status = "ok" /\ frame'[t].inserted = 0
      /\ \A v \in Threads : frame'[v].call = frame[v].call
  <2>1. frame[t].inserted = 0
    BY <1>2 DEF GroupOf, Fresh
  <2>2. DOMAIN frame = Threads /\ \A v \in Threads : DOMAIN frame[v] = DOMAIN Idle
    BY DEF QueueInv, QueueShape
  <2> QED
    BY <1>1, <1>2, <2>1, <2>2 DEF Idle
<1>4. /\ writers_ \in Seq(Threads) /\ n \in DOMAIN writers_ /\ n \in Nat /\ 1 \in 1 .. n
      /\ DOMAIN writers_ = 1 .. Len(writers_) /\ writers_[1] = t
      /\ \A i \in 2 .. n : ~NotSyncedBy(t, i)
  <2>1. writers_ \in Seq(Threads) /\ writers_ # <<>> /\ Head(writers_) = t
    BY <1>2 DEF QueueInv, QueueShape, OneLogger, Leading
  <2>2. n \in DOMAIN writers_ /\ \A i \in 2 .. n : ~NotSyncedBy(t, i)
    BY DEF GroupSizes
  <2> QED
    BY <2>1, <2>2
<1>5. \A i \in 1 .. n : /\ writers_[i] \in Threads
                        /\ frame[writers_[i]].call \in DOMAIN hist
  <2> SUFFICES ASSUME NEW i \in 1 .. n
               PROVE  writers_[i] \in Threads /\ frame[writers_[i]].call \in DOMAIN hist
    OBVIOUS
  <2>1. i \in DOMAIN writers_ /\ writers_[i] \in Threads /\ InQueue(writers_[i])
    BY <1>4 DEF InQueue
  <2>2. pc[writers_[i]] \in InWrite
    BY <2>1 DEF QueueInv, OneLogger, InWrite
  <2> QED
    BY <2>1, <2>2 DEF StatusInv, CallShape
<1>6. /\ GroupRecord(n) \in Record
      /\ \A i \in 1 .. n : \A u \in Updates(frame[writers_[i]].call) :
           \E k \in DOMAIN GroupRecord(n) : GroupRecord(n)[k] = u
      /\ \A k \in DOMAIN GroupRecord(n) : \E i \in 1 .. n :
           GroupRecord(n)[k] \in Updates(frame[writers_[i]].call)
  BY <1>4, <1>5, GroupRecordHolds DEF StatusInv
<1>7. Len(GroupRecord(n)) \in Nat /\ 0 < Len(GroupRecord(n))
  <2>1. GroupRecord(n) \in Seq(Update)
    BY <1>6 DEF Record
  <2>2. [call |-> frame[t].call, k |-> 1] \in Updates(frame[t].call)
    <3>1. frame[t].call \in DOMAIN hist /\ hist \in Seq(Call)
      BY <1>4, <1>5 DEF StatusInv, CallShape
    <3>2. hist[frame[t].call] \in Call
      BY <3>1
    <3>3. hist[frame[t].call].updates \in Nat /\ hist[frame[t].call].updates # 0
      BY <1>2, <3>2 DEF Batch, Call
    <3>4. 1 \in 1 .. hist[frame[t].call].updates
      BY <3>3
    <3> QED
      BY <3>4 DEF Updates, UpdatesOf
  <2>3. \E k \in DOMAIN GroupRecord(n) : TRUE
    BY <1>4, <1>6, <2>2
  <2> QED
    BY <2>1, <2>3
<1>8. Batch(t)'.updates = Batch(t).updates /\ Batch(t)'.sync = Batch(t).sync
  BY <1>2, <1>3 DEF Batch
<1>9. Progress(t)'
  BY <1>2, <1>3, <1>7 DEF Progress, Putting
<1>10. GroupHeld(t)'
  <2>1. \A i \in DOMAIN writers_ : InGroup(t, i)' <=> i \in 1 .. n
    BY <1>2, <1>3, <1>4 DEF InGroup, QueueInv, OneLogger
  <2>2. ASSUME NEW i \in 1 .. n
        PROVE  /\ i \in DOMAIN writers_
               /\ Batch(writers_[i])'.sync = Batch(writers_[i]).sync
               /\ Updates(frame[writers_[i]].call)' = Updates(frame[writers_[i]].call)
    BY <1>2, <1>3, <1>4, <1>5, SMTT(40) DEF Batch, Updates, UpdatesOf
  <2>3. ASSUME NEW i \in 1 .. n
        PROVE  Batch(writers_[i]).sync => Batch(t).sync
    <3>1. CASE i = 1
      BY <1>4, <3>1
    <3>2. CASE i # 1
      BY <1>4, <3>2 DEF NotSyncedBy
    <3> QED
      BY <3>1, <3>2
  <2>4. ASSUME NEW i \in DOMAIN writers_, InGroup(t, i)'
        PROVE  /\ Batch(writers_[i])'.sync => Batch(t)'.sync
               /\ \A u \in Updates(frame[writers_[i]].call)' :
                    \E k \in DOMAIN GroupRecord(n) : GroupRecord(n)[k] = u
    BY <1>6, <1>8, <2>1, <2>2, <2>3, <2>4
  <2>5. ASSUME NEW k \in DOMAIN GroupRecord(n)
        PROVE  \E i \in DOMAIN writers_ :
                 InGroup(t, i)' /\ GroupRecord(n)[k] \in Updates(frame[writers_[i]].call)'
    BY <1>6, <2>1, <2>2
  <2> QED
    BY <1>2, <1>3, <2>4, <2>5 DEF GroupHeld
<1> QED
  BY <1>2, <1>3, <1>6, <1>8, <1>9, <1>10 DEF GroupOf, Writing, Committed, Fresh

(* A leader with an error or without updates is its own group.             *)
LEMMA NoGroupFormed ==
    ASSUME QueueInv, NEW t \in Threads, NoGroup(t)
    PROVE  GroupOf(t)'
<1>1. /\ pc'[t] = "pop" /\ frame'[t].last_writer = t
      /\ frame'[t].status = frame[t].status /\ frame'[t].call = frame[t].call
      /\ frame[t].status # "ok" \/ Batch(t).updates = 0
      /\ UNCHANGED hist
  BY DEF NoGroup, QueueInv, QueueShape, Idle
<1>2. Batch(t)' = Batch(t)
  BY <1>1 DEF Batch
<1> QED
  BY <1>1, <1>2 DEF GroupOf, Writing, Fresh, Putting

(* The steps with the record (lines 1234-1256). *)
LEMMA CommitGroup ==
    ASSUME QueueInv, StatusInv, StorageInv, GroupWritten, NEW t \in Threads,
           \/ AddRecord(t) \/ AddRecordFails(t) \/ Sync(t) \/ SyncFails(t)
           \/ InsertUpdate(t) \/ Relock(t)
    PROVE  /\ GroupOf(t)'
           /\ frame'[t].record = frame[t].record /\ frame'[t].inserted \in Nat
<1> DEFINE r == frame[t].record
           n == logfile_number_
<1>1. /\ pc[t] \in {"log", "sync", "insert", "relock"} /\ pc[t] \in Committed /\ GroupOf(t)
      /\ UNCHANGED <<hist, writers_, logfile_number_>>
  BY DEF GroupWritten, AddRecord, AddRecordFails, Sync, SyncFails, InsertUpdate, Relock, Committed,
         storeVars
<1>2. r \in Seq(Update) /\ frame[t].inserted \in Nat /\ Len(r) \in Nat /\ DOMAIN r = 1 .. Len(r)
  <2>1. r \in Seq(Update) /\ frame[t].inserted \in Nat
    BY <1>1 DEF StorageInv, MemShape, InWrite, Leading, Record
  <2> QED
    BY <2>1
<1>3. \A v \in Threads : /\ frame'[v].call = frame[v].call /\ frame'[v].record = frame[v].record
                         /\ frame'[v].last_writer = frame[v].last_writer
  <2>1. \/ frame' = frame
        \/ frame' = [frame EXCEPT ![t].status = "error"]
        \/ frame' = [frame EXCEPT ![t].status = "error", ![t].sync_error = TRUE]
        \/ frame' = [frame EXCEPT ![t].inserted = frame[t].inserted + 1]
    BY DEF AddRecord, AddRecordFails, Sync, SyncFails, InsertUpdate, Relock
  <2> QED
    BY <2>1 DEF QueueInv, QueueShape, Idle
<1>4. Batch(t)' = Batch(t) /\ HistKept
  BY <1>1, <1>3 DEF Batch, HistKept
<1>5. GroupHeld(t) => GroupHeld(t)'
  BY <1>1, <1>3, <1>4, GroupHeldStays
<1>6. CASE AddRecordFails(t) \/ SyncFails(t)
  <2>1. /\ pc'[t] = "relock" /\ frame'[t].status = "error"
        /\ frame'[t].inserted = frame[t].inserted
    BY <1>6 DEF AddRecordFails, SyncFails, QueueInv, QueueShape, Idle
  <2> QED
    BY <1>2, <1>3, <2>1 DEF GroupOf, Writing, Fresh, Putting
<1>7. CASE AddRecord(t)
  <2>1. /\ pc[t] = "log" /\ pc'[t] = IF Batch(t).sync THEN "sync" ELSE "insert"
        /\ UNCHANGED <<frame, mem_>>
    BY <1>7 DEF AddRecord, QueueInv, QueueShape
  <2>2. Writing(t) /\ Progress(t) /\ GroupHeld(t)
    BY <1>1, <2>1 DEF GroupOf, Putting
  <2>3. \A k \in DOMAIN r : Holds(logs'[n], r[k], Len(logs'[n]))
    BY <1>7, AddRecordStorage
  <2>4. LoggedTo(t)' = Len(logs'[n])
    BY <1>1, <1>4, <2>1 DEF LoggedTo
  <2>5. Progress(t)'
    BY <1>1, <2>1, <2>2, <2>3, <2>4 DEF Progress, Putting
  <2> QED
    BY <1>2, <1>4, <1>5, <2>1, <2>2, <2>5 DEF GroupOf, Writing, Committed, Fresh, Putting
<1>8. CASE Sync(t)
  <2>1. /\ pc[t] = "sync" /\ pc'[t] = "insert" /\ UNCHANGED <<frame, mem_>>
    BY <1>8 DEF Sync, QueueInv, QueueShape
  <2>2. Writing(t) /\ Progress(t) /\ GroupHeld(t)
    BY <1>1, <2>1 DEF GroupOf, Putting
  <2>3. logs' = logs /\ synced'[n] = Len(logs[n])
    BY <1>8, SyncStorage
  <2>4. LoggedTo(t)' = LoggedTo(t)
    BY <1>1, <1>4, <2>1, <2>3 DEF LoggedTo
  <2>5. Progress(t)'
    BY <1>1, <2>1, <2>2, <2>3, <2>4 DEF Progress, Putting
  <2> QED
    BY <1>2, <1>4, <1>5, <2>1, <2>2, <2>5 DEF GroupOf, Writing, Committed, Fresh, Putting
<1>9. CASE InsertUpdate(t)
  <2> DEFINE i == frame[t].inserted + 1
  <2>1. /\ pc[t] = "insert" /\ pc'[t] = IF i = Len(r) THEN "relock" ELSE "insert"
        /\ frame'[t].inserted = i /\ frame'[t].status = frame[t].status
    BY <1>9 DEF InsertUpdate, QueueInv, QueueShape, Idle
  <2>2. Writing(t) /\ Progress(t) /\ GroupHeld(t)
    BY <1>1, <2>1 DEF GroupOf, Putting
  <2>3. /\ mem_ \subseteq mem_' /\ UNCHANGED <<logs, synced>> /\ i \in DOMAIN r
        /\ \E e \in mem_' : e.update = r[i]
    BY <1>9, InsertStorage
  <2>4. LoggedTo(t)' = LoggedTo(t)
    BY <1>1, <1>4, <2>1, <2>3 DEF LoggedTo
  <2>5. \A k \in 1 .. i : \E e \in mem_' : e.update = r[k]
    <3>1. \A k \in 1 .. frame[t].inserted : \E e \in mem_' : e.update = r[k]
      BY <2>2, <2>3 DEF Progress
    <3> QED
      BY <1>2, <2>3, <3>1
  <2>6. /\ pc'[t] \in Putting => i < Len(r)
        /\ pc'[t] \notin Putting => i = Len(r)
    BY <1>2, <2>1, <2>3 DEF Putting
  <2>7. Progress(t)'
    BY <1>1, <1>3, <2>1, <2>2, <2>3, <2>4, <2>5, <2>6 DEF Progress
  <2>8. Writing(t)'
    BY <1>4, <2>1, <2>2 DEF Writing, Committed
  <2> QED
    BY <1>2, <1>3, <1>5, <2>1, <2>2, <2>7, <2>8 DEF GroupOf, Fresh
<1>10. CASE Relock(t)
  <2>1. /\ pc[t] = "relock" /\ pc'[t] = "pop" /\ UNCHANGED <<frame, mem_, logs, synced>>
    BY <1>10 DEF Relock, QueueInv, QueueShape, storeVars
  <2>2. LoggedTo(t)' = LoggedTo(t)
    BY <1>1, <1>4, <2>1 DEF LoggedTo
  <2>3. Progress(t) => Progress(t)'
    BY <1>1, <2>1, <2>2 DEF Progress, Putting
  <2>4. Writing(t)' <=> Writing(t)
    BY <1>4, <2>1 DEF Writing, Committed
  <2>5. /\ Writing(t) => Progress(t) /\ GroupHeld(t)
        /\ frame[t].status = "ok" => Writing(t)
        /\ ~(pc'[t] \in Putting) /\ ~(pc'[t] \in Fresh)
    BY <1>1, <2>1 DEF GroupOf, Putting, Fresh
  <2> QED
    BY <1>2, <1>5, <2>1, <2>3, <2>4, <2>5 DEF GroupOf
<1> QED
  BY <1>6, <1>7, <1>8, <1>9, <1>10

-----------------------------------------------------------------------------
(* The parts of the invariant, step by step *)

LEMMA ClientStorage ==
    ASSUME NullIsNoMemtable, QueueInv, StorageInv, GroupWritten, NEW t \in Threads, ClientStep(t)
    PROVE  /\ StorageSafe /\ mem_' \subseteq Entry
           /\ ~RoomSwitch(t) => mem_ \subseteq mem_' /\ logfile_number_' = logfile_number_
<1>1. CASE StorageQuiet
  <2>1. UNCHANGED <<mem_, logfile_number_>>
    BY <1>1 DEF StorageQuiet, storeVars
  <2> QED
    BY <1>1, <2>1, QuietStorage DEF StorageInv, MemShape
<1>2. CASE RoomSwitch(t)
  BY <1>2, SwitchStorage
<1>3. CASE AddRecord(t) \/ AddRecordFails(t)
  <2>1. UNCHANGED <<mem_, logfile_number_>>
    BY <1>3 DEF AddRecord, AddRecordFails
  <2> QED
    BY <1>3, <2>1, AddRecordStorage DEF StorageInv, MemShape
<1>4. CASE Sync(t)
  <2>1. UNCHANGED <<mem_, logfile_number_>>
    BY <1>4 DEF Sync
  <2> QED
    BY <1>4, <2>1, SyncStorage DEF StorageInv, MemShape
<1>5. CASE InsertUpdate(t)
  <2>1. UNCHANGED logfile_number_
    BY <1>5 DEF InsertUpdate
  <2> QED
    BY <1>5, <2>1, InsertStorage
<1> QED
  BY <1>1, <1>2, <1>3, <1>4, <1>5, StorageKinds

LEMMA BackgroundStorage ==
    ASSUME StorageInv, BGStep \/ UNCHANGED vars
    PROVE  StorageSafe /\ UNCHANGED <<mem_, logfile_number_>>
<1>1. CASE StorageQuiet
  BY <1>1, QuietStorage DEF StorageQuiet, storeVars
<1>2. CASE BGApplied
  BY <1>2, AppliedStorage DEF BGApplied
<1>3. CASE BGUnlinked
  BY <1>3, UnlinkedStorage DEF BGUnlinked
<1> QED
  BY <1>1, <1>2, <1>3, BackgroundKinds

(* The steps of a leader before and after it has a record. *)
Commits(t) == \/ AddRecord(t) \/ AddRecordFails(t) \/ Sync(t) \/ SyncFails(t)
              \/ InsertUpdate(t) \/ Relock(t)

LEMMA OtherSteps ==
    ASSUME QueueInv, StorageInv, GroupWritten, NEW t \in Threads, ClientStep(t),
           ~BuildGroup(t), ~NoGroup(t), ~Commits(t)
    PROVE  /\ pc'[t] \notin Committed
           /\ pc'[t] \in InWrite => frame'[t].record \in Record /\ frame'[t].inserted = 0
<1>1. CASE \E r \in Requests : Write(t, r)
  <2>1. pc'[t] = "turn" /\ frame'[t].record = <<>> /\ frame'[t].inserted = 0
    BY <1>1 DEF Write, QueueInv, QueueShape, Idle
  <2>2. <<>> \in Record
    BY DEF Record
  <2> QED
    BY <2>1, <2>2 DEF Committed
<1>2. CASE CompactRange(t) \/ Close(t) \/ FlushStep(t) \/ ManualWait(t) \/ ManualReturn(t)
           \/ CloseStep(t)
  <2>1. pc[t] \in Outside
    BY <1>2 DEF CompactRange, Close, FlushStep, ManualWait, ManualReturn, CloseStep, Outside
  <2>2. pc'[t] \in Outside
    BY <1>2, <2>1 DEF CompactRange, Close, FlushStep, ManualWait, ManualReturn, CloseStep,
                      Outside, QueueInv, QueueShape, threadVars
  <2> QED
    BY <2>2 DEF Outside, Committed, InWrite, Leading
<1>3. CASE TurnDone(t) \/ Pop(t)
  <2>1. pc'[t] \in {"idle", "flush"}
    BY <1>3 DEF TurnDone, Pop, AfterWrite, QueueInv, QueueShape
  <2> QED
    BY <2>1 DEF Committed, InWrite, Leading
<1>4. CASE TurnWait(t) \/ TurnLead(t) \/ RoomError(t) \/ RoomDelay(t) \/ RoomFits(t)
           \/ RoomWait(t) \/ RoomNoLog(t) \/ RoomSwitch(t)
  <2>1. pc[t] \in {"turn", "room"} /\ pc'[t] \in Fresh
    BY <1>4 DEF TurnWait, TurnLead, RoomError, RoomDelay, RoomFits, RoomWait, RoomNoLog,
                RoomSwitch, SwitchDue, InRoom, LeaveRoom, Fresh, QueueInv, QueueShape, threadVars
  <2>2. frame'[t].record = frame[t].record /\ frame'[t].inserted = frame[t].inserted
    <3>1. \/ frame' = frame
          \/ \E a, b : frame' = [frame EXCEPT ![t].force = a, ![t].allow_delay = b]
          \/ \E a : frame' = [frame EXCEPT ![t].force = a]
          \/ \E a : frame' = [frame EXCEPT ![t].allow_delay = a]
          \/ \E a : frame' = [frame EXCEPT ![t].status = a]
      BY <1>4 DEF TurnWait, TurnLead, RoomError, RoomDelay, RoomFits, RoomWait, RoomNoLog,
                  RoomSwitch, LeaveRoom, threadVars
    <3> QED
      BY <3>1 DEF QueueInv, QueueShape, Idle
  <2>3. frame[t].record \in Record /\ frame[t].inserted = 0
    BY <2>1 DEF StorageInv, MemShape, GroupWritten, GroupOf, Fresh, InWrite, Leading
  <2> QED
    BY <2>1, <2>2, <2>3 DEF Fresh, Committed
<1> QED
  BY <1>1, <1>2, <1>3, <1>4 DEF ClientStep, Step, Commits

LEMMA ClientMemShape ==
    ASSUME NullIsNoMemtable, QueueInv, StatusInv, StorageInv, GroupWritten,
           NEW t \in Threads, ClientStep(t)
    PROVE  MemShape'
<1>1. \A u \in Threads \ {t} : pc'[u] \in InWrite =>
        frame'[u].record \in Record /\ frame'[u].inserted \in Nat
  BY Elsewhere DEF StorageInv, MemShape
<1>2. pc'[t] \in InWrite => frame'[t].record \in Record /\ frame'[t].inserted \in Nat
  <2>1. CASE BuildGroup(t)
    BY <2>1, GroupFormed DEF GroupWritten
  <2>2. CASE NoGroup(t)
    <3>1. pc[t] \in InWrite /\ frame'[t].record = frame[t].record
          /\ frame'[t].inserted = frame[t].inserted
      BY <2>2 DEF NoGroup, InWrite, Leading, QueueInv, QueueShape, Idle
    <3> QED
      BY <3>1 DEF StorageInv, MemShape
  <2>3. CASE Commits(t)
    <3>1. frame'[t].record = frame[t].record /\ frame'[t].inserted \in Nat
      BY <2>3, CommitGroup DEF Commits
    <3>2. pc[t] \in InWrite
      BY <2>3 DEF Commits, AddRecord, AddRecordFails, Sync, SyncFails, InsertUpdate, Relock,
                  InWrite, Leading
    <3> QED
      BY <3>1, <3>2 DEF StorageInv, MemShape
  <2> QED
    BY <2>1, <2>2, <2>3, OtherSteps
<1>3. lastSequence' \in Nat
  <2>1. CASE Relock(t)
    <3>1. frame[t].record \in Seq(Update) /\ lastSequence \in Nat
      BY <2>1 DEF Relock, StorageInv, MemShape, InWrite, Leading, Record
    <3>2. lastSequence' = lastSequence + Len(frame[t].record)
      BY <2>1 DEF Relock, Consumed
    <3> QED
      BY <3>1, <3>2
  <2>2. CASE ~Relock(t)
    <3>1. lastSequence' = lastSequence
      BY <2>2 DEF ClientStep, Write, CompactRange, Close, Step, TurnDone, TurnWait, TurnLead,
         RoomError, RoomDelay, RoomFits, RoomWait, RoomNoLog, RoomSwitch, LeaveRoom, BuildGroup,
         NoGroup, AddRecord, AddRecordFails, Sync, SyncFails, InsertUpdate, Pop, FlushStep,
         ManualWait, ManualReturn, CloseStep, versionVars
    <3> QED
      BY <3>1 DEF StorageInv, MemShape
  <2> QED
    BY <2>1, <2>2
<1> QED
  BY <1>1, <1>2, <1>3, ClientStorage DEF MemShape

LEMMA BackgroundMemShape ==
    ASSUME QueueInv, StorageInv, BGStep \/ UNCHANGED vars
    PROVE  MemShape'
<1>1. UNCHANGED <<mem_, lastSequence>>
  <2>1. lastSequence' = lastSequence
    BY DEF BGStep, BGNothing, BGMemTable, BGManualDone, BGCompaction, BGInnerMemTable,
         BGTableBuilt, BGTableFailed, BGApplied, BGApplyFailed, BGUnlinked, BGCompacted,
         BGCompactionFailed, BGInstalled, BGInstallFailed, BGCleaned, versionVars, vars
  <2> QED
    BY <2>1, BackgroundStorage
<1> QED
  BY <1>1, BackgroundElsewhere DEF StorageInv, MemShape

LEMMA ClientBgShape ==
    ASSUME NullIsNoMemtable, StorageInv, NEW t \in Threads, ClientStep(t)
    PROVE  BgShape'
<1>1. UNCHANGED <<bg, logNumber>>
  BY DEF ClientStep, Write, CompactRange, Close, Step, TurnDone, TurnWait, TurnLead,
         RoomError, RoomDelay, RoomFits, RoomWait, RoomNoLog, RoomSwitch, LeaveRoom, BuildGroup,
         NoGroup, AddRecord, AddRecordFails, Sync, SyncFails, InsertUpdate, Relock, Pop,
         FlushStep, ManualWait, ManualReturn, CloseStep, versionVars, bgVars
<1>2. CASE RoomSwitch(t)
  <2>1. imm_ = Null /\ imm_' # Null
    BY <1>2, SwitchStorage
  <2> QED
    BY <1>1, <2>1 DEF StorageInv, BgShape
<1>3. CASE ~RoomSwitch(t)
  <2>1. UNCHANGED <<imm_, logfile_number_>>
    BY <1>3, StorageKinds DEF StorageQuiet, storeVars, AddRecord, AddRecordFails, Sync,
                              InsertUpdate
  <2> QED
    BY <1>1, <2>1 DEF StorageInv, BgShape
<1> QED
  BY <1>2, <1>3

(* The end of a background call, or of its work on imm_, has no business   *)
(* with imm_ or obsolete logs any more.                                    *)
LEMMA BackgroundBgShape ==
    ASSUME StorageInv, BGStep \/ UNCHANGED vars
    PROVE  BgShape'
<1> DEFINE Past(p) == p \notin {"build", "apply", "unlink"}
<1>1. BgShape /\ DOMAIN bg = DOMAIN BGIdle
  BY DEF StorageInv, BgShape
<1>2. ASSUME DOMAIN bg' = DOMAIN BGIdle, Past(bg'.pc)
      PROVE  BgShape'
  BY <1>2 DEF BgShape
<1>3. ASSUME NEW failed, EndCall(failed)
      PROVE  BgShape'
  <2>1. bg' = BGIdle
    BY <1>3 DEF EndCall
  <2> QED
    BY <1>2, <2>1 DEF BGIdle
<1>4. ASSUME NEW failed, AfterMemTable(failed)
      PROVE  BgShape'
  <2>1. CASE bg.inner
    <3>1. DOMAIN bg' = DOMAIN BGIdle /\ bg'.pc = "compact"
      BY <1>1, <1>4, <2>1 DEF AfterMemTable, BGIdle
    <3> QED
      BY <1>2, <3>1
  <2>2. CASE ~bg.inner
    BY <1>3, <1>4, <2>2 DEF AfterMemTable
  <2> QED
    BY <2>1, <2>2
<1>5. ASSUME NEW failed, EndCompaction(failed)
      PROVE  BgShape'
  <2>1. EndCall(failed) \/ bg' = [bg EXCEPT !.pc = "crashed"]
    BY <1>5 DEF EndCompaction
  <2>2. CASE bg' = [bg EXCEPT !.pc = "crashed"]
    BY <1>1, <1>2, <2>2 DEF BGIdle
  <2> QED
    BY <1>3, <2>1, <2>2
<1>6. CASE BGNothing \/ BGManualDone
  BY <1>3, <1>6 DEF BGNothing, BGManualDone
<1>7. CASE BGTableFailed \/ BGApplyFailed \/ BGUnlinked
  BY <1>4, <1>7 DEF BGTableFailed, BGApplyFailed, BGUnlinked
<1>8. CASE BGCompactionFailed \/ BGInstallFailed \/ BGCleaned
  BY <1>5, <1>8 DEF BGCompactionFailed, BGInstallFailed, BGCleaned
<1>9. CASE BGInstalled
  <2>1. (\E failed : EndCompaction(failed)) \/ bg' = [bg EXCEPT !.pc = "cleanup"]
    BY <1>9 DEF BGInstalled
  <2>2. CASE bg' = [bg EXCEPT !.pc = "cleanup"]
    BY <1>1, <1>2, <2>2 DEF BGIdle
  <2> QED
    BY <1>5, <2>1, <2>2
<1>10. CASE BGCompaction \/ BGCompacted
  <2>1. DOMAIN bg' = DOMAIN BGIdle /\ bg'.pc \in {"compact", "move", "install"}
    BY <1>1, <1>10 DEF BGCompaction, BGCompacted, BGIdle
  <2> QED
    BY <1>2, <2>1
<1>11. CASE BGMemTable \/ BGInnerMemTable
  <2>1. DOMAIN bg' = DOMAIN BGIdle /\ bg'.pc = "build" /\ imm_ # Null /\ imm_' = imm_
    BY <1>1, <1>11 DEF BGMemTable, BGInnerMemTable, BGIdle, storeVars
  <2> QED
    BY <2>1 DEF BgShape
<1>12. CASE BGTableBuilt
  <2>1. /\ DOMAIN bg' = DOMAIN BGIdle /\ bg'.pc = "apply" /\ bg'.log = logfile_number_
        /\ bg.pc = "build" /\ UNCHANGED <<imm_, logfile_number_>>
    BY <1>1, <1>12 DEF BGTableBuilt, BGIdle, storeVars
  <2>2. logfile_number_ \in Nat
    BY DEF StorageInv, LogShape
  <2> QED
    BY <1>1, <2>1, <2>2 DEF BgShape
<1>13. CASE BGApplied
  <2>1. /\ DOMAIN bg' = DOMAIN BGIdle /\ bg'.pc = "unlink" /\ logNumber' = bg.log
        /\ bg'.doomed = IF bg_error_ THEN {} ELSE ObsoleteLogs(bg.log)
    BY <1>1, <1>13 DEF BGApplied, BGIdle
  <2> QED
    BY <2>1 DEF BgShape, ObsoleteLogs
<1>14. CASE UNCHANGED vars
  BY <1>1, <1>14 DEF BgShape, vars, bgVars, storeVars, versionVars
<1> QED
  BY <1>6, <1>7, <1>8, <1>9, <1>10, <1>11, <1>12, <1>13, <1>14 DEF BGStep

LEMMA ClientGroups ==
    ASSUME NullIsNoMemtable, QueueInv, StatusInv, StorageInv, GroupWritten,
           NEW t \in Threads, ClientStep(t)
    PROVE  GroupWritten'
<1>1. GroupOf(t)'
  <2>1. CASE BuildGroup(t)
    BY <2>1, GroupFormed DEF GroupWritten
  <2>2. CASE NoGroup(t)
    BY <2>2, NoGroupFormed
  <2>3. CASE Commits(t)
    BY <2>3, CommitGroup DEF Commits
  <2>4. CASE ~BuildGroup(t) /\ ~NoGroup(t) /\ ~Commits(t)
    BY <2>4, OtherSteps, NoGroupYet DEF Fresh, InWrite, Leading
  <2> QED
    BY <2>1, <2>2, <2>3, <2>4
<1>2. ASSUME NEW u \in Threads \ {t}
      PROVE  GroupOf(u)'
  <2>1. /\ pc'[u] = pc[u] /\ frame'[u].inserted = frame[u].inserted /\ GroupOf(u)
        /\ frame'[u] = frame[u] \/ (Pop(t) /\ u \in Followers(t))
    BY Elsewhere DEF GroupWritten
  <2>2. CASE pc[u] \notin Committed
    <3>1. pc[u] \in Fresh => frame'[u].inserted = 0
      BY <2>1 DEF GroupOf
    <3> QED
      BY <2>1, <2>2, <3>1, NoGroupYet
  <2>3. CASE pc[u] \in Committed
    <3>1. pc[u] \in InWrite /\ pc[t] \notin Leading
      BY <2>3 DEF InWrite, Leading, Committed, QueueInv, OneLogger
    <3>2. ~Pop(t) /\ ~RoomSwitch(t) /\ SameFrame(u)
      BY <2>1, <3>1 DEF Pop, RoomSwitch, SwitchDue, InRoom, Leading, SameFrame
    <3>3. writers_' = writers_ \/ (~InQueue(t) /\ writers_' = Append(writers_, t))
      <4>1. CASE \E r \in Requests : Write(t, r)
        BY <4>1 DEF Write, QueueInv, OneLogger, Leading
      <4>2. CASE ~\E r \in Requests : Write(t, r)
        BY <3>2, <4>2 DEF ClientStep, CompactRange, Close, Step, TurnDone, TurnWait, TurnLead,
           RoomError, RoomDelay, RoomFits, RoomWait, RoomNoLog, LeaveRoom, BuildGroup,
           NoGroup, AddRecord, AddRecordFails, Sync, SyncFails, InsertUpdate, Relock,
           FlushStep, ManualWait, ManualReturn, CloseStep, threadVars
      <4> QED
        BY <4>1, <4>2
    <3>4. ASSUME NEW v \in Threads, InQueue(v) PROVE frame'[v].call = frame[v].call
      <4>1. CASE v # t
        BY <4>1, Elsewhere
      <4>2. CASE v = t
        <5>1. pc[t] = "turn" /\ ~frame[t].done
          BY <3>1, <3>4, <4>2 DEF QueueInv, OneLogger
        <5>2. TurnWait(t) \/ TurnLead(t)
          BY <5>1 DEF ClientStep, Write, CompactRange, Close, Step, TurnDone, RoomError,
             RoomDelay, RoomFits, RoomWait, RoomNoLog, RoomSwitch, SwitchDue, InRoom, BuildGroup,
             NoGroup, AddRecord, AddRecordFails, Sync, SyncFails, InsertUpdate, Relock, Pop,
             FlushStep, ManualWait, ManualReturn, CloseStep
        <5> QED
          BY <4>2, <5>2 DEF TurnWait, TurnLead, threadVars, QueueInv, QueueShape, Idle
      <4> QED
        BY <4>1, <4>2
    <3>5. /\ LogsKept /\ mem_ \subseteq mem_' /\ logfile_number_' = logfile_number_
          /\ logNumber' <= logfile_number_
      BY <3>2, ClientStorage DEF StorageSafe, LogShape
    <3>6. HistKept
      BY HistGrows
    <3> QED
      BY <2>1, <3>1, <3>2, <3>3, <3>4, <3>5, <3>6, GroupStays
  <2> QED
    BY <2>2, <2>3
<1> QED
  BY <1>1, <1>2 DEF GroupWritten

LEMMA BackgroundGroups ==
    ASSUME QueueInv, StatusInv, StorageInv, GroupWritten, BGStep \/ UNCHANGED vars
    PROVE  GroupWritten'
<1>1. /\ UNCHANGED <<pc, hist, writers_>>
      /\ \A u \in Threads : pc[u] \in InWrite => frame'[u] = frame[u]
  BY BackgroundElsewhere
<1>2. /\ LogsKept /\ UNCHANGED <<mem_, logfile_number_>> /\ logNumber' <= logfile_number_
  BY BackgroundStorage DEF StorageSafe, LogShape
<1>3. HistKept
  BY <1>1 DEF HistKept
<1>4. \A v \in Threads : InQueue(v) => frame'[v].call = frame[v].call
  BY <1>1 DEF QueueInv, OneLogger, InWrite
<1> SUFFICES ASSUME NEW u \in Threads PROVE GroupOf(u)'
  BY DEF GroupWritten
<1>5. CASE pc[u] \in InWrite
  BY <1>1, <1>2, <1>3, <1>4, <1>5, GroupStays DEF GroupWritten, SameFrame
<1>6. CASE pc[u] \notin InWrite
  BY <1>1, <1>6, NoGroupYet DEF InWrite, Leading, Committed, Fresh
<1> QED
  BY <1>5, <1>6

-----------------------------------------------------------------------------
(* What was acknowledged is kept *)

LEMMA KeptCarries ==
    ASSUME Carries, HistKept, NEW c \in DOMAIN hist, Kept(c)
    PROVE  Kept(c)'
  BY SameUpdates DEF Kept, Carries, HistKept

(* A leader that returns OK kept the updates of its whole group (lines     *)
(* 1258-1272).                                                             *)
LEMMA GroupKept ==
    ASSUME QueueInv, StatusInv, StorageInv, GroupWritten, NEW t \in Threads, Pop(t),
           frame[t].status = "ok"
    PROVE  /\ Kept(frame[t].call)
           /\ \A u \in Followers(t) : Kept(frame[u].call)
<1> DEFINE n == GroupSize(t)
<1>1. pc[t] = "pop" /\ pc[t] \in Committed /\ pc[t] \in InWrite /\ GroupOf(t)
  BY DEF Pop, Committed, InWrite, Leading, GroupWritten
<1>2. n \in DOMAIN writers_ /\ writers_[n] = frame[t].last_writer
  <2>1. InQueue(frame[t].last_writer)
    BY <1>1 DEF QueueInv, GroupInQueue
  <2> QED
    BY <2>1 DEF InQueue, GroupSize
<1> HIDE DEF n
<1>3. /\ writers_ \in Seq(Threads) /\ DOMAIN writers_ = 1 .. Len(writers_) /\ Len(writers_) \in Nat
      /\ n \in Nat /\ writers_[1] = t /\ 1 \in 1 .. n
  <2>1. writers_ \in Seq(Threads) /\ writers_ # <<>> /\ Head(writers_) = t
    BY <1>1 DEF QueueInv, QueueShape, OneLogger, Leading
  <2> QED
    BY <1>2, <2>1
<1>4. ASSUME NEW i \in 1 .. n
      PROVE  Kept(frame[writers_[i]].call)
  <2>1. i \in DOMAIN writers_ /\ i <= n
    BY <1>2, <1>3
  <2>2. CASE Writing(t)
    <3>1. Progress(t) /\ GroupHeld(t)
      BY <1>1, <2>2 DEF GroupOf
    <3>2. /\ Batch(writers_[i]).sync => Batch(t).sync
          /\ \A u \in Updates(frame[writers_[i]].call) :
               \E k \in DOMAIN frame[t].record : frame[t].record[k] = u
      BY <1>2, <2>1, <3>1 DEF GroupHeld, InGroup
    <3>3. frame[t].record \in Seq(Update) /\ frame[t].inserted = Len(frame[t].record)
      BY <1>1, <3>1 DEF StorageInv, MemShape, Record, Progress, Putting
    <3>4. \A k \in DOMAIN frame[t].record :
            /\ \E e \in mem_ : e.update = frame[t].record[k]
            /\ Holds(logs[logfile_number_], frame[t].record[k], LoggedTo(t))
      BY <1>1, <3>1, <3>3 DEF Progress
    <3>5. Batch(t).sync => LoggedTo(t) = synced[logfile_number_]
      BY <1>1 DEF LoggedTo
    <3>6. logfile_number_ \in DOMAIN logs /\ logfile_number_ >= logNumber
      BY DEF StorageInv, LogShape
    <3>7. ASSUME NEW u \in Updates(frame[writers_[i]].call)
          PROVE  Stored(u) /\ (Batch(writers_[i]).sync => Durable(u))
      <4>1. PICK k \in DOMAIN frame[t].record : frame[t].record[k] = u
        BY <3>2
      <4>2. Stored(u)
        BY <3>4, <4>1 DEF Stored, Store, InMemory
      <4>3. ASSUME Batch(writers_[i]).sync PROVE Durable(u)
        BY <3>2, <3>4, <3>5, <3>6, <4>1, <4>3 DEF Durable
      <4> QED
        BY <4>2, <4>3
    <3> QED
      BY <3>7 DEF Kept, Batch
  <2>3. CASE ~Writing(t)
    <3>1. frame[t].last_writer = t /\ Batch(t).updates = 0
      BY <1>1, <2>3 DEF GroupOf, Writing
    <3>2. writers_[i] = t
      <4>1. n = 1
        BY <1>2, <1>3, <3>1 DEF QueueInv, OneLogger
      <4> QED
        BY <1>3, <4>1
    <3>3. Updates(frame[t].call) = {}
      BY <3>1 DEF Updates, Batch
    <3> QED
      BY <3>2, <3>3 DEF Kept
  <2> QED
    BY <2>2, <2>3
<1>5. ASSUME NEW u \in Followers(t) PROVE Kept(frame[u].call)
  <2>1. PICK i \in 2 .. n : u = writers_[i]
    BY DEF Followers, n
  <2>2. i \in 1 .. n
    BY <1>3
  <2> QED
    BY <1>4, <2>1, <2>2
<1> QED
  BY <1>3, <1>4, <1>5

LEMMA ClientKept ==
    ASSUME NullIsNoMemtable, QueueInv, StatusInv, DurabilityInv, NEW t \in Threads, ClientStep(t)
    PROVE  AckedKept' /\ DoneKept'
<1>1. Carries /\ HistKept
  BY ClientStorage, HistGrows DEF DurabilityInv, StorageSafe
<1>2. Returns(t) => Kept(frame[t].call)
  <2>1. CASE TurnDone(t) /\ frame[t].status = "ok"
    BY <2>1 DEF TurnDone, DurabilityInv, DoneKept
  <2>2. CASE Pop(t) /\ frame[t].status = "ok"
    BY <2>2, GroupKept DEF DurabilityInv
  <2> QED
    BY <2>1, <2>2 DEF Returns
<1>3. AckedKept'
  <2> SUFFICES ASSUME NEW c \in DOMAIN hist', hist'[c].result = "ok"
               PROVE  Kept(c)'
    BY DEF AckedKept
  <2>1. c \in DOMAIN hist /\ (hist[c].result = "ok" \/ (Returns(t) /\ c = frame[t].call))
    BY HistGrows
  <2>2. Kept(c)
    BY <1>2, <2>1 DEF DurabilityInv, AckedKept
  <2> QED
    BY <1>1, <2>1, <2>2, KeptCarries
<1>4. DoneKept'
  <2> SUFFICES ASSUME NEW u \in Threads, pc'[u] = "turn", frame'[u].done, frame'[u].status = "ok"
               PROVE  Kept(frame[u].call)'
    BY DEF DoneKept
  <2>1. /\ pc[u] = "turn" /\ frame'[u].call = frame[u].call
        /\ Kept(frame[u].call)
    <3>1. CASE u = t
      <4>1. TurnWait(t)
        <5>1. CASE \E r \in Requests : Write(t, r)
          BY <3>1, <5>1 DEF Write, QueueInv, QueueShape, Idle
        <5>2. CASE ~\E r \in Requests : Write(t, r)
          BY <3>1, <5>2 DEF ClientStep, CompactRange, Close, Step, TurnDone, AfterWrite, TurnLead,
             RoomError, RoomDelay, RoomFits, RoomWait, RoomNoLog, RoomSwitch, SwitchDue, InRoom,
             LeaveRoom, BuildGroup, NoGroup, AddRecord, AddRecordFails, Sync, SyncFails,
             InsertUpdate, Relock, Pop, FlushStep, ManualWait, ManualReturn, CloseStep,
             threadVars, QueueInv, QueueShape
        <5> QED
          BY <5>1, <5>2
      <4> QED
        BY <3>1, <4>1 DEF TurnWait, threadVars, DurabilityInv, DoneKept
    <3>2. CASE u # t
      <4>1. /\ pc[u] = "turn" /\ frame'[u].call = frame[u].call
            /\ frame'[u] = frame[u] \/ (Pop(t) /\ u \in Followers(t))
        BY <3>2, Elsewhere
      <4>2. CASE frame'[u] = frame[u]
        BY <4>1, <4>2 DEF DurabilityInv, DoneKept
      <4>3. CASE Pop(t) /\ u \in Followers(t)
        <5>1. frame'[u].status = frame[t].status
          BY <3>2, <4>3 DEF Pop, FollowerStatus, QueueInv, QueueShape, Idle
        <5> QED
          BY <4>1, <4>3, <5>1, GroupKept DEF DurabilityInv
      <4> QED
        BY <4>1, <4>2, <4>3
    <3> QED
      BY <3>1, <3>2
  <2>2. PICK c \in DOMAIN hist : c = frame[u].call
    BY <2>1 DEF StatusInv, CallShape, InWrite
  <2>3. Kept(c)'
    BY <1>1, <2>1, <2>2, KeptCarries
  <2> QED
    BY <2>1, <2>2, <2>3 DEF Kept, Updates, UpdatesOf
<1> QED
  BY <1>3, <1>4

LEMMA BackgroundKept ==
    ASSUME QueueInv, StatusInv, DurabilityInv, BGStep \/ UNCHANGED vars
    PROVE  AckedKept' /\ DoneKept'
<1>1. /\ UNCHANGED <<pc, hist, writers_>>
      /\ \A u \in Threads : pc[u] \in InWrite => frame'[u] = frame[u]
  BY BackgroundElsewhere
<1>2. Carries /\ HistKept
  BY <1>1, BackgroundStorage DEF DurabilityInv, StorageSafe, HistKept
<1>3. AckedKept'
  BY <1>1, <1>2, KeptCarries DEF DurabilityInv, AckedKept
<1>4. DoneKept'
  <2> SUFFICES ASSUME NEW u \in Threads, pc'[u] = "turn", frame'[u].done, frame'[u].status = "ok"
               PROVE  Kept(frame[u].call)'
    BY DEF DoneKept
  <2>1. frame'[u] = frame[u] /\ Kept(frame[u].call)
    BY <1>1 DEF DurabilityInv, DoneKept, InWrite
  <2>2. PICK c \in DOMAIN hist : c = frame[u].call
    BY <1>1 DEF StatusInv, CallShape, InWrite
  <2>3. Kept(c)'
    BY <1>2, <2>1, <2>2, KeptCarries
  <2> QED
    BY <2>1, <2>2, <2>3 DEF Kept, Updates, UpdatesOf
<1> QED
  BY <1>3, <1>4

-----------------------------------------------------------------------------
LEMMA DurabilityInit == Init => DurabilityInv
<1> SUFFICES ASSUME Init PROVE DurabilityInv
  OBVIOUS
<1>1. /\ \A t \in Threads : pc[t] = "idle"
      /\ mem_ = {} /\ imm_ = Null /\ logs = [n \in {1} |-> <<>>] /\ synced = [n \in {1} |-> 0]
      /\ logfile_number_ = 1 /\ nextLog = 2 /\ lastSequence = 0 /\ logNumber = 1
      /\ bg = BGIdle /\ hist = <<>>
  BY DEF Init
<1>2. LogShape
  <2>1. <<>> \in Seq(Record) /\ 0 \in 0 .. Len(<<>>)
    OBVIOUS
  <2>2. DOMAIN logs = {1} /\ logs[1] = <<>> /\ DOMAIN synced = {1} /\ synced[1] = 0
    BY <1>1
  <2> QED
    BY <1>1, <2>1, <2>2 DEF LogShape
<1>3. MemShape /\ BgShape /\ MemLogged /\ ImmLogged
  BY <1>1 DEF MemShape, BgShape, MemLogged, ImmLogged, InWrite, Leading, BGIdle
<1>4. GroupWritten
  BY <1>1 DEF GroupWritten, GroupOf, Writing, Committed, Fresh, Putting
<1>5. AckedKept /\ DoneKept
  BY <1>1 DEF AckedKept, DoneKept
<1> QED
  BY <1>2, <1>3, <1>4, <1>5 DEF DurabilityInv, StorageInv

LEMMA DurabilityNext ==
    ASSUME NullIsNoMemtable, QueueInv, StatusInv, DurabilityInv, [Next]_vars
    PROVE  DurabilityInv'
<1>1. StorageInv /\ GroupWritten
  BY DEF DurabilityInv
<1>2. CASE BGStep \/ UNCHANGED vars
  <2>1. StorageInv'
    BY <1>1, <1>2, BackgroundStorage, BackgroundMemShape, BackgroundBgShape
       DEF StorageInv, StorageSafe
  <2> QED
    BY <1>1, <1>2, <2>1, BackgroundGroups, BackgroundKept DEF DurabilityInv
<1>3. ASSUME NEW t \in Threads, ClientStep(t)
      PROVE  DurabilityInv'
  <2>1. StorageInv'
    BY <1>1, <1>3, ClientStorage, ClientMemShape, ClientBgShape DEF StorageInv, StorageSafe
  <2> QED
    BY <1>1, <1>3, <2>1, ClientGroups, ClientKept DEF DurabilityInv
<1> QED
  BY <1>2, <1>3, StepKinds

LEMMA DurabilityInvariant ==
    ASSUME NullIsNoMemtable
    PROVE  Spec => []DurabilityInv
<1>1. QueueInv /\ StatusInv /\ DurabilityInv /\ [Next]_vars => DurabilityInv'
  BY DurabilityNext
<1> QED
  BY <1>1, DurabilityInit, StatusInvariant, PTL DEF Spec

(* Every update a reader can see is in a table or in a log that recovery   *)
(* reads, and what Write acknowledged can be seen: group commit, memtable  *)
(* switches, failing files, the move of LogNumber and the removal of       *)
(* obsolete logs lose nothing, for any number of threads.                  *)
THEOREM StoreIsLoggedAlways ==
    ASSUME NullIsNoMemtable
    PROVE  Spec => []StoreIsLogged
<1>1. DurabilityInv => StoreIsLogged
  <2> SUFFICES ASSUME DurabilityInv PROVE StoreIsLogged
    OBVIOUS
  <2>1. ASSUME NEW e \in InMemory
        PROVE  \E n \in DOMAIN logs : n >= logNumber /\ InLog(n, e.update, Len(logs[n]))
    <3>1. \E n \in DOMAIN logs : n >= logNumber /\ Holds(logs[n], e.update, Len(logs[n]))
      <4>1. CASE e \in mem_
        BY <4>1 DEF DurabilityInv, StorageInv, LogShape, MemLogged
      <4>2. CASE imm_ # Null /\ e \in imm_
        BY <4>2 DEF DurabilityInv, StorageInv, ImmLogged
      <4> QED
        BY <4>1, <4>2 DEF InMemory
    <3> QED
      BY <3>1, InLogHolds
  <2>2. \A c \in DOMAIN hist : hist[c].result = "ok" =>
          \A u \in Updates(c) : \E e \in Store : e.update = u
    BY DEF DurabilityInv, AckedKept, Kept, Stored
  <2> QED
    BY <2>1, <2>2 DEF StoreIsLogged
<1> QED
  BY <1>1, DurabilityInvariant, PTL

(* A sync write that returned OK is in a table or in the synced part of a  *)
(* log that recovery reads, whoever led its group and whatever the         *)
(* background thread did since.                                            *)
THEOREM SyncedWhenAcknowledgedAlways ==
    ASSUME NullIsNoMemtable
    PROVE  Spec => []SyncedWhenAcknowledged
<1>1. DurabilityInv => SyncedWhenAcknowledged
  <2> SUFFICES ASSUME DurabilityInv,
                      NEW c \in DOMAIN hist, hist[c].result = "ok" /\ hist[c].sync,
                      NEW u \in Updates(c)
               PROVE  \/ InTables(u)
                      \/ \E n \in DOMAIN logs : n >= logNumber /\ InLog(n, u, synced[n])
    BY DEF SyncedWhenAcknowledged
  <2>1. Durable(u)
    BY DEF DurabilityInv, AckedKept, Kept
  <2> QED
    BY <2>1, InLogHolds DEF Durable
<1> QED
  BY <1>1, DurabilityInvariant, PTL

-----------------------------------------------------------------------------
(* A call in progress has no result yet, and one thread.                   *)
CallsApart ==
    \A t \in Threads : pc[t] \in InWrite =>
        /\ hist[frame[t].call].result = "pending"
        /\ \A u \in Threads : pc[u] \in InWrite /\ frame[t].call = frame[u].call => t = u

(* Ahead of LastSequence are the updates that a leader is inserting, and   *)
(* no others.                                                              *)
Inserting(t)   == pc[t] \in {"insert", "relock"} /\ frame[t].status = "ok"
Numbered(t, k) == [seq |-> lastSequence + k, update |-> frame[t].record[k]]
Ahead(e)       == \E t \in Threads : Inserting(t) /\ \E k \in 1 .. frame[t].inserted :
                      e = Numbered(t, k)

NumberShape ==
    /\ Store \subseteq Entry
    /\ \A t \in Threads : pc[t] \in {"log", "sync"} => frame[t].inserted = 0
    /\ \A e \in Store : e.seq <= lastSequence \/ Ahead(e)
    /\ \A t \in Threads : Inserting(t) =>
         \A k \in 1 .. frame[t].inserted : Numbered(t, k) \in Store

NumbersDiffer == \A e, f \in Store : e.seq = f.seq => e = f

(* A reader that sees an update of a call sees them all; a writer in the   *)
(* queue is unseen, unless it is about to return OK, and so is one that    *)
(* was told of an error.                                                   *)
Seen(c) == \E e \in Visible : e.update.call = c

SeenWhole ==
    \A e \in Visible : /\ e.update.call \in DOMAIN hist
                       /\ \A u \in Updates(e.update.call) : \E f \in Visible : f.update = u

Acknowledging(i) ==
    \E t \in Threads : pc[t] = "pop" /\ frame[t].status = "ok" /\ InGroup(t, i)

QueueUnseen ==
    \A i \in DOMAIN writers_ : Seen(frame[writers_[i]].call) => Acknowledging(i)

FailedUnseen ==
    \A t \in Threads : pc[t] = "turn" /\ frame[t].done /\ frame[t].status = "error" =>
        ~Seen(frame[t].call)

BatchInv == CallsApart /\ NumberShape /\ NumbersDiffer /\ SeenWhole /\ QueueUnseen /\ FailedUnseen

LEMMA OneLeader ==
    ASSUME QueueInv, NEW t \in Threads, NEW u \in Threads, pc[t] \in Leading, pc[u] \in Leading
    PROVE  t = u
  BY DEF QueueInv, OneLogger

(* The store grows by what is inserted only, and moves on as it is.        *)
StoreKept == Store' = Store /\ lastSequence' = lastSequence

LEMMA ClientStore ==
    ASSUME NullIsNoMemtable, StorageInv, NEW t \in Threads, ClientStep(t)
    PROVE  /\ ~InsertUpdate(t) /\ ~Relock(t) => StoreKept
           /\ InsertUpdate(t) => /\ Store' = Store \union {Numbered(t, frame[t].inserted + 1)}
                                 /\ lastSequence' = lastSequence
           /\ Relock(t) => /\ Store' = Store
                           /\ lastSequence' = lastSequence + Len(frame[t].record)
<1>1. CASE InsertUpdate(t)
  BY <1>1 DEF InsertUpdate, versionVars, Store, InMemory, Numbered, Relock
<1>2. CASE Relock(t)
  BY <1>2 DEF InsertUpdate, Relock, Consumed, storeVars, Store, InMemory
<1>3. CASE RoomSwitch(t)
  <2>1. /\ mem_' = {} /\ imm_ = Null /\ imm_' = mem_ /\ imm_' # Null
        /\ UNCHANGED <<tables, lastSequence>>
    BY <1>3, SwitchStorage DEF RoomSwitch, versionVars
  <2>2. Store' = Store
    BY <2>1 DEF Store, InMemory
  <2> QED
    BY <1>3, <2>1, <2>2 DEF StoreKept, RoomSwitch, SwitchDue, InRoom, InsertUpdate, Relock
<1>4. CASE ~InsertUpdate(t) /\ ~Relock(t) /\ ~RoomSwitch(t)
  <2>1. UNCHANGED <<mem_, imm_, tables, lastSequence>>
    BY <1>4 DEF ClientStep, Write, CompactRange, Close, Step, TurnDone, TurnWait, TurnLead,
       RoomError, RoomDelay, RoomFits, RoomWait, RoomNoLog, LeaveRoom, BuildGroup, NoGroup,
       AddRecord, AddRecordFails, Sync, SyncFails, Pop, FlushStep, ManualWait, ManualReturn,
       CloseStep, storeVars, versionVars
  <2> QED
    BY <1>4, <2>1 DEF StoreKept, Store, InMemory
<1> QED
  BY <1>1, <1>2, <1>3, <1>4

LEMMA BackgroundStore ==
    ASSUME StorageInv, BGStep \/ UNCHANGED vars
    PROVE  StoreKept
<1>1. CASE BGApplied
  <2>1. /\ imm_ # Null /\ imm_' = Null /\ tables' = tables \union imm_
        /\ UNCHANGED <<mem_, lastSequence>>
    BY <1>1 DEF BGApplied, StorageInv, BgShape
  <2> QED
    BY <2>1 DEF StoreKept, Store, InMemory
<1>2. CASE ~BGApplied
  <2>1. UNCHANGED <<mem_, imm_, tables, lastSequence>>
    BY <1>2 DEF BGStep, BGNothing, BGReady, BGMemTable, BGManualDone, BGCompaction,
       BGInnerMemTable, BGTableBuilt, BGTableFailed, BGApplyFailed, BGUnlinked, BGCompacted,
       BGCompactionFailed, BGInstalled, BGInstallFailed, BGCleaned, storeVars, versionVars, vars
  <2> QED
    BY <2>1 DEF StoreKept, Store, InMemory
<1> QED
  BY <1>1, <1>2

-----------------------------------------------------------------------------
(* Sequence numbers *)

(* Steps that insert nothing.                                              *)
LEMMA NumbersStay ==
    ASSUME NumberShape, NumbersDiffer, StoreKept,
           \A u \in Threads : Inserting(u) =>
              Inserting(u)' /\ frame'[u].inserted = frame[u].inserted
                            /\ frame'[u].record = frame[u].record,
           \A u \in Threads : Inserting(u)' => Inserting(u) \/ frame'[u].inserted = 0,
           \A u \in Threads : pc'[u] \in {"log", "sync"} => frame'[u].inserted = 0
    PROVE  NumberShape' /\ NumbersDiffer'
<1>1. ASSUME NEW u \in Threads, Inserting(u), NEW k
      PROVE  Numbered(u, k)' = Numbered(u, k)
  BY <1>1 DEF Numbered, StoreKept
<1>2. ASSUME NEW e \in Store, Ahead(e) PROVE Ahead(e)'
  BY <1>1, <1>2 DEF Ahead
<1>3. ASSUME NEW u \in Threads, Inserting(u)', NEW k \in 1 .. frame'[u].inserted
      PROVE  Numbered(u, k)' \in Store
  <2>1. CASE Inserting(u)
    BY <1>1, <1>3, <2>1 DEF NumberShape
  <2>2. CASE frame'[u].inserted = 0
    BY <1>3, <2>2
  <2> QED
    BY <1>3, <2>1, <2>2
<1> QED
  BY <1>2, <1>3 DEF NumberShape, NumbersDiffer, StoreKept

(* A leader with the mutex elsewhere is undisturbed.                       *)
LEMMA LeadersElsewhere ==
    ASSUME QueueInv, NEW t \in Threads, ClientStep(t), NEW u \in Threads \ {t},
           pc[u] \in Leading \/ pc'[u] \in Leading
    PROVE  pc'[u] = pc[u] /\ frame'[u] = frame[u]
<1>1. pc'[u] = pc[u] /\ (frame'[u] = frame[u] \/ Pop(t))
  BY Elsewhere
<1>2. ~Pop(t)
  BY <1>1, OneLeader DEF Pop, Leading
<1> QED
  BY <1>1, <1>2

LEMMA InsertNumbers ==
    ASSUME NullIsNoMemtable, QueueInv, StorageInv, GroupWritten, NumberShape, NumbersDiffer,
           NEW t \in Threads, InsertUpdate(t)
    PROVE  NumberShape' /\ NumbersDiffer' /\ Visible' = Visible
<1> DEFINE i == frame[t].inserted + 1
           new == Numbered(t, i)
<1>1. /\ pc[t] = "insert" /\ pc'[t] \in {"insert", "relock"}
      /\ frame'[t].inserted = i /\ frame'[t].status = frame[t].status
      /\ frame'[t].record = frame[t].record /\ ClientStep(t)
  BY DEF InsertUpdate, ClientStep, Step, QueueInv, QueueShape, Idle
<1>2. frame[t].status = "ok" /\ Inserting(t) /\ Inserting(t)'
  BY <1>1 DEF GroupWritten, GroupOf, Putting, Writing, Inserting
<1>3. Store' = Store \union {new} /\ lastSequence' = lastSequence
  BY <1>1, ClientStore
<1>4. /\ frame[t].inserted \in Nat /\ lastSequence \in Nat /\ new \in Entry
  <2>1. frame[t].inserted \in Nat /\ lastSequence \in Nat /\ frame[t].record \in Seq(Update)
    BY <1>1 DEF StorageInv, MemShape, InWrite, Leading, Record
  <2>2. i \in DOMAIN frame[t].record
    BY InsertStorage
  <2>3. frame[t].record[i] \in Update
    BY <2>1, <2>2
  <2> QED
    BY <2>1, <2>3 DEF Entry, Numbered
<1>5. \A u \in Threads \ {t} : /\ pc[u] \notin Leading /\ pc'[u] \notin Leading
                             /\ ~Inserting(u) /\ ~Inserting(u)'
  <2> SUFFICES ASSUME NEW u \in Threads \ {t}
               PROVE  pc[u] \notin Leading /\ pc'[u] \notin Leading
    BY DEF Inserting, Leading
  <2>1. pc'[u] = pc[u]
    BY <1>1, Elsewhere
  <2> QED
    BY <1>1, <2>1, OneLeader DEF Leading
<1>6. \A k : Numbered(t, k)' = Numbered(t, k)
  BY <1>1, <1>3 DEF Numbered
<1>7. new.seq = lastSequence + i /\ new.seq > lastSequence
  BY <1>4 DEF Numbered
<1>8. ASSUME NEW e \in Store
      PROVE  /\ e.seq <= lastSequence \/ \E k \in 1 .. frame[t].inserted : e = Numbered(t, k)
             /\ e.seq # new.seq
  <2>1. e.seq <= lastSequence \/ \E k \in 1 .. frame[t].inserted : e = Numbered(t, k)
    BY <1>5 DEF NumberShape, Ahead
  <2>2. e.seq \in Nat
    BY DEF NumberShape, Entry
  <2>3. ASSUME NEW k \in 1 .. frame[t].inserted, e = Numbered(t, k) PROVE e.seq # new.seq
    BY <1>4, <1>7, <2>3 DEF Numbered
  <2> QED
    BY <1>4, <1>7, <2>1, <2>2, <2>3
<1> HIDE DEF new
<1>9. \A k \in 1 .. frame'[t].inserted : k \in 1 .. frame[t].inserted \/ k = i
  BY <1>1, <1>4
<1>10. \A k \in 1 .. frame[t].inserted : k \in 1 .. frame'[t].inserted
  BY <1>1, <1>4
<1>11. i \in 1 .. frame'[t].inserted
  BY <1>1, <1>4
<1>12. \A e \in Store' : e.seq <= lastSequence' \/ Ahead(e)'
  <2> SUFFICES ASSUME NEW e \in Store' PROVE e.seq <= lastSequence' \/ Ahead(e)'
    OBVIOUS
  <2>1. CASE e \in Store
    BY <1>2, <1>3, <1>6, <1>8, <1>10, <2>1 DEF Ahead
  <2>2. CASE e = new
    BY <1>2, <1>6, <1>11, <2>2 DEF Ahead, new
  <2> QED
    BY <1>3, <2>1, <2>2
<1>13. \A k \in 1 .. frame'[t].inserted : Numbered(t, k)' \in Store'
  BY <1>2, <1>3, <1>6, <1>9 DEF NumberShape, new
<1>14. NumberShape'
  <2>1. Store' \subseteq Entry
    BY <1>3, <1>4 DEF NumberShape
  <2>2. \A u \in Threads : pc'[u] \in {"log", "sync"} => frame'[u].inserted = 0
    BY <1>1, <1>5 DEF Leading
  <2> QED
    BY <1>5, <1>12, <1>13, <2>1, <2>2 DEF NumberShape
<1>15. NumbersDiffer'
  BY <1>3, <1>8 DEF NumbersDiffer
<1>16. Visible' = Visible
  BY <1>3, <1>4, <1>7 DEF Visible
<1> QED
  BY <1>14, <1>15, <1>16

(* A leader moves LastSequence: what it inserted is visible at once, or it *)
(* inserted nothing (lines 1245-1255).                                     *)
Publishes(t) ==
    /\ Relock(t) /\ Writing(t) /\ GroupHeld(t)
    /\ Visible \subseteq Visible'
    /\ \A e \in Visible' : e \in Visible \/ \E k \in DOMAIN frame[t].record :
                                              e.update = frame[t].record[k]
    /\ \A k \in DOMAIN frame[t].record : \E e \in Visible' : e.update = frame[t].record[k]

LEMMA RelockNumbers ==
    ASSUME NullIsNoMemtable, QueueInv, StorageInv, GroupWritten, NumberShape, NumbersDiffer,
           NEW t \in Threads, Relock(t)
    PROVE  NumberShape' /\ NumbersDiffer' /\ (Visible' = Visible \/ Publishes(t))
<1> DEFINE r == frame[t].record
<1>1. pc[t] = "relock" /\ pc'[t] = "pop" /\ UNCHANGED frame /\ ClientStep(t)
  BY DEF Relock, ClientStep, Step, QueueInv, QueueShape
<1>2. Store' = Store /\ lastSequence' = lastSequence + Len(r)
  BY <1>1, ClientStore
<1>3. lastSequence \in Nat /\ r \in Seq(Update) /\ Len(r) \in Nat /\ DOMAIN r = 1 .. Len(r)
  <2>1. lastSequence \in Nat /\ r \in Seq(Update)
    BY <1>1 DEF StorageInv, MemShape, InWrite, Leading, Record
  <2> QED
    BY <2>1
<1>4. \A u \in Threads \ {t} : pc[u] \notin Leading /\ pc'[u] = pc[u]
  BY <1>1, Elsewhere, OneLeader DEF Leading
<1>5. \A u \in Threads : pc'[u] \notin {"log", "sync", "insert", "relock"}
  BY <1>1, <1>4 DEF Leading
<1>6. \A e \in Store : e.seq \in Nat /\ e.update \in Update
  BY DEF NumberShape, Entry
<1>7. CASE frame[t].status = "ok"
  <2>1. Inserting(t) /\ Writing(t) /\ GroupHeld(t) /\ frame[t].inserted = Len(r)
    BY <1>1, <1>7 DEF Inserting, GroupWritten, GroupOf, Progress, Putting
  <2>2. ASSUME NEW e \in Store
        PROVE  e.seq <= lastSequence \/ \E k \in DOMAIN r : e = Numbered(t, k)
    <3>1. Ahead(e) => \E k \in DOMAIN r : e = Numbered(t, k)
      BY <1>3, <1>4, <2>1 DEF Ahead, Inserting, Leading
    <3> QED
      BY <3>1 DEF NumberShape
  <2>3. ASSUME NEW e \in Store PROVE e.seq <= lastSequence'
    <3>1. CASE e.seq <= lastSequence
      BY <1>2, <1>3, <1>6, <3>1
    <3>2. ASSUME NEW k \in DOMAIN r, e = Numbered(t, k) PROVE e.seq <= lastSequence'
      BY <1>2, <1>3, <3>2 DEF Numbered
    <3> QED
      BY <2>2, <3>1, <3>2
  <2>4. Visible' = Store
    BY <1>2, <2>3 DEF Visible
  <2>5. \A k \in DOMAIN r : Numbered(t, k) \in Store /\ Numbered(t, k).update = r[k]
    BY <1>3, <2>1 DEF NumberShape, Numbered
  <2>6. \A e \in Visible' : e \in Visible \/ \E k \in DOMAIN r : e.update = r[k]
    BY <2>2, <2>4, <2>5 DEF Visible
  <2>7. Visible \subseteq Visible'
    BY <2>4 DEF Visible
  <2>8. Publishes(t)
    BY <2>1, <2>4, <2>5, <2>6, <2>7 DEF Publishes
  <2> QED
    BY <1>2, <1>5, <2>3, <2>8 DEF NumberShape, NumbersDiffer, Inserting
<1>8. CASE frame[t].status # "ok"
  <2>1. \A e \in Store : e.seq <= lastSequence
    BY <1>4, <1>8 DEF NumberShape, Ahead, Inserting, Leading
  <2>2. \A e \in Store : e.seq <= lastSequence'
    BY <1>2, <1>3, <1>6, <2>1
  <2>3. Visible' = Visible
    BY <1>2, <2>1, <2>2 DEF Visible
  <2> QED
    BY <1>2, <1>5, <2>2, <2>3 DEF NumberShape, NumbersDiffer, Inserting
<1> QED
  BY <1>7, <1>8

(* The numbers of a leader that has inserted nothing. *)
LEMMA OwnNumbers ==
    ASSUME QueueInv, StatusInv, StorageInv, GroupWritten, NumberShape,
           NEW t \in Threads, ClientStep(t), ~InsertUpdate(t), ~Relock(t)
    PROVE  /\ ~Inserting(t)
           /\ Inserting(t)' \/ pc'[t] \in {"log", "sync"} => frame'[t].inserted = 0
<1>1. ~Inserting(t)
  BY DEF Inserting, ClientStep, Write, CompactRange, Close, Step, TurnDone, TurnWait, TurnLead,
     RoomError, RoomDelay, RoomFits, RoomWait, RoomNoLog, RoomSwitch, SwitchDue, InRoom,
     BuildGroup, NoGroup, AddRecord, AddRecordFails, Sync, SyncFails, Pop, FlushStep,
     ManualWait, ManualReturn, CloseStep
<1>2. CASE BuildGroup(t)
  <2>1. frame[t].inserted = 0
    BY <1>2 DEF BuildGroup, GroupWritten, GroupOf, Fresh
  <2>2. frame'[t].inserted = frame[t].inserted
    BY <1>2 DEF BuildGroup, QueueInv, QueueShape, Idle
  <2> QED
    BY <1>1, <2>1, <2>2
<1>3. CASE NoGroup(t)
  BY <1>1, <1>3 DEF NoGroup, Inserting, QueueInv, QueueShape
<1>4. CASE AddRecord(t) \/ Sync(t)
  BY <1>1, <1>4 DEF AddRecord, Sync, NumberShape
<1>5. CASE AddRecordFails(t) \/ SyncFails(t)
  BY <1>1, <1>5 DEF AddRecordFails, SyncFails, Inserting, QueueInv, QueueShape, Idle
<1>6. CASE ~BuildGroup(t) /\ ~NoGroup(t) /\ ~Commits(t)
  BY <1>1, <1>6, OtherSteps DEF Inserting, Committed
<1> QED
  BY <1>2, <1>3, <1>4, <1>5, <1>6 DEF Commits

LEMMA ClientNumbers ==
    ASSUME NullIsNoMemtable, QueueInv, StatusInv, StorageInv, GroupWritten,
           NumberShape, NumbersDiffer, NEW t \in Threads, ClientStep(t)
    PROVE  NumberShape' /\ NumbersDiffer' /\ (Visible' = Visible \/ Publishes(t))
<1>1. CASE InsertUpdate(t)
  BY <1>1, InsertNumbers
<1>2. CASE Relock(t)
  BY <1>2, RelockNumbers
<1>3. CASE ~InsertUpdate(t) /\ ~Relock(t)
  <2>1. StoreKept
    BY <1>3, ClientStore
  <2>2. Visible' = Visible
    BY <2>1 DEF StoreKept, Visible
  <2>3. ASSUME NEW u \in Threads \ {t}
        PROVE  /\ Inserting(u)' <=> Inserting(u)
               /\ Inserting(u) => frame'[u] = frame[u]
               /\ pc'[u] \in {"log", "sync"} => frame'[u].inserted = 0
    <3>1. CASE pc[u] \in Leading \/ pc'[u] \in Leading
      BY <3>1, LeadersElsewhere DEF Inserting, NumberShape
    <3>2. CASE pc[u] \notin Leading /\ pc'[u] \notin Leading
      BY <3>2 DEF Inserting, Leading
    <3> QED
      BY <3>1, <3>2
  <2>4. /\ ~Inserting(t)
        /\ Inserting(t)' \/ pc'[t] \in {"log", "sync"} => frame'[t].inserted = 0
    BY <1>3, OwnNumbers
  <2>5. NumberShape' /\ NumbersDiffer'
    <3>1. \A u \in Threads : Inserting(u) =>
            Inserting(u)' /\ frame'[u].inserted = frame[u].inserted
                          /\ frame'[u].record = frame[u].record
      BY <2>3, <2>4
    <3>2. \A u \in Threads : Inserting(u)' => Inserting(u) \/ frame'[u].inserted = 0
      BY <2>3, <2>4
    <3>3. \A u \in Threads : pc'[u] \in {"log", "sync"} => frame'[u].inserted = 0
      BY <2>3, <2>4
    <3> QED
      BY <2>1, <3>1, <3>2, <3>3, NumbersStay
  <2> QED
    BY <2>2, <2>5
<1> QED
  BY <1>1, <1>2, <1>3

LEMMA BackgroundNumbers ==
    ASSUME QueueInv, StorageInv, NumberShape, NumbersDiffer, BGStep \/ UNCHANGED vars
    PROVE  NumberShape' /\ NumbersDiffer' /\ Visible' = Visible
<1>1. StoreKept
  BY BackgroundStore
<1>2. /\ UNCHANGED <<pc, hist, writers_>>
      /\ \A u \in Threads : pc[u] \in InWrite => frame'[u] = frame[u]
  BY BackgroundElsewhere
<1>3. \A u \in Threads : /\ Inserting(u)' <=> Inserting(u)
                         /\ Inserting(u) => frame'[u] = frame[u]
                         /\ pc'[u] \in {"log", "sync"} => frame'[u].inserted = 0
  BY <1>2 DEF Inserting, InWrite, Leading, NumberShape
<1>4. NumberShape' /\ NumbersDiffer'
  BY <1>1, <1>3, NumbersStay
<1> QED
  BY <1>1, <1>4 DEF StoreKept, Visible

-----------------------------------------------------------------------------
(* Who has which call *)

LEMMA HistShape ==
    ASSUME StatusInv
    PROVE  /\ hist \in Seq(Call) /\ DOMAIN hist = 1 .. Len(hist) /\ Len(hist) \in Nat
           /\ \A c \in DOMAIN hist : hist[c] \in Call
<1>1. hist \in Seq(Call)
  BY DEF StatusInv, CallShape
<1> QED
  BY <1>1

(* A call begins (lines 1206-1211). *)
Begins(t) ==
    /\ pc[t] = "idle" /\ frame'[t].call = Len(hist) + 1 /\ ~frame'[t].done
    /\ writers_' = Append(writers_, t)
    /\ DOMAIN hist' = DOMAIN hist \union {Len(hist) + 1}
    /\ \A c \in DOMAIN hist : hist'[c] = hist[c]
    /\ hist'[Len(hist) + 1].result = "pending"

LEMMA WriteBegins ==
    ASSUME QueueInv, StatusInv, NEW t \in Threads, NEW r \in Requests, Write(t, r)
    PROVE  Begins(t)
<1> DEFINE new == [op |-> r.op, updates |-> r.updates, sync |-> r.sync,
                   afterError |-> bg_error_, result |-> "pending"]
<1>1. /\ pc[t] = "idle" /\ frame'[t].call = Len(hist) + 1 /\ ~frame'[t].done
      /\ writers_' = Append(writers_, t)
      /\ hist' = Append(hist, new) /\ new.result = "pending"
  BY DEF Write, QueueInv, QueueShape, Idle
<1> HIDE DEF new
<1> QED
  BY <1>1, HistShape DEF Begins

(* It ends, and its thread is no writer any more.                          *)
Ends(t) ==
    /\ TurnDone(t) \/ Pop(t)
    /\ pc[t] \in InWrite /\ pc'[t] \notin InWrite
    /\ DOMAIN hist' = DOMAIN hist
    /\ \A c \in DOMAIN hist \ {frame[t].call} : hist'[c] = hist[c]

LEMMA EndsCall ==
    ASSUME QueueInv, StatusInv, NEW t \in Threads, TurnDone(t) \/ Pop(t)
    PROVE  Ends(t)
<1>1. /\ pc[t] \in InWrite /\ pc'[t] \in {"idle", "flush"}
      /\ hist' = [hist EXCEPT ![frame[t].call].result = frame[t].status]
  BY DEF TurnDone, Pop, AfterWrite, InWrite, Leading, QueueInv, QueueShape
<1>2. pc'[t] \notin InWrite
  BY <1>1 DEF InWrite, Leading
<1> QED
  BY <1>1, <1>2, HistShape DEF Ends

(* In between it is the same.                                              *)
LEMMA SameCallBetween ==
    ASSUME QueueInv, NEW t \in Threads, ClientStep(t),
           ~\E r \in Requests : Write(t, r), ~TurnDone(t), ~Pop(t)
    PROVE  /\ UNCHANGED <<hist, writers_>>
           /\ pc'[t] \in InWrite => pc[t] \in InWrite
           /\ pc[t] \in InWrite => frame'[t].call = frame[t].call
           /\ pc'[t] = "turn" => ~frame'[t].done
<1>1. UNCHANGED <<hist, writers_>>
  BY DEF ClientStep, CompactRange, Close, Step, TurnWait, TurnLead, RoomError,
     RoomDelay, RoomFits, RoomWait, RoomNoLog, RoomSwitch, LeaveRoom, BuildGroup, NoGroup,
     AddRecord, AddRecordFails, Sync, SyncFails, InsertUpdate, Relock, FlushStep,
     ManualWait, ManualReturn, CloseStep, threadVars
<1>2. CASE CompactRange(t) \/ Close(t) \/ FlushStep(t) \/ ManualWait(t) \/ ManualReturn(t)
           \/ CloseStep(t)
  <2>1. pc[t] \in Outside /\ pc'[t] \in Outside
    BY <1>2 DEF CompactRange, Close, FlushStep, ManualWait, ManualReturn, CloseStep, Outside,
                QueueInv, QueueShape, threadVars
  <2> QED
    BY <1>1, <2>1 DEF Outside, InWrite, Leading
<1>3. CASE TurnWait(t)
  BY <1>1, <1>3 DEF TurnWait, threadVars, InWrite
<1>4. CASE TurnLead(t) \/ RoomError(t) \/ RoomDelay(t) \/ RoomFits(t) \/ RoomWait(t)
           \/ RoomNoLog(t) \/ RoomSwitch(t)
  <2>1. /\ pc[t] \in {"turn", "room"} /\ pc'[t] \in {"room", "group"}
        /\ frame'[t].call = frame[t].call
    BY <1>4 DEF TurnLead, RoomError, RoomDelay, RoomFits, RoomWait, RoomNoLog, RoomSwitch,
                SwitchDue, InRoom, LeaveRoom, QueueInv, QueueShape, Idle, threadVars
  <2> QED
    BY <1>1, <2>1 DEF InWrite, Leading
<1>5. CASE BuildGroup(t)
  <2>1. /\ pc[t] = "group" /\ pc'[t] = "log"
        /\ \E last, record :
             frame' = [frame EXCEPT ![t].last_writer = last, ![t].record = record]
    BY <1>5 DEF BuildGroup, QueueInv, QueueShape
  <2>2. frame'[t].call = frame[t].call
    BY <2>1 DEF QueueInv, QueueShape, Idle
  <2> QED
    BY <1>1, <2>1, <2>2 DEF InWrite, Leading
<1>6. CASE NoGroup(t) \/ AddRecord(t) \/ AddRecordFails(t) \/ Sync(t) \/ SyncFails(t)
           \/ InsertUpdate(t) \/ Relock(t)
  <2>1. /\ pc[t] \in {"group", "log", "sync", "insert", "relock"} /\ pc'[t] # "turn"
        /\ frame'[t].call = frame[t].call
    BY <1>6 DEF NoGroup, AddRecord, AddRecordFails, Sync, SyncFails, InsertUpdate, Relock,
                QueueInv, QueueShape, Idle
  <2> QED
    BY <1>1, <2>1 DEF InWrite, Leading
<1> QED
  BY <1>2, <1>3, <1>4, <1>5, <1>6 DEF ClientStep, Step

LEMMA ClientCalls ==
    ASSUME QueueInv, StatusInv, CallsApart, NEW t \in Threads, ClientStep(t)
    PROVE  CallsApart'
<1>1. \A u \in Threads \ {t} : pc'[u] = pc[u] /\ frame'[u].call = frame[u].call
  BY Elsewhere
<1>2. \A u \in Threads : pc[u] \in InWrite => frame[u].call \in DOMAIN hist
  BY DEF StatusInv, CallShape
<1>3. CASE \E r \in Requests : Write(t, r)
  <2>1. Begins(t)
    BY <1>3, WriteBegins
  <2>2. Len(hist) + 1 \notin DOMAIN hist
    BY HistShape
  <2>3. /\ frame'[t].call = Len(hist) + 1
        /\ hist'[Len(hist) + 1].result = "pending"
        /\ \A c \in DOMAIN hist : hist'[c] = hist[c]
    BY <2>1 DEF Begins
  <2> QED
    BY <1>1, <1>2, <2>2, <2>3 DEF CallsApart
<1>4. CASE TurnDone(t) \/ Pop(t)
  <2>1. Ends(t)
    BY <1>4, EndsCall
  <2> QED
    BY <1>1, <1>2, <2>1 DEF Ends, CallsApart
<1>5. CASE ~(\E r \in Requests : Write(t, r)) /\ ~TurnDone(t) /\ ~Pop(t)
  <2>1. /\ hist' = hist
        /\ pc'[t] \in InWrite => pc[t] \in InWrite
        /\ pc[t] \in InWrite => frame'[t].call = frame[t].call
    BY <1>5, SameCallBetween
  <2> QED
    BY <1>1, <2>1 DEF CallsApart
<1> QED
  BY <1>3, <1>4, <1>5

-----------------------------------------------------------------------------
(* Batches become visible as a whole *)

LEMMA CallOfUpdate ==
    ASSUME NEW c, NEW u \in Updates(c)
    PROVE  u.call = c
<1>1. PICK k \in 1 .. hist[c].updates : u = UpdatesOf(c)[k]
  BY DEF Updates
<1>2. UpdatesOf(c)[k] = [call |-> c, k |-> k]
  BY DEF UpdatesOf
<1> QED
  BY <1>1, <1>2

(* The calls that a leader publishes are those of its group. *)
LEMMA PublishedCalls ==
    ASSUME QueueInv, StatusInv, NEW t \in Threads, Publishes(t), NEW c, Seen(c)', ~Seen(c)
    PROVE  \E i \in DOMAIN writers_ :
             /\ InGroup(t, i) /\ writers_[i] \in Threads /\ pc[writers_[i]] \in InWrite
             /\ c = frame[writers_[i]].call /\ c \in DOMAIN hist /\ hist[c].updates # 0
<1>1. PICK e \in Visible' : e.update.call = c
  BY DEF Seen
<1>2. PICK k \in DOMAIN frame[t].record : e.update = frame[t].record[k]
  BY <1>1 DEF Publishes, Seen
<1>3. PICK i \in DOMAIN writers_ :
        InGroup(t, i) /\ frame[t].record[k] \in Updates(frame[writers_[i]].call)
  BY DEF Publishes, GroupHeld
<1>4. writers_[i] \in Threads /\ pc[writers_[i]] \in InWrite
  BY DEF QueueInv, QueueShape, OneLogger, InQueue, InWrite
<1>5. frame[writers_[i]].call \in DOMAIN hist
  BY <1>4 DEF StatusInv, CallShape
<1>6. e.update \in Updates(frame[writers_[i]].call)
  BY <1>2, <1>3
<1>7. c = frame[writers_[i]].call
  BY <1>1, <1>6, CallOfUpdate
<1>8. hist[c].updates # 0
  <2>1. hist[c].updates \in Nat /\ 1 .. hist[c].updates # {}
    BY <1>5, <1>6, <1>7, HistShape DEF Updates, Call
  <2> QED
    BY <2>1
<1> QED
  BY <1>3, <1>4, <1>5, <1>7, <1>8

LEMMA ClientSeenWhole ==
    ASSUME QueueInv, StatusInv, SeenWhole, NEW t \in Threads, HistKept,
           Visible' = Visible \/ Publishes(t)
    PROVE  SeenWhole'
<1> SUFFICES ASSUME NEW e \in Visible'
             PROVE  /\ e.update.call \in DOMAIN hist'
                    /\ \A u \in Updates(e.update.call)' : \E f \in Visible' : f.update = u
  BY DEF SeenWhole
<1>1. Visible \subseteq Visible'
  BY DEF Publishes
<1>2. CASE Seen(e.update.call)
  <2>1. PICK f \in Visible : f.update.call = e.update.call
    BY <1>2 DEF Seen
  <2>2. /\ e.update.call \in DOMAIN hist
        /\ \A u \in Updates(e.update.call) : \E g \in Visible : g.update = u
    BY <2>1 DEF SeenWhole
  <2> QED
    BY <1>1, <2>2, SameUpdates DEF HistKept
<1>3. CASE ~Seen(e.update.call)
  <2>1. Publishes(t) /\ Seen(e.update.call)'
    BY <1>3 DEF Seen
  <2>2. PICK i \in DOMAIN writers_ :
          InGroup(t, i) /\ e.update.call = frame[writers_[i]].call /\ e.update.call \in DOMAIN hist
    BY <1>3, <2>1, PublishedCalls
  <2>3. \A u \in Updates(e.update.call) : \E k \in DOMAIN frame[t].record : frame[t].record[k] = u
    BY <2>1, <2>2 DEF Publishes, GroupHeld
  <2> QED
    BY <2>1, <2>2, <2>3, SameUpdates DEF Publishes, HistKept
<1> QED
  BY <1>2, <1>3

(* A leader that published has its group in the queue until it takes it    *)
(* out; who enters meanwhile is unseen.                                    *)
LEMMA ClientQueueUnseen ==
    ASSUME QueueInv, StatusInv, CallsApart, SeenWhole, QueueUnseen,
           NEW t \in Threads, ClientStep(t), Visible' = Visible \/ Publishes(t)
    PROVE  QueueUnseen'
<1>1. ASSUME NEW u \in Threads, u # t
      PROVE  /\ pc'[u] = pc[u] /\ frame'[u].call = frame[u].call
             /\ pc[u] = "pop" => frame'[u] = frame[u]
  <2>1. pc'[u] = pc[u] /\ frame'[u].call = frame[u].call
    BY <1>1, Elsewhere
  <2>2. pc[u] \in Leading => frame'[u] = frame[u]
    BY <1>1, LeadersElsewhere
  <2> QED
    BY <2>1, <2>2 DEF Leading
<1>2. /\ writers_ \in Seq(Threads) /\ DOMAIN writers_ = 1 .. Len(writers_) /\ Len(writers_) \in Nat
      /\ \A i \in DOMAIN writers_ : /\ writers_[i] \in Threads /\ pc[writers_[i]] \in InWrite
                                   /\ frame[writers_[i]].call \in DOMAIN hist
  <2>1. writers_ \in Seq(Threads)
    BY DEF QueueInv, QueueShape
  <2>2. \A i \in DOMAIN writers_ : writers_[i] \in Threads /\ pc[writers_[i]] \in InWrite
    BY <2>1 DEF QueueInv, OneLogger, InQueue, InWrite
  <2> QED
    BY <2>1, <2>2 DEF StatusInv, CallShape
<1>3. CASE Publishes(t)
  <2>1. /\ pc[t] = "relock" /\ pc'[t] = "pop" /\ frame[t].status = "ok"
        /\ UNCHANGED <<frame, writers_>>
    BY <1>3 DEF Publishes, Relock, Writing, QueueInv, QueueShape
  <2> SUFFICES ASSUME NEW i \in DOMAIN writers_, Seen(frame[writers_[i]].call)'
               PROVE  Acknowledging(i)'
    BY <2>1 DEF QueueUnseen
  <2>2. PICK c : c = frame[writers_[i]].call
    OBVIOUS
  <2>3. Seen(c)' /\ ~Seen(c)
    <3>1. Seen(c)'
      BY <2>1, <2>2 DEF Seen
    <3>2. ~Acknowledging(i)
      BY <2>1, OneLeader DEF Acknowledging, Leading
    <3> QED
      BY <2>2, <3>1, <3>2 DEF QueueUnseen
  <2>4. PICK j \in DOMAIN writers_ : InGroup(t, j) /\ c = frame[writers_[j]].call
    BY <1>3, <2>3, PublishedCalls
  <2>5. i = j
    <3>1. writers_[i] = writers_[j]
      BY <1>2, <2>2, <2>4 DEF CallsApart
    <3> QED
      BY <2>4, <3>1 DEF QueueInv, OneLogger
  <2>6. InGroup(t, i)'
    BY <2>1, <2>4, <2>5 DEF InGroup
  <2> QED
    BY <2>1, <2>6 DEF Acknowledging
<1>4. CASE \E r \in Requests : Write(t, r) /\ Visible' = Visible
  <2>1. Begins(t) /\ Visible' = Visible
    BY <1>4, WriteBegins
  <2>2. /\ pc[t] = "idle" /\ frame'[t].call = Len(hist) + 1 /\ writers_' = Append(writers_, t)
        /\ \A c : Seen(c)' <=> Seen(c)
    BY <2>1 DEF Begins, Seen
  <2>3. /\ DOMAIN writers_' = 1 .. (Len(writers_) + 1) /\ writers_'[Len(writers_) + 1] = t
        /\ \A i \in DOMAIN writers_ : i \in DOMAIN writers_' /\ writers_'[i] = writers_[i]
        /\ \A i \in DOMAIN writers_' : i \in DOMAIN writers_ \/ i = Len(writers_) + 1
    BY <1>2, <2>2
  <2> SUFFICES ASSUME NEW i \in DOMAIN writers_', Seen(frame[writers_[i]].call)'
               PROVE  Acknowledging(i)'
    BY DEF QueueUnseen
  <2>4. Seen(frame'[writers_'[i]].call)
    BY <2>2
  <2>5. CASE i \in DOMAIN writers_
    <3>1. writers_'[i] = writers_[i] /\ writers_[i] # t
      BY <1>2, <2>2, <2>3, <2>5 DEF InWrite, Leading
    <3>2. Acknowledging(i)
      <4>1. frame'[writers_'[i]].call = frame[writers_[i]].call
        BY <1>1, <1>2, <2>5, <3>1
      <4> QED
        BY <2>4, <2>5, <4>1 DEF QueueUnseen
    <3>3. PICK u \in Threads : pc[u] = "pop" /\ frame[u].status = "ok" /\ InGroup(u, i)
      BY <3>2 DEF Acknowledging
    <3>4. pc'[u] = "pop" /\ frame'[u] = frame[u]
      BY <1>1, <2>2, <3>3
    <3>5. InGroup(u, i)'
      BY <2>3, <3>3, <3>4 DEF InGroup
    <3> QED
      BY <3>3, <3>4, <3>5 DEF Acknowledging
  <2>6. CASE i = Len(writers_) + 1
    <3>1. Seen(Len(hist) + 1)
      BY <2>2, <2>3, <2>4, <2>6
    <3>2. Len(hist) + 1 \in DOMAIN hist
      BY <3>1 DEF Seen, SeenWhole
    <3> QED
      BY <3>2, HistShape
  <2> QED
    BY <2>3, <2>5, <2>6
<1>5. CASE Pop(t) /\ Visible' = Visible
  <2> DEFINE n == GroupSize(t)
  <2>1. pc[t] = "pop" /\ writers_' = SubSeq(writers_, n + 1, Len(writers_))
        /\ \A c : Seen(c)' <=> Seen(c)
    BY <1>5 DEF Pop, LeftInQueue, Seen
  <2>2. n \in DOMAIN writers_ /\ writers_[n] = frame[t].last_writer
    <3>1. InQueue(frame[t].last_writer)
      BY <2>1 DEF QueueInv, GroupInQueue, Committed
    <3> QED
      BY <3>1 DEF InQueue, GroupSize
  <2>3. writers_[1] = t /\ 1 \in DOMAIN writers_
    BY <1>2, <2>1 DEF QueueInv, OneLogger, Leading
  <2> HIDE DEF n
  <2>4. \A i \in DOMAIN writers_' : i \in Nat /\ i >= 1 /\ i + n \in DOMAIN writers_
                                   /\ writers_'[i] = writers_[i + n]
    BY <1>2, <2>1, <2>2
  <2> SUFFICES ASSUME NEW i \in DOMAIN writers_', Seen(frame[writers_[i]].call)' PROVE FALSE
    BY DEF QueueUnseen
  <2>5. n \in Nat /\ n >= 1 /\ i + n # 1 /\ i + n > n
    BY <1>2, <2>2, <2>4
  <2>6. writers_'[i] = writers_[i + n] /\ i + n \in DOMAIN writers_ /\ writers_[i + n] # t
    BY <2>3, <2>4, <2>5 DEF QueueInv, OneLogger
  <2>7. Seen(frame[writers_[i + n]].call)
    <3>1. frame'[writers_'[i]].call = frame[writers_[i + n]].call
      BY <1>1, <1>2, <2>6
    <3> QED
      BY <2>1, <3>1
  <2>8. Acknowledging(i + n)
    BY <2>6, <2>7 DEF QueueUnseen
  <2>9. InGroup(t, i + n)
    BY <2>1, <2>8, OneLeader DEF Acknowledging, Leading
  <2>10. PICK j \in DOMAIN writers_ : i + n <= j /\ writers_[j] = frame[t].last_writer
    BY <2>9 DEF InGroup
  <2>11. j = n
    BY <2>2, <2>10 DEF QueueInv, OneLogger
  <2> QED
    BY <2>4, <2>5, <2>10, <2>11
<1>6. CASE ~(\E r \in Requests : Write(t, r)) /\ ~Pop(t) /\ Visible' = Visible
  <2>1. writers_' = writers_ /\ \A c : Seen(c)' <=> Seen(c)
    <3>1. writers_' = writers_
      BY <1>6, SameCallBetween DEF TurnDone
    <3> QED
      BY <1>6, <3>1 DEF Seen
  <2> SUFFICES ASSUME NEW i \in DOMAIN writers_, Seen(frame[writers_[i]].call)'
               PROVE  Acknowledging(i)'
    BY <2>1 DEF QueueUnseen
  <2>2. frame'[writers_[i]].call = frame[writers_[i]].call
    <3>1. CASE writers_[i] # t
      BY <1>1, <1>2, <3>1
    <3>2. CASE writers_[i] = t
      <4>1. ~TurnDone(t) /\ InQueue(t)
        BY <3>2 DEF InQueue, TurnDone, QueueInv, OneLogger, Leading
      <4> QED
        BY <1>2, <1>6, <3>2, <4>1, SameCallBetween
    <3> QED
      BY <3>1, <3>2
  <2>3. Acknowledging(i)
    BY <2>1, <2>2 DEF QueueUnseen
  <2>4. PICK u \in Threads : pc[u] = "pop" /\ frame[u].status = "ok" /\ InGroup(u, i)
    BY <2>3 DEF Acknowledging
  <2>5. u # t
    BY <1>6, <2>4 DEF ClientStep, CompactRange, Close, Step, TurnDone, TurnWait, TurnLead,
       RoomError, RoomDelay, RoomFits, RoomWait, RoomNoLog, RoomSwitch, SwitchDue, InRoom,
       BuildGroup, NoGroup, AddRecord, AddRecordFails, Sync, SyncFails, InsertUpdate, Relock,
       FlushStep, ManualWait, ManualReturn, CloseStep
  <2>6. pc'[u] = "pop" /\ frame'[u] = frame[u]
    BY <1>1, <2>4, <2>5
  <2>7. InGroup(u, i)'
    BY <2>1, <2>4, <2>6 DEF InGroup
  <2> QED
    BY <2>4, <2>6, <2>7 DEF Acknowledging
<1> QED
  BY <1>3, <1>4, <1>5, <1>6

(* A follower is told of the error that its leader met; its updates are in *)
(* no store.                                                               *)
LEMMA ClientFailedUnseen ==
    ASSUME QueueInv, StatusInv, CallsApart, QueueUnseen, FailedUnseen,
           NEW t \in Threads, ClientStep(t), Visible' = Visible \/ Publishes(t)
    PROVE  FailedUnseen'
<1> SUFFICES ASSUME NEW u \in Threads, pc'[u] = "turn", frame'[u].done,
                    frame'[u].status = "error", Seen(frame[u].call)'
             PROVE  FALSE
  BY DEF FailedUnseen
<1>1. u # t
  <2>1. CASE \E r \in Requests : Write(t, r)
    BY <2>1, WriteBegins DEF Begins
  <2>2. CASE TurnDone(t) \/ Pop(t)
    BY <2>2, EndsCall DEF Ends, InWrite
  <2>3. CASE ~(\E r \in Requests : Write(t, r)) /\ ~TurnDone(t) /\ ~Pop(t)
    BY <2>3, SameCallBetween
  <2> QED
    BY <2>1, <2>2, <2>3
<1>2. /\ pc[u] = "turn" /\ frame'[u].call = frame[u].call /\ pc[u] \in InWrite
      /\ frame'[u] = frame[u] \/ (Pop(t) /\ u \in Followers(t))
  BY <1>1, Elsewhere DEF InWrite
<1>3. PICK c : c = frame[u].call
  OBVIOUS
<1>4. Seen(c)'
  BY <1>2, <1>3 DEF Seen
<1>5. CASE frame'[u] = frame[u]
  <2>1. ~Seen(c)
    BY <1>2, <1>3, <1>5 DEF FailedUnseen
  <2>2. Publishes(t)
    BY <1>4, <2>1 DEF Seen
  <2>3. PICK j \in DOMAIN writers_ : /\ writers_[j] \in Threads /\ pc[writers_[j]] \in InWrite
                                     /\ c = frame[writers_[j]].call
    BY <1>4, <2>1, <2>2, PublishedCalls
  <2>4. u = writers_[j]
    BY <1>2, <1>3, <2>3 DEF CallsApart
  <2>5. InQueue(u)
    BY <2>4 DEF InQueue
  <2> QED
    BY <1>2, <1>5, <2>5 DEF QueueInv, OneLogger, Leading
<1>6. CASE Pop(t) /\ u \in Followers(t)
  <2>1. pc[t] = "pop" /\ frame[t].status = "error"
    BY <1>1, <1>6 DEF Pop, FollowerStatus, QueueInv, QueueShape, Idle
  <2>2. Seen(c)
    BY <1>4, <2>1 DEF Publishes, Relock, Seen
  <2>3. PICK i \in DOMAIN writers_ : u = writers_[i]
    <3>1. PICK i \in 2 .. GroupSize(t) : u = writers_[i]
      BY <1>6 DEF Followers
    <3>2. InQueue(frame[t].last_writer)
      BY <2>1 DEF QueueInv, GroupInQueue, Committed
    <3>3. GroupSize(t) \in DOMAIN writers_
      BY <3>2 DEF InQueue, GroupSize
    <3>4. DOMAIN writers_ = 1 .. Len(writers_) /\ Len(writers_) \in Nat
      BY DEF QueueInv, QueueShape
    <3>5. i \in DOMAIN writers_
      BY <3>3, <3>4
    <3> QED
      BY <3>1, <3>5
  <2>4. Acknowledging(i)
    BY <1>3, <2>2, <2>3 DEF QueueUnseen
  <2> QED
    BY <2>1, <2>4, OneLeader DEF Acknowledging, Leading
<1> QED
  BY <1>2, <1>5, <1>6

LEMMA BackgroundBatches ==
    ASSUME QueueInv, StorageInv, BatchInv, BGStep \/ UNCHANGED vars
    PROVE  BatchInv'
<1>1. NumberShape' /\ NumbersDiffer' /\ Visible' = Visible
  BY BackgroundNumbers DEF BatchInv
<1>2. /\ UNCHANGED <<pc, hist, writers_>>
      /\ \A u \in Threads : pc[u] \in InWrite => frame'[u] = frame[u]
  BY BackgroundElsewhere
<1>3. \A c : Seen(c)' <=> Seen(c)
  BY <1>1 DEF Seen
<1>4. CallsApart'
  BY <1>2 DEF BatchInv, CallsApart
<1>5. SeenWhole'
  <2>1. HistKept /\ DOMAIN hist' = DOMAIN hist
    BY <1>2 DEF HistKept
  <2>2. \A c \in DOMAIN hist : Updates(c)' = Updates(c)
    BY <2>1, SameUpdates
  <2> QED
    BY <1>1, <2>1, <2>2 DEF BatchInv, SeenWhole
<1>6. QueueUnseen'
  <2> SUFFICES ASSUME NEW i \in DOMAIN writers_, Seen(frame[writers_[i]].call)'
               PROVE  Acknowledging(i)'
    BY <1>2 DEF QueueUnseen
  <2>1. writers_[i] \in Threads /\ pc[writers_[i]] \in InWrite
    BY DEF QueueInv, QueueShape, OneLogger, InQueue, InWrite
  <2>2. Seen(frame'[writers_[i]].call) /\ frame'[writers_[i]] = frame[writers_[i]]
    BY <1>2, <1>3, <2>1
  <2>3. PICK u \in Threads : pc[u] = "pop" /\ frame[u].status = "ok" /\ InGroup(u, i)
    BY <2>2 DEF BatchInv, QueueUnseen, Acknowledging
  <2>4. frame'[u] = frame[u]
    BY <1>2, <2>3 DEF InWrite, Leading
  <2>5. InGroup(u, i)'
    BY <1>2, <2>3, <2>4 DEF InGroup
  <2> QED
    BY <1>2, <2>3, <2>4, <2>5 DEF Acknowledging
<1>7. FailedUnseen'
  BY <1>2, <1>3 DEF BatchInv, FailedUnseen, InWrite
<1> QED
  BY <1>1, <1>4, <1>5, <1>6, <1>7 DEF BatchInv

LEMMA ClientBatches ==
    ASSUME NullIsNoMemtable, QueueInv, StatusInv, DurabilityInv, BatchInv,
           NEW t \in Threads, ClientStep(t)
    PROVE  BatchInv'
<1>1. NumberShape' /\ NumbersDiffer' /\ (Visible' = Visible \/ Publishes(t))
  BY ClientNumbers DEF DurabilityInv, BatchInv
<1>2. HistKept
  BY HistGrows
<1> QED
  BY <1>1, <1>2, ClientCalls, ClientSeenWhole, ClientQueueUnseen, ClientFailedUnseen
     DEF BatchInv

LEMMA BatchInit == Init => BatchInv
<1> SUFFICES ASSUME Init PROVE BatchInv
  OBVIOUS
<1>1. /\ \A t \in Threads : pc[t] = "idle"
      /\ mem_ = {} /\ imm_ = Null /\ tables = {} /\ writers_ = <<>>
  BY DEF Init
<1>2. Store = {} /\ Visible = {} /\ DOMAIN writers_ = {}
  BY <1>1 DEF Store, InMemory, Visible
<1> QED
  BY <1>1, <1>2 DEF BatchInv, CallsApart, InWrite, Leading, NumberShape, Inserting, NumbersDiffer,
     SeenWhole, QueueUnseen, FailedUnseen

LEMMA BatchInvariant ==
    ASSUME NullIsNoMemtable
    PROVE  Spec => [](QueueInv /\ StatusInv /\ DurabilityInv /\ BatchInv)
<1>1. QueueInv /\ StatusInv /\ DurabilityInv /\ BatchInv /\ [Next]_vars => BatchInv'
  <2> SUFFICES ASSUME QueueInv, StatusInv, DurabilityInv, BatchInv, [Next]_vars PROVE BatchInv'
    OBVIOUS
  <2>1. CASE BGStep \/ UNCHANGED vars
    BY <2>1, BackgroundBatches DEF DurabilityInv
  <2>2. CASE \E t \in Threads : ClientStep(t)
    BY <2>2, ClientBatches
  <2> QED
    BY <2>1, <2>2, StepKinds
<1> QED
  BY <1>1, BatchInit, StatusInvariant, DurabilityInvariant, PTL DEF Spec

(* A reader that takes LastSequence as its snapshot sees each batch as a   *)
(* whole or not at all, and no two updates share a sequence number, for    *)
(* any number of threads and any grouping of their writes, although a      *)
(* memtable grows one update at a time without the mutex.                  *)
THEOREM WholeBatchesAlways ==
    ASSUME NullIsNoMemtable
    PROVE  Spec => []WholeBatches
<1>1. BatchInv => WholeBatches
  <2> SUFFICES ASSUME BatchInv PROVE WholeBatches
    OBVIOUS
  <2>1. ASSUME NEW e \in Visible, NEW u \in Updates(e.update.call)
        PROVE  u \in {f.update : f \in Visible}
    BY DEF BatchInv, SeenWhole
  <2> QED
    BY <2>1 DEF WholeBatches, BatchInv, NumbersDiffer
<1> QED
  BY <1>1, BatchInvariant, PTL

-----------------------------------------------------------------------------
(* Write implements BatchStore, step by step *)

(* Stored updates are visible, but for those of the group that a leader is *)
(* inserting.                                                              *)
LEMMA StoredIsSeen ==
    ASSUME StatusInv, StorageInv, GroupWritten, NumberShape, NEW c \in DOMAIN hist,
           hist[c].updates # 0, \A u \in Updates(c) : Stored(u),
           \A t \in Threads : Inserting(t) =>
              \A i \in DOMAIN writers_ : frame[writers_[i]].call # c
    PROVE  Seen(c)
<1>1. PICK u \in Updates(c) : TRUE
  <2>1. hist[c].updates \in Nat
    BY HistShape DEF Call
  <2>2. 1 \in 1 .. hist[c].updates
    BY <2>1
  <2> QED
    BY <2>2 DEF Updates
<1>2. PICK e \in Store : e.update = u
  BY <1>1 DEF Stored
<1>3. ~Ahead(e)
  <2> SUFFICES ASSUME NEW t \in Threads, Inserting(t), NEW k \in 1 .. frame[t].inserted,
                      e = Numbered(t, k)
               PROVE  FALSE
    BY DEF Ahead
  <2>1. /\ pc[t] \in {"insert", "relock"} /\ Writing(t) /\ Progress(t) /\ GroupHeld(t)
    BY DEF Inserting, GroupWritten, GroupOf, Putting
  <2>2. /\ frame[t].inserted \in Nat /\ Len(frame[t].record) \in Nat
        /\ DOMAIN frame[t].record = 1 .. Len(frame[t].record)
    <3>1. frame[t].record \in Seq(Update) /\ frame[t].inserted \in Nat
      BY <2>1 DEF StorageInv, MemShape, InWrite, Leading, Record
    <3> QED
      BY <3>1
  <2>3. frame[t].inserted <= Len(frame[t].record)
    BY <2>1, <2>2 DEF Progress
  <2>4. k \in DOMAIN frame[t].record /\ frame[t].record[k] = u
    BY <1>2, <2>2, <2>3 DEF Numbered
  <2>5. PICK i \in DOMAIN writers_ : u \in Updates(frame[writers_[i]].call)
    BY <2>1, <2>4 DEF GroupHeld
  <2>6. frame[writers_[i]].call = c
    BY <1>1, <2>5, CallOfUpdate
  <2> QED
    BY <2>6
<1>4. e \in Visible
  BY <1>3 DEF NumberShape, Visible
<1> QED
  BY <1>1, <1>2, <1>4, CallOfUpdate DEF Seen

LEMMA SeenCalls ==
    ASSUME NEW c
    PROVE  c \in {e.update.call : e \in Visible} <=> Seen(c)
  BY DEF Seen

(* Nothing happens to the calls, or one begins, ends or becomes visible.   *)
LEMMA StutterStep ==
    ASSUME hist' = hist, Visible' = Visible
    PROVE  UNCHANGED BS!vars
  BY DEF BS!vars

LEMMA CallStep ==
    ASSUME StatusInv, NEW t \in Threads, Begins(t), Visible' = Visible
    PROVE  BS!Call
<1> DEFINE n == Len(hist)
           results == [c \in DOMAIN hist |-> hist[c].result]
           results2 == [c \in DOMAIN hist' |-> hist'[c].result]
<1>1. DOMAIN hist = 1 .. n /\ n \in Nat
  BY HistShape
<1>2. /\ DOMAIN hist' = 1 .. (n + 1) /\ n + 1 \notin DOMAIN hist
      /\ \A c \in DOMAIN hist : hist'[c] = hist[c]
      /\ hist'[n + 1].result = "pending"
  BY <1>1 DEF Begins
<1>3. results \in Seq({"pending", "ok", "error"}) /\ Len(results) = n
  <2>1. \A c \in 1 .. n : hist[c].result \in {"pending", "ok", "error"}
    BY <1>1, HistShape DEF Call
  <2> QED
    BY <1>1, <2>1
<1>4. results2 = Append(results, "pending")
  <2> DEFINE a == Append(results, "pending")
  <2>1. a \in Seq({"pending", "ok", "error"}) /\ Len(a) = n + 1 /\ a[n + 1] = "pending"
        /\ \A c \in 1 .. n : a[c] = results[c]
    BY <1>1, <1>3
  <2>2. a = [c \in 1 .. (n + 1) |-> a[c]]
    BY <2>1
  <2>3. \A c \in 1 .. (n + 1) : results2[c] = a[c]
    BY <1>1, <1>2, <2>1
  <2> HIDE DEF a
  <2>4. results2 = [c \in 1 .. (n + 1) |-> a[c]]
    BY <1>2, <2>3
  <2> QED
    BY <2>2, <2>4 DEF a
<1>5. {c \in DOMAIN hist' : hist'[c].updates = 0}
        \in {{c \in DOMAIN hist : hist[c].updates = 0},
             {c \in DOMAIN hist : hist[c].updates = 0} \union {n + 1}}
  <2>1. CASE hist'[n + 1].updates = 0
    BY <1>1, <1>2, <2>1
  <2>2. CASE hist'[n + 1].updates # 0
    BY <1>1, <1>2, <2>2
  <2> QED
    BY <2>1, <2>2
<1>6. {e.update.call : e \in Visible'} = {e.update.call : e \in Visible}
  OBVIOUS
<1> QED
  BY <1>3, <1>4, <1>5, <1>6 DEF BS!Call

LEMMA ReturnStep ==
    ASSUME StatusInv, NEW c \in DOMAIN hist, hist[c].result = "pending",
           NEW status \in {"ok", "error"}, hist' = [hist EXCEPT ![c].result = status],
           Visible' = Visible,
           status = "ok" => Seen(c) \/ hist[c].updates = 0,
           status = "error" => ~Seen(c)
    PROVE  BS!ReturnOK \/ BS!ReturnError
<1> DEFINE results == [d \in DOMAIN hist |-> hist[d].result]
           results2 == [d \in DOMAIN hist' |-> hist'[d].result]
<1>1. /\ DOMAIN hist' = DOMAIN hist
      /\ \A d \in DOMAIN hist : /\ hist'[d].result = IF d = c THEN status ELSE hist[d].result
                                /\ hist'[d].updates = hist[d].updates
  <2>1. \A d \in DOMAIN hist :
          DOMAIN hist[d] = {"op", "updates", "sync", "afterError", "result"}
    BY HistShape DEF Call
  <2> QED
    BY <2>1
<1>2. results2 = [results EXCEPT ![c] = status]
  BY <1>1
<1>3. {d \in DOMAIN hist' : hist'[d].updates = 0} = {d \in DOMAIN hist : hist[d].updates = 0}
  BY <1>1
<1>4. {e.update.call : e \in Visible'} = {e.update.call : e \in Visible}
  OBVIOUS
<1>5. c \in BS!Pending
  BY DEF BS!Pending
<1>6. CASE status = "ok"
  <2>1. c \in {e.update.call : e \in Visible} \union {d \in DOMAIN hist : hist[d].updates = 0}
    BY <1>6, SeenCalls
  <2> QED
    BY <1>2, <1>3, <1>4, <1>5, <1>6, <2>1 DEF BS!ReturnOK
<1>7. CASE status = "error"
  <2>1. c \notin {e.update.call : e \in Visible}
    BY <1>7, SeenCalls
  <2> QED
    BY <1>2, <1>3, <1>4, <1>5, <1>7, <2>1 DEF BS!ReturnError
<1> QED
  BY <1>6, <1>7

LEMMA ApplyStep ==
    ASSUME QueueInv, StatusInv, CallsApart, NEW t \in Threads, Publishes(t)
    PROVE  BS!Apply
<1>1. hist' = hist
  BY DEF Publishes, Relock
<1> DEFINE now == {e.update.call : e \in Visible}
           next == {e.update.call : e \in Visible'}
<1>2. now \subseteq next
  BY DEF Publishes
<1>3. next \ now \in SUBSET (BS!Pending \ {c \in DOMAIN hist : hist[c].updates = 0})
  <2> SUFFICES ASSUME NEW c \in next, c \notin now
               PROVE  c \in DOMAIN hist /\ hist[c].result = "pending" /\ hist[c].updates # 0
    BY DEF BS!Pending
  <2>1. Seen(c)' /\ ~Seen(c)
    BY DEF Seen
  <2>2. PICK i \in DOMAIN writers_ :
          /\ writers_[i] \in Threads /\ pc[writers_[i]] \in InWrite
          /\ c = frame[writers_[i]].call /\ c \in DOMAIN hist /\ hist[c].updates # 0
    BY <2>1, PublishedCalls
  <2> QED
    BY <2>2 DEF CallsApart
<1>4. next = now \union (next \ now)
  BY <1>2
<1> QED
  BY <1>1, <1>3, <1>4 DEF BS!Apply

(* Who returns OK is seen, who returns an error is not. *)
LEMMA ReturnsMatch ==
    ASSUME QueueInv, StatusInv, DurabilityInv, BatchInv, NEW t \in Threads, TurnDone(t) \/ Pop(t)
    PROVE  /\ frame[t].status = "ok" => Seen(frame[t].call) \/ Batch(t).updates = 0
           /\ frame[t].status = "error" => ~Seen(frame[t].call)
<1> DEFINE c == frame[t].call
<1>1. /\ pc[t] \in InWrite /\ c \in DOMAIN hist /\ frame[t].status \in {"ok", "error"}
      /\ pc[t] = "turn" \/ pc[t] = "pop"
  BY DEF TurnDone, Pop, InWrite, Leading, StatusInv, CallShape
<1>2. CASE TurnDone(t)
  <2>1. pc[t] = "turn" /\ frame[t].done
    BY <1>2 DEF TurnDone
  <2>2. ASSUME frame[t].status = "ok", Batch(t).updates # 0 PROVE Seen(c)
    <3>1. Kept(c)
      BY <2>1, <2>2 DEF DurabilityInv, DoneKept
    <3>2. \A i \in DOMAIN writers_ : frame[writers_[i]].call # c
      <4> SUFFICES ASSUME NEW i \in DOMAIN writers_, frame[writers_[i]].call = c PROVE FALSE
        OBVIOUS
      <4>1. writers_[i] \in Threads /\ InQueue(writers_[i]) /\ pc[writers_[i]] \in InWrite
        BY DEF QueueInv, QueueShape, OneLogger, InQueue, InWrite
      <4>2. writers_[i] = t
        BY <1>1, <4>1 DEF BatchInv, CallsApart
      <4> QED
        BY <2>1, <4>1, <4>2 DEF QueueInv, OneLogger, Leading
    <3> QED
      BY <1>1, <3>1, <3>2, <2>2, StoredIsSeen DEF Kept, DurabilityInv, BatchInv, Batch
  <2>3. frame[t].status = "error" => ~Seen(c)
    BY <2>1 DEF BatchInv, FailedUnseen
  <2> QED
    BY <1>1, <2>2, <2>3
<1>3. CASE Pop(t)
  <2>1. pc[t] = "pop" /\ \A u \in Threads : pc[u] \in Leading => u = t
    BY <1>3, OneLeader DEF Pop, Leading
  <2>2. ASSUME frame[t].status = "ok", Batch(t).updates # 0 PROVE Seen(c)
    <3>1. Kept(c)
      BY <1>3, <2>2, GroupKept DEF DurabilityInv
    <3>2. \A u \in Threads : ~Inserting(u)
      BY <2>1 DEF Inserting, Leading
    <3> QED
      BY <1>1, <3>1, <3>2, <2>2, StoredIsSeen DEF Kept, DurabilityInv, BatchInv, Batch
  <2>3. ASSUME frame[t].status = "error" PROVE ~Seen(c)
    <3>1. 1 \in DOMAIN writers_ /\ writers_[1] = t
      <4>1. writers_ \in Seq(Threads) /\ writers_ # <<>> /\ Head(writers_) = t
        BY <2>1 DEF QueueInv, QueueShape, OneLogger, Leading
      <4> QED
        BY <4>1
    <3>2. ~Acknowledging(1)
      BY <2>1, <2>3 DEF Acknowledging, Leading
    <3> QED
      BY <3>1, <3>2 DEF BatchInv, QueueUnseen
  <2> QED
    BY <1>1, <2>2, <2>3
<1> QED
  BY <1>2, <1>3

LEMMA ClientRefines ==
    ASSUME NullIsNoMemtable, QueueInv, StatusInv, DurabilityInv, BatchInv,
           NEW t \in Threads, ClientStep(t)
    PROVE  [BS!Next]_(BS!vars)
<1>1. Visible' = Visible \/ Publishes(t)
  BY ClientNumbers DEF DurabilityInv, BatchInv
<1>2. CASE \E r \in Requests : Write(t, r)
  <2>1. Begins(t)
    BY <1>2, WriteBegins
  <2>2. Visible' = Visible
    BY <1>1, <2>1 DEF Begins, Publishes, Relock
  <2> QED
    BY <2>1, <2>2, CallStep DEF BS!Next
<1>3. CASE TurnDone(t) \/ Pop(t)
  <2> DEFINE c == frame[t].call
  <2>1. Visible' = Visible
    BY <1>1, <1>3 DEF TurnDone, Pop, Publishes, Relock
  <2>2. /\ c \in DOMAIN hist /\ hist[c].result = "pending"
        /\ frame[t].status \in {"ok", "error"}
        /\ hist' = [hist EXCEPT ![c].result = frame[t].status]
    BY <1>3 DEF TurnDone, Pop, InWrite, Leading, StatusInv, CallShape, BatchInv, CallsApart
  <2>3. /\ frame[t].status = "ok" => Seen(c) \/ hist[c].updates = 0
        /\ frame[t].status = "error" => ~Seen(c)
    BY <1>3, ReturnsMatch DEF Batch
  <2> QED
    BY <2>1, <2>2, <2>3, ReturnStep DEF BS!Next
<1>4. CASE ~(\E r \in Requests : Write(t, r)) /\ ~TurnDone(t) /\ ~Pop(t)
  <2>1. hist' = hist
    BY <1>4, SameCallBetween
  <2>2. CASE Visible' = Visible
    BY <2>1, <2>2, StutterStep
  <2>3. CASE Publishes(t)
    BY <2>3, ApplyStep DEF BS!Next, BatchInv
  <2> QED
    BY <1>1, <2>2, <2>3
<1> QED
  BY <1>2, <1>3, <1>4

(* Write keeps the promise of BatchStore, for any number of threads and    *)
(* any grouping: a batch becomes visible as a whole, at one instant        *)
(* between its call and its return, if and only if the call returns OK.    *)
THEOREM BatchesAreAtomicAlways ==
    ASSUME NullIsNoMemtable
    PROVE  Spec => BatchesAreAtomic
<1>1. Init => BS!Init
  <2> SUFFICES ASSUME Init PROVE BS!Init
    OBVIOUS
  <2>1. hist = <<>> /\ DOMAIN hist = {} /\ mem_ = {} /\ imm_ = Null /\ tables = {}
    BY DEF Init
  <2>2. Visible = {}
    BY <2>1 DEF Visible, Store, InMemory
  <2>3. [c \in DOMAIN hist |-> hist[c].result] = <<>>
    BY <2>1
  <2> QED
    BY <2>1, <2>2, <2>3 DEF BS!Init
<1>2. QueueInv /\ StatusInv /\ DurabilityInv /\ BatchInv /\ [Next]_vars => [BS!Next]_(BS!vars)
  <2> SUFFICES ASSUME QueueInv, StatusInv, DurabilityInv, BatchInv, [Next]_vars
               PROVE  [BS!Next]_(BS!vars)
    OBVIOUS
  <2>1. CASE BGStep \/ UNCHANGED vars
    <3>1. hist' = hist /\ Visible' = Visible
      BY <2>1, BackgroundElsewhere, BackgroundNumbers DEF DurabilityInv, BatchInv
    <3> QED
      BY <3>1, StutterStep
  <2>2. CASE \E t \in Threads : ClientStep(t)
    BY <2>2, ClientRefines
  <2> QED
    BY <2>1, <2>2, StepKinds
<1> QED
  BY <1>1, <1>2, BatchInvariant, PTL DEF Spec, BatchesAreAtomic, BS!Spec

-----------------------------------------------------------------------------
(* Types *)

BgType == [pc: {"idle", "build", "apply", "unlink", "compact", "install",
                "move", "cleanup", "crashed"},
           inner: BOOLEAN, manual: BOOLEAN, inputs: Nat, log: Nat, doomed: SUBSET Nat]

(* The files a compaction has as inputs are in level 0 until it takes them *)
(* away: only the background thread removes files of level 0.              *)
CompactionShape ==
    /\ bg \in BgType /\ l0 \in Nat
    /\ bg.pc \notin {"cleanup", "crashed"} => bg.inputs <= l0

(* A manual compaction under way is of the request that is registered, and *)
(* no later one takes its place: once it is cancelled there is an error or *)
(* the database closes, and requests are refused.                          *)
RequestOpen ==
    bg.manual => \/ manual_compaction_ = NoThread /\ (bg_error_ \/ shutting_down_)
                 \/ manual_compaction_ # NoThread /\ frame[manual_compaction_].left > 0

(* The other types. *)
ThreadShape ==
    /\ mutex \in Threads \union {NoThread, BG}
    /\ frame \in [Threads -> Frame]
    /\ cvWaiting \subseteq Threads /\ workWaiting \subseteq Threads
    /\ imm_ = Null \/ imm_ \subseteq Entry
    /\ tables \subseteq Entry
    /\ {scheduled, shutting_down_} \subseteq BOOLEAN
    /\ manuals \in Nat

TypeInv == ThreadShape /\ CompactionShape /\ RequestOpen

(* With the invariants above these are all the types.                     *)
LEMMA TypesSuffice ==
    ASSUME QueueInv, StatusInv, DurabilityInv, TypeInv
    PROVE  TypeOK
<1>1. /\ pc \in [Threads -> PC] /\ writers_ \in Seq(Threads)
      /\ manual_compaction_ \in Threads \union {NoThread}
  BY DEF QueueInv, QueueShape
<1>2. /\ hist \in Seq([op: {"write", "flush"}, updates: Nat, sync: BOOLEAN,
                       afterError: BOOLEAN, result: {"pending", "ok", "error"}])
      /\ bg_error_ \in BOOLEAN
  BY DEF StatusInv, CallShape, Call
<1>3. /\ logfile_number_ \in DOMAIN logs /\ DOMAIN logs \subseteq Nat
      /\ \A n \in DOMAIN logs : logs[n] \in Seq(Record) /\ synced[n] \in 0 .. Len(logs[n])
      /\ DOMAIN synced = DOMAIN logs
      /\ nextLog \in Nat /\ logNumber \in Nat /\ lastSequence \in Nat /\ mem_ \subseteq Entry
  BY DEF DurabilityInv, StorageInv, LogShape, MemShape
<1>4. /\ mutex \in Threads \union {NoThread, BG} /\ frame \in [Threads -> Frame]
      /\ cvWaiting \subseteq Threads /\ workWaiting \subseteq Threads
      /\ imm_ = Null \/ imm_ \subseteq Entry
      /\ tables \subseteq Entry
      /\ {scheduled, shutting_down_} \subseteq BOOLEAN
      /\ manuals \in Nat
  BY DEF TypeInv, ThreadShape
<1>5. /\ l0 \in Nat
      /\ bg \in [pc: {"idle", "build", "apply", "unlink", "compact", "install",
                      "move", "cleanup", "crashed"},
                 inner: BOOLEAN, manual: BOOLEAN, inputs: Nat, log: Nat, doomed: SUBSET Nat]
  BY DEF TypeInv, CompactionShape, BgType
<1>6. {bg_error_, scheduled, shutting_down_} \subseteq BOOLEAN
  BY <1>2, <1>4, Zenon
<1> QED
  BY <1>1, <1>2, <1>3, <1>4, <1>5, <1>6, Zenon DEF TypeOK

(* The locals of a thread and of the background thread between calls.     *)
LEMMA IdleTyped == Idle \in Frame /\ BGIdle \in BgType
<1>1. <<>> \in Record
  BY DEF Record
<1> QED
  BY <1>1 DEF Idle, Frame, BGIdle, BgType

(* The locals of a thread, action by action. *)
LEMMA FramesTyped ==
    ASSUME NullIsNoMemtable, QueueInv, StatusInv, DurabilityInv, ThreadShape,
           NEW t \in Threads, ClientStep(t)
    PROVE  frame' \in [Threads -> Frame]
<1>1. frame \in [Threads -> Frame] /\ frame[t] \in Frame /\ Idle \in Frame
  BY IdleTyped DEF ThreadShape
<1>2. ASSUME NEW f \in Frame, frame' = [frame EXCEPT ![t] = f]
      PROVE  frame' \in [Threads -> Frame]
  BY <1>1, <1>2
<1>3. LocalsAfter(t) \in Frame
  BY <1>1 DEF LocalsAfter
<1>4. ASSUME NEW r \in Requests, Write(t, r)
      PROVE  frame' \in [Threads -> Frame]
  <2> DEFINE b == IF r.op # "flush" THEN {} ELSE IF imm_ = Null THEN mem_ ELSE mem_ \union imm_
             c == Len(hist) + 1
             f == [Idle EXCEPT !.call = c, !.op = r.op, !.before = b]
  <2>1. frame' = [frame EXCEPT ![t] = f]
    BY <1>4 DEF Write
  <2>2. b \in SUBSET Entry
    BY DEF ThreadShape, DurabilityInv, StorageInv, MemShape
  <2>3. c \in Nat
    BY DEF StatusInv, CallShape
  <2>4. r.op \in {"none", "write", "flush", "manual"}
    <3>1. r \in Request
      BY DBAssumption
    <3> QED
      BY <3>1 DEF Request
  <2> HIDE DEF b, c
  <2>5. f \in Frame
    BY <1>1, <2>2, <2>3, <2>4 DEF Frame
  <2> QED
    BY <1>2, <2>1, <2>5
<1>5. CASE CompactRange(t)
  <2>1. PICK left \in 0 .. 2 :
           frame' = [frame EXCEPT ![t] = [Idle EXCEPT !.op = "manual", !.left = left]]
    BY <1>5 DEF CompactRange
  <2>2. left \in Nat
    OBVIOUS
  <2>3. [Idle EXCEPT !.op = "manual", !.left = left] \in Frame
    BY <1>1, <2>2 DEF Frame
  <2> QED
    BY <1>2, <2>1, <2>3
<1>6. CASE TurnDone(t)
  BY <1>2, <1>3, <1>6 DEF TurnDone
<1>7. CASE TurnLead(t)
  <2> DEFINE f == [frame[t] EXCEPT !.force = (Batch(t).updates = 0),
                                   !.allow_delay = (Batch(t).updates # 0)]
  <2>1. frame' = [frame EXCEPT ![t] = f]
    BY <1>1, <1>7 DEF TurnLead
  <2>2. f \in Frame
    BY <1>1 DEF Frame
  <2> QED
    BY <1>2, <2>1, <2>2
<1>8. ASSUME NEW s \in {"ok", "error"}, LeaveRoom(t, s)
      PROVE  frame' \in [Threads -> Frame]
  <2>1. [frame[t] EXCEPT !.status = s] \in Frame
    BY <1>1 DEF Frame
  <2> QED
    BY <1>2, <1>8, <2>1 DEF LeaveRoom
<1>9. CASE RoomError(t) \/ RoomFits(t) \/ RoomNoLog(t)
  BY <1>8, <1>9 DEF RoomError, RoomFits, RoomNoLog
<1>10. CASE RoomDelay(t)
  <2>1. [frame[t] EXCEPT !.allow_delay = FALSE] \in Frame
    BY <1>1 DEF Frame
  <2> QED
    BY <1>2, <1>10, <2>1 DEF RoomDelay
<1>11. CASE RoomSwitch(t)
  <2>1. [frame[t] EXCEPT !.force = FALSE] \in Frame
    BY <1>1 DEF Frame
  <2> QED
    BY <1>2, <1>11, <2>1 DEF RoomSwitch
<1>12. CASE BuildGroup(t)
  <2>1. PICK n \in GroupSizes(t) :
           frame' = [frame EXCEPT ![t].last_writer = writers_[n], ![t].record = GroupRecord(n)]
    BY <1>12 DEF BuildGroup
  <2>2. writers_[n] \in Threads
    BY DEF GroupSizes, QueueInv, QueueShape
  <2>3. frame'[t].record \in Record
    <3>1. MemShape'
      BY <1>12, ClientMemShape DEF DurabilityInv
    <3>2. pc'[t] = "log"
      BY <1>12 DEF BuildGroup, QueueInv, QueueShape
    <3> QED
      BY <3>1, <3>2 DEF MemShape, InWrite, Leading
  <2> DEFINE f == [frame[t] EXCEPT !.last_writer = writers_[n], !.record = GroupRecord(n)]
  <2>4. frame' = [frame EXCEPT ![t] = f] /\ GroupRecord(n) \in Record
    <3>1. frame' = [frame EXCEPT ![t] = f]
      BY <1>1, <2>1
    <3>2. frame'[t] = f
      BY <1>1, <3>1
    <3>3. f.record = GroupRecord(n)
      BY <1>1 DEF Frame
    <3> QED
      BY <2>3, <3>1, <3>2, <3>3
  <2>5. f \in Frame
    BY <1>1, <2>2, <2>4 DEF Frame
  <2> QED
    BY <1>2, <2>4, <2>5
<1>13. CASE NoGroup(t)
  <2>1. [frame[t] EXCEPT !.last_writer = t] \in Frame
    BY <1>1 DEF Frame
  <2> QED
    BY <1>2, <1>13, <2>1 DEF NoGroup
<1>14. CASE AddRecordFails(t)
  <2>1. [frame[t] EXCEPT !.status = "error"] \in Frame
    BY <1>1 DEF Frame
  <2> QED
    BY <1>2, <1>14, <2>1 DEF AddRecordFails
<1>15. CASE SyncFails(t)
  <2>1. [frame[t] EXCEPT !.status = "error", !.sync_error = TRUE] \in Frame
    BY <1>1 DEF Frame
  <2>2. frame' = [frame EXCEPT ![t] = [frame[t] EXCEPT !.status = "error", !.sync_error = TRUE]]
    BY <1>1, <1>15 DEF SyncFails
  <2> QED
    BY <1>2, <2>1, <2>2
<1>16. CASE InsertUpdate(t)
  <2>1. frame[t].inserted + 1 \in Nat
    BY <1>1 DEF Frame
  <2>2. [frame[t] EXCEPT !.inserted = frame[t].inserted + 1] \in Frame
    BY <1>1, <2>1 DEF Frame
  <2> QED
    BY <1>2, <1>16, <2>2 DEF InsertUpdate
<1>17. CASE Pop(t)
  <2>1. frame' = [u \in Threads |->
            IF u = t THEN LocalsAfter(t)
            ELSE IF u \in Followers(t)
            THEN [frame[u] EXCEPT !.status = FollowerStatus(t), !.done = TRUE]
            ELSE frame[u]]
    BY <1>17 DEF Pop
  <2>2. FollowerStatus(t) \in {"ok", "error"}
    BY <1>1 DEF Frame, FollowerStatus
  <2>3. \A u \in Threads :
           [frame[u] EXCEPT !.status = FollowerStatus(t), !.done = TRUE] \in Frame
    BY <1>1, <2>2 DEF Frame
  <2> QED
    BY <1>1, <1>3, <2>1, <2>3
<1>18. CASE FlushStep(t) \/ ManualReturn(t)
  BY <1>1, <1>2, <1>18 DEF FlushStep, ManualReturn
<1>19. CASE \/ TurnWait(t) \/ RoomWait(t) \/ AddRecord(t) \/ Sync(t) \/ Relock(t)
            \/ ManualWait(t) \/ Close(t) \/ CloseStep(t)
  BY <1>1, <1>19 DEF TurnWait, RoomWait, AddRecord, Sync, Relock, ManualWait, Close, CloseStep,
                     threadVars
<1> QED
  BY <1>4, <1>5, <1>6, <1>7, <1>9, <1>10, <1>11, <1>12, <1>13, <1>14, <1>15, <1>16, <1>17,
     <1>18, <1>19 DEF ClientStep, Step

(* The steps of the threads. *)
LEMMA ClientTyped ==
    ASSUME NullIsNoMemtable, QueueInv, StatusInv, DurabilityInv, TypeInv,
           NEW t \in Threads, ClientStep(t)
    PROVE  TypeInv'
<1>1. ThreadShape /\ CompactionShape /\ RequestOpen
  BY DEF TypeInv
<1>2. frame' \in [Threads -> Frame]
  BY <1>1, FramesTyped
<1>3. UNCHANGED <<bg, l0, tables>>
  BY DEF ClientStep, Write, CompactRange, Close, Step, TurnDone, TurnWait, TurnLead,
         RoomError, RoomDelay, RoomFits, RoomWait, RoomNoLog, RoomSwitch, LeaveRoom, BuildGroup,
         NoGroup, AddRecord, AddRecordFails, Sync, SyncFails, InsertUpdate, Relock, Pop,
         FlushStep, ManualWait, ManualReturn, CloseStep, versionVars, bgVars
<1>4. mutex' \in {mutex, t, NoThread}
  BY DEF ClientStep, Write, CompactRange, Close, Step, TurnDone, TurnWait, TurnLead,
         RoomError, RoomDelay, RoomFits, RoomWait, RoomNoLog, RoomSwitch, LeaveRoom, BuildGroup,
         NoGroup, AddRecord, AddRecordFails, Sync, SyncFails, InsertUpdate, Relock, Pop,
         FlushStep, ManualWait, ManualReturn, CloseStep, lockVars, Keep, Release
<1>5. cvWaiting' \subseteq cvWaiting \union {t}
  BY DEF ClientStep, Write, CompactRange, Close, Step, TurnDone, TurnWait, TurnLead,
         RoomError, RoomDelay, RoomFits, RoomWait, RoomNoLog, RoomSwitch, LeaveRoom, BuildGroup,
         NoGroup, AddRecord, AddRecordFails, Sync, SyncFails, InsertUpdate, Relock, Pop,
         FlushStep, ManualWait, ManualReturn, CloseStep, lockVars
<1>6. workWaiting' \subseteq workWaiting \union {t}
  BY DEF ClientStep, Write, CompactRange, Close, Step, TurnDone, TurnWait, TurnLead,
         RoomError, RoomDelay, RoomFits, RoomWait, RoomNoLog, RoomSwitch, LeaveRoom, BuildGroup,
         NoGroup, AddRecord, AddRecordFails, Sync, SyncFails, InsertUpdate, Relock, Pop,
         FlushStep, ManualWait, ManualReturn, CloseStep, lockVars
<1>7. imm_' = imm_ \/ imm_' = mem_
  BY StorageKinds DEF StorageQuiet, RoomSwitch, AddRecord, AddRecordFails, Sync, InsertUpdate,
                      storeVars
<1>8. manuals' = manuals \/ manuals' = manuals + 1
  BY DEF ClientStep, Write, CompactRange, Close, Step, TurnDone, TurnWait, TurnLead,
         RoomError, RoomDelay, RoomFits, RoomWait, RoomNoLog, RoomSwitch, LeaveRoom, BuildGroup,
         NoGroup, AddRecord, AddRecordFails, Sync, SyncFails, InsertUpdate, Relock, Pop,
         FlushStep, ManualWait, ManualReturn, CloseStep, bgVars
<1>9. {scheduled', shutting_down_'} \subseteq BOOLEAN
  <2>1. /\ scheduled' = scheduled \/ RoomSwitch(t) \/ ManualWait(t)
        /\ shutting_down_' = shutting_down_ \/ shutting_down_' = TRUE
    BY DEF ClientStep, Write, CompactRange, Close, Step, TurnDone, TurnWait, TurnLead,
           RoomError, RoomDelay, RoomFits, RoomWait, RoomNoLog, LeaveRoom, BuildGroup,
           NoGroup, AddRecord, AddRecordFails, Sync, SyncFails, InsertUpdate, Relock, Pop,
           FlushStep, ManualReturn, CloseStep, bgVars, RoomSwitch, ManualWait
  <2>2. scheduled' = scheduled \/ \E e, i, m : scheduled' = Schedules(scheduled, e, i, m, l0)
    BY <2>1 DEF RoomSwitch, ManualWait
  <2>3. scheduled \in BOOLEAN /\ shutting_down_ \in BOOLEAN
    BY <1>1, Zenon DEF ThreadShape
  <2>4. scheduled' \in BOOLEAN
    BY <2>2, <2>3, Zenon DEF Schedules
  <2>5. shutting_down_' \in BOOLEAN
    BY <2>1, <2>3, Zenon
  <2> QED
    BY <2>4, <2>5, Zenon
<1>10. ThreadShape'
  <2>1. mem_ \subseteq Entry
    BY DEF DurabilityInv, StorageInv, MemShape
  <2>2. mutex' \in Threads \union {NoThread, BG}
    BY <1>1, <1>4 DEF ThreadShape
  <2>3. cvWaiting' \subseteq Threads /\ workWaiting' \subseteq Threads
    BY <1>1, <1>5, <1>6 DEF ThreadShape
  <2>4. /\ imm_' = Null \/ imm_' \subseteq Entry
        /\ tables' \subseteq Entry /\ manuals' \in Nat
    BY <1>1, <1>3, <1>7, <1>8, <2>1 DEF ThreadShape
  <2> QED
    BY <1>2, <1>9, <2>2, <2>3, <2>4, Zenon DEF ThreadShape
<1>11. CompactionShape'
  BY <1>1, <1>3 DEF CompactionShape
<1>12. RequestOpen'
  <2> SUFFICES ASSUME bg.manual PROVE RequestOpen'
    BY <1>3 DEF RequestOpen
  <2> DEFINE m == manual_compaction_
  <2>1. (bg_error_ => bg_error_') /\ (shutting_down_ => shutting_down_')
    <3>1. bg_error_ => bg_error_'
      BY DEF ClientStep, Write, CompactRange, Close, Step, TurnDone, TurnWait, TurnLead,
             RoomError, RoomDelay, RoomFits, RoomWait, RoomNoLog, LeaveRoom, BuildGroup,
             NoGroup, AddRecord, AddRecordFails, Sync, SyncFails, InsertUpdate, Relock, Pop,
             FlushStep, ManualReturn, CloseStep, bgVars, RoomSwitch, ManualWait, SwitchDue, Refused
    <3>2. shutting_down_ => shutting_down_'
      BY DEF ClientStep, Write, CompactRange, Close, Step, TurnDone, TurnWait, TurnLead,
             RoomError, RoomDelay, RoomFits, RoomWait, RoomNoLog, LeaveRoom, BuildGroup,
             NoGroup, AddRecord, AddRecordFails, Sync, SyncFails, InsertUpdate, Relock, Pop,
             FlushStep, ManualReturn, CloseStep, bgVars, RoomSwitch, ManualWait
    <3> QED
      BY <3>1, <3>2
  <2>2. m' = m \/ ManualWait(t) \/ ManualReturn(t)
    BY DEF ClientStep, Write, CompactRange, Close, Step, TurnDone, TurnWait, TurnLead,
           RoomError, RoomDelay, RoomFits, RoomWait, RoomNoLog, LeaveRoom, BuildGroup,
           NoGroup, AddRecord, AddRecordFails, Sync, SyncFails, InsertUpdate, Relock, Pop,
           FlushStep, CloseStep, bgVars, RoomSwitch
  <2>3. CASE m = NoThread
    <3>1. bg_error_ \/ shutting_down_
      BY <1>1, <2>3 DEF RequestOpen
    <3>2. ~ManualWait(t)
      BY <3>1 DEF ManualWait
    <3>3. m' = NoThread
      BY <2>2, <2>3, <3>2 DEF ManualReturn, Cancelled
    <3> QED
      BY <2>1, <3>1, <3>3 DEF RequestOpen
  <2>4. CASE m # NoThread
    <3>1. m \in Threads /\ pc[m] = "manual" /\ ~frame[m].done /\ frame[m].left > 0
      BY <1>1, <2>4 DEF RequestOpen, QueueInv, QueueShape, ManualInScope
    <3>2. CASE ManualReturn(t) /\ t = m
      <4>1. m' = NoThread /\ (bg_error_ \/ shutting_down_)
        BY <3>1, <3>2 DEF ManualReturn, Cancelled
      <4> QED
        BY <2>1, <4>1 DEF RequestOpen
    <3>3. CASE ManualWait(t) \/ (ManualReturn(t) /\ t # m)
      <4>1. m' = m
        BY <2>4, <3>3 DEF ManualWait, ManualReturn, Cancelled
      <4>2. frame'[m] = frame[m]
        BY <1>1, <3>1, <3>3 DEF ManualWait, ManualReturn, threadVars, ThreadShape
      <4> QED
        BY <2>4, <3>1, <4>1, <4>2 DEF RequestOpen
    <3>4. CASE ~ManualWait(t) /\ ~ManualReturn(t)
      <4>1. m' = m
        BY <2>2, <3>4
      <4>2. frame'[m] = frame[m]
        <5>1. CASE t # m
          <6>1. ~InQueue(m)
            BY <3>1 DEF QueueInv, OneLogger, Leading
          <6>2. Pop(t) => m \notin Followers(t)
            <7> SUFFICES ASSUME Pop(t), m \in Followers(t) PROVE FALSE
              OBVIOUS
            <7>1. GroupSize(t) \in DOMAIN writers_
              BY DEF Pop, QueueInv, GroupInQueue, Committed, InQueue, GroupSize
            <7>2. PICK i \in 2 .. GroupSize(t) : writers_[i] = m
              BY DEF Followers
            <7>3. i \in DOMAIN writers_
              BY <7>1, <7>2 DEF QueueInv, QueueShape
            <7> QED
              BY <6>1, <7>2, <7>3 DEF InQueue
          <6> QED
            BY <3>1, <5>1, <6>2, Elsewhere
        <5>2. CASE t = m
          BY <3>1, <3>4, <5>2 DEF ClientStep, Write, CompactRange, Close, Step, TurnDone, TurnWait,
             TurnLead, InRoom, SwitchDue, RoomError, RoomDelay, RoomFits, RoomWait, RoomNoLog,
             BuildGroup, NoGroup, AddRecord, AddRecordFails, Sync, SyncFails, InsertUpdate, Relock,
             Pop, FlushStep, CloseStep, RoomSwitch
        <5> QED
          BY <5>1, <5>2
      <4> QED
        BY <2>4, <3>1, <4>1, <4>2 DEF RequestOpen
    <3> QED
      BY <2>2, <3>2, <3>3, <3>4
  <2> QED
    BY <2>3, <2>4
<1> QED
  BY <1>10, <1>11, <1>12 DEF TypeInv

(* Whether a call is scheduled. *)
LEMMA SchedulesTyped ==
    ASSUME NEW already \in BOOLEAN, NEW e, NEW i, NEW m, NEW n
    PROVE  Schedules(already, e, i, m, n) \in BOOLEAN
  BY Zenon DEF Schedules

(* What the step leaves for the next state. *)
EndShape ==
    /\ scheduled' \in BOOLEAN /\ workWaiting' \subseteq Threads
    /\ bg' \in BgType
    /\ bg'.pc \notin {"cleanup", "crashed"} => bg'.inputs <= l0'
    /\ RequestOpen'

(* The end of BackgroundCall. *)
LEMMA EndCallTyped ==
    ASSUME TypeInv, NEW failed, EndCall(failed), l0' \in Nat
    PROVE  EndShape
<1>1. bg' = BGIdle /\ bg' \in BgType
  BY IdleTyped DEF EndCall
<1>2. scheduled' \in BOOLEAN
  <2>1. FALSE \in BOOLEAN
    OBVIOUS
  <2> QED
    BY <2>1, SchedulesTyped DEF EndCall
<1>3. workWaiting' = {}
  BY DEF EndCall, Signals
<1>4. ~bg'.manual /\ bg'.inputs = 0
  BY <1>1 DEF BGIdle
<1> QED
  BY <1>1, <1>2, <1>3, <1>4 DEF EndShape, RequestOpen

(* A step in the middle of a compaction or a memtable's. *)
LEMMA GoesOnTyped ==
    ASSUME TypeInv, bg' \in BgType, bg'.manual = bg.manual, bg'.inputs = bg.inputs,
           bg.pc \notin {"cleanup", "crashed"}, l0' \in Nat, l0' >= l0,
           bg_error_ => bg_error_', scheduled' = scheduled, workWaiting' \subseteq workWaiting,
           UNCHANGED <<frame, manual_compaction_, shutting_down_>>
    PROVE  EndShape
<1>1. ThreadShape /\ CompactionShape /\ RequestOpen
  BY DEF TypeInv
<1>2. bg'.inputs <= l0'
  BY <1>1 DEF CompactionShape, BgType
<1>3. RequestOpen'
  BY <1>1 DEF RequestOpen
<1>4. scheduled' \in BOOLEAN /\ workWaiting' \subseteq Threads
  BY <1>1, Zenon DEF ThreadShape
<1> QED
  BY <1>2, <1>3, <1>4 DEF EndShape

(* The end of CompactMemTable. *)
LEMMA AfterMemTableTyped ==
    ASSUME TypeInv, NEW failed, AfterMemTable(failed), bg.pc \in {"build", "apply", "unlink"},
           l0' = l0, UNCHANGED <<frame, manual_compaction_, shutting_down_>>
    PROVE  EndShape
<1>1. bg \in BgType /\ l0 \in Nat
  BY DEF TypeInv, CompactionShape
<1>2. CASE bg.inner
  <2>1. bg' = [bg EXCEPT !.pc = "compact", !.inner = FALSE, !.log = 0, !.doomed = {}]
    BY <1>2 DEF AfterMemTable
  <2>2. bg' \in BgType /\ bg'.manual = bg.manual /\ bg'.inputs = bg.inputs
    BY <1>1, <2>1 DEF BgType
  <2>3. scheduled' = scheduled /\ workWaiting' = {} /\ (bg_error_ => bg_error_')
    BY <1>2 DEF AfterMemTable, Signals
  <2>4. l0' \in Nat /\ l0' >= l0 /\ workWaiting' \subseteq workWaiting
    BY <1>1, <2>3
  <2> QED
    BY <2>2, <2>3, <2>4, GoesOnTyped
<1>3. CASE ~bg.inner
  BY <1>1, <1>3, EndCallTyped DEF AfterMemTable
<1> QED
  BY <1>2, <1>3

(* The end of BackgroundCompaction. *)
LEMMA EndCompactionTyped ==
    ASSUME QueueInv, TypeInv, NEW failed \in BOOLEAN, EndCompaction(failed), mutex = NoThread,
           l0' \in Nat, shutting_down_' = shutting_down_
    PROVE  /\ EndShape
           /\ mutex' \in {NoThread, BG} /\ frame' \in [Threads -> Frame]
<1>1. ThreadShape /\ CompactionShape /\ RequestOpen
  BY DEF TypeInv
<1>2. bg \in BgType /\ frame \in [Threads -> Frame]
  BY <1>1 DEF CompactionShape, ThreadShape
<1>3. CASE ~bg.manual
  BY <1>2, <1>3, EndCallTyped DEF EndCompaction
<1>4. CASE bg.manual /\ manual_compaction_ = NoThread
  <2>1. /\ bg' = [bg EXCEPT !.pc = "crashed"] /\ mutex' = BG /\ Signals(failed, FALSE)
        /\ UNCHANGED <<frame, manual_compaction_, scheduled>>
    BY <1>4 DEF EndCompaction
  <2>2. bg' \in BgType /\ bg'.pc = "crashed" /\ bg'.manual
    BY <1>2, <1>4, <2>1 DEF BgType
  <2>3. workWaiting' \subseteq workWaiting /\ (bg_error_ => bg_error_')
    BY <2>1 DEF Signals
  <2>4. RequestOpen'
    BY <1>1, <1>4, <2>1, <2>3 DEF RequestOpen
  <2>5. scheduled' \in BOOLEAN /\ workWaiting' \subseteq Threads
    BY <1>1, <2>1, <2>3, Zenon DEF ThreadShape
  <2> QED
    BY <1>2, <2>1, <2>2, <2>4, <2>5 DEF EndShape
<1>5. CASE bg.manual /\ manual_compaction_ # NoThread
  <2> DEFINE m == manual_compaction_
             f == [frame[m] EXCEPT !.done = failed, !.left = @ - 1]
  <2>1. EndCall(failed) /\ mutex' = mutex
    BY <1>5 DEF EndCompaction
  <2>2. m \in Threads /\ frame[m] \in Frame /\ frame[m].left > 0
    BY <1>1, <1>2, <1>5 DEF RequestOpen, QueueInv, QueueShape
  <2>3. frame[m].left - 1 \in Nat
    BY <2>2 DEF Frame
  <2>4. f \in Frame
    BY <2>2, <2>3 DEF Frame
  <2>5. frame' = [frame EXCEPT ![m] = f]
    <3>1. frame' = [frame EXCEPT ![m].done = failed, ![m].left = @ - 1]
      BY <1>5 DEF EndCompaction
    <3> QED
      BY <1>2, <2>2, <3>1
  <2> HIDE DEF f
  <2>6. frame' \in [Threads -> Frame]
    BY <1>2, <2>2, <2>4, <2>5
  <2> QED
    BY <2>1, <2>6, EndCallTyped
<1> QED
  BY <1>3, <1>4, <1>5

(* The steps of the background thread. *)
LEMMA BackgroundTyped ==
    ASSUME NullIsNoMemtable, QueueInv, DurabilityInv, TypeInv, BGStep \/ UNCHANGED vars
    PROVE  TypeInv'
<1>1. ThreadShape /\ CompactionShape /\ RequestOpen /\ BgShape /\ LogShape
  BY DEF TypeInv, DurabilityInv, StorageInv
<1>2. bg \in BgType /\ l0 \in Nat /\ frame \in [Threads -> Frame]
  BY <1>1 DEF CompactionShape, ThreadShape
<1>3. UNCHANGED <<cvWaiting, manuals, shutting_down_>>
  BY DEF BGStep, BGNothing, BGMemTable, BGManualDone, BGCompaction, BGInnerMemTable,
         BGTableBuilt, BGTableFailed, BGApplied, BGApplyFailed, BGUnlinked, BGCompacted,
         BGCompactionFailed, BGInstalled, BGInstallFailed, BGCleaned, bgRest,
         vars, lockVars, bgVars
<1>4. (imm_' = imm_ \/ imm_' = Null) /\ tables' \subseteq Entry
  <2>1. CASE BGApplied
    <3>1. imm_ # Null
      BY <1>1, <2>1 DEF BGApplied, BgShape
    <3> QED
      BY <1>1, <2>1, <3>1 DEF BGApplied, ThreadShape
  <2>2. CASE ~BGApplied
    BY <1>1, <2>2, BackgroundKinds DEF StorageQuiet, storeVars, BGUnlinked, versionVars, ThreadShape
  <2> QED
    BY <2>1, <2>2
<1>5. SUFFICES /\ EndShape /\ l0' \in Nat
               /\ mutex' \in {mutex, NoThread, BG} /\ frame' \in [Threads -> Frame]
  <2>1. ThreadShape'
    <3>1. {scheduled', shutting_down_'} \subseteq BOOLEAN
      BY <1>1, <1>3, <1>5, Zenon DEF ThreadShape, EndShape
    <3>2. mutex' \in Threads \union {NoThread, BG}
      BY <1>1, <1>5 DEF ThreadShape
    <3>3. cvWaiting' \subseteq Threads /\ workWaiting' \subseteq Threads /\ manuals' \in Nat
      BY <1>1, <1>3, <1>5 DEF ThreadShape, EndShape
    <3>4. imm_' = Null \/ imm_' \subseteq Entry
      BY <1>1, <1>4 DEF ThreadShape
    <3> QED
      BY <1>4, <1>5, <3>1, <3>2, <3>3, <3>4, Zenon DEF ThreadShape
  <2> QED
    BY <1>5, <2>1 DEF TypeInv, EndShape, CompactionShape
<1>6. CASE BGNothing
  <2>1. EndCall(FALSE) /\ l0' = l0 /\ frame' = frame /\ mutex' = mutex
    BY <1>6 DEF BGNothing, threadVars, versionVars, BGTakes
  <2> QED
    BY <1>2, <2>1, EndCallTyped
<1>7. CASE BGManualDone
  <2>1. EndCall(FALSE) /\ l0' = l0 /\ mutex' = mutex
    BY <1>7 DEF BGManualDone, BGReady, versionVars, BGTakes
  <2>2. /\ manual_compaction_ \in Threads
        /\ frame' = [frame EXCEPT ![manual_compaction_].done = TRUE]
    BY <1>7 DEF BGManualDone, QueueInv, QueueShape
  <2>3. [frame[manual_compaction_] EXCEPT !.done = TRUE] \in Frame
    BY <1>2, <2>2 DEF Frame
  <2>4. frame' \in [Threads -> Frame]
    BY <1>2, <2>2, <2>3
  <2> QED
    BY <1>2, <2>1, <2>4, EndCallTyped
<1>8. CASE BGMemTable
  <2>1. /\ bg' = [BGIdle EXCEPT !.pc = "build"]
        /\ l0' = l0 /\ frame' = frame /\ mutex' = mutex
        /\ UNCHANGED <<scheduled, workWaiting>>
    BY <1>8 DEF BGMemTable, BGReady, threadVars, versionVars, BGTakes
  <2>2. bg' \in BgType /\ ~bg'.manual /\ bg'.inputs = 0
    BY <2>1, IdleTyped DEF BGIdle, BgType
  <2>3. scheduled' \in BOOLEAN /\ workWaiting' \subseteq Threads
    BY <1>1, <2>1, Zenon DEF ThreadShape
  <2> QED
    BY <1>2, <2>1, <2>2, <2>3 DEF EndShape, RequestOpen
<1>9. CASE BGCompaction
  <2>1. l0' = l0 /\ UNCHANGED <<frame, mutex, scheduled, workWaiting, manual_compaction_>>
    BY <1>9 DEF BGCompaction, BGReady, threadVars, versionVars, BGTakes
  <2>2. scheduled' \in BOOLEAN /\ workWaiting' \subseteq Threads
    BY <1>1, <2>1, Zenon DEF ThreadShape
  <2>3. CASE manual_compaction_ # NoThread
    <3>1. /\ frame[manual_compaction_].left > 0
          /\ \E n \in 0 .. l0 :
                bg' = [BGIdle EXCEPT !.pc = "compact", !.manual = TRUE, !.inputs = n]
      BY <1>9, <2>3 DEF BGCompaction
    <3>2. PICK n \in 0 .. l0 :
                bg' = [BGIdle EXCEPT !.pc = "compact", !.manual = TRUE, !.inputs = n]
      BY <3>1
    <3>3. n \in Nat /\ n <= l0
      BY <1>2
    <3>4. bg' \in BgType /\ bg'.inputs = n
      BY <3>2, <3>3, IdleTyped DEF BGIdle, BgType
    <3>5. RequestOpen'
      BY <2>1, <2>3, <3>1 DEF RequestOpen
    <3> QED
      BY <1>2, <2>1, <2>2, <3>3, <3>4, <3>5 DEF EndShape
  <2>4. CASE manual_compaction_ = NoThread
    <3>1. PICK n \in 1 .. l0, moved \in BOOLEAN :
                bg' = [BGIdle EXCEPT !.pc = IF moved THEN "move" ELSE "compact", !.inputs = n]
      BY <1>9, <2>4 DEF BGCompaction
    <3>2. n \in Nat /\ n <= l0
      BY <1>2
    <3>3. (IF moved THEN "move" ELSE "compact") \in {"move", "compact"}
      OBVIOUS
    <3>4. bg' \in BgType /\ bg'.inputs = n /\ ~bg'.manual
      BY <3>1, <3>2, <3>3, IdleTyped DEF BGIdle, BgType
    <3> QED
      BY <1>2, <2>1, <2>2, <3>2, <3>4 DEF EndShape, RequestOpen
  <2> QED
    BY <2>3, <2>4
<1>10. CASE BGInnerMemTable \/ BGTableBuilt \/ BGCompacted
  <2>1. /\ l0' = l0 /\ UNCHANGED <<frame, mutex, scheduled, workWaiting, manual_compaction_>>
        /\ bg_error_' = bg_error_
        /\ bg.pc \notin {"cleanup", "crashed"}
    BY <1>10 DEF BGInnerMemTable, BGTableBuilt, BGCompacted, threadVars, versionVars, BGTakes
  <2>2. bg' \in BgType /\ bg'.manual = bg.manual /\ bg'.inputs = bg.inputs
    <3>1. CASE BGInnerMemTable
      <4>1. bg' = [bg EXCEPT !.pc = "build", !.inner = TRUE]
        BY <3>1 DEF BGInnerMemTable
      <4> QED
        BY <1>2, <4>1 DEF BgType
    <3>2. CASE BGTableBuilt
      <4>1. bg' = [bg EXCEPT !.pc = "apply", !.log = logfile_number_] /\ logfile_number_ \in Nat
        BY <1>1, <3>2 DEF BGTableBuilt, LogShape
      <4> QED
        BY <1>2, <4>1 DEF BgType
    <3>3. CASE BGCompacted
      <4>1. bg' = [bg EXCEPT !.pc = "install"]
        BY <3>3 DEF BGCompacted
      <4> QED
        BY <1>2, <4>1 DEF BgType
    <3> QED
      BY <1>10, <3>1, <3>2, <3>3
  <2>3. l0' \in Nat /\ l0' >= l0 /\ workWaiting' \subseteq workWaiting
    BY <1>2, <2>1
  <2> QED
    BY <1>2, <1>3, <2>1, <2>2, <2>3, GoesOnTyped
<1>11. CASE BGTableFailed \/ BGApplyFailed \/ BGUnlinked
  <2>1. /\ \E failed : AfterMemTable(failed)
        /\ bg.pc \in {"build", "apply", "unlink"} /\ l0' = l0
        /\ UNCHANGED <<frame, mutex, manual_compaction_>>
    BY <1>11 DEF BGTableFailed, BGApplyFailed, BGUnlinked, threadVars, versionVars, BGTakes
  <2> QED
    BY <1>2, <1>3, <2>1, AfterMemTableTyped
<1>12. CASE BGApplied
  <2>1. /\ l0' \in {l0, l0 + 1} /\ bg.pc = "apply"
        /\ UNCHANGED <<frame, mutex, scheduled, workWaiting, manual_compaction_, bg_error_>>
        /\ bg' = [bg EXCEPT !.pc = "unlink",
                            !.doomed = IF bg_error_ THEN {} ELSE ObsoleteLogs(bg.log)]
    BY <1>12 DEF BGApplied, threadVars, BGTakes
  <2> DEFINE d == IF bg_error_ THEN {} ELSE ObsoleteLogs(bg.log)
  <2>2. d \in SUBSET Nat
    BY <1>1 DEF LogShape, ObsoleteLogs
  <2> HIDE DEF d
  <2>3. bg' = [bg EXCEPT !.pc = "unlink", !.doomed = d]
    BY <2>1 DEF d
  <2>4. bg' \in BgType /\ bg'.manual = bg.manual /\ bg'.inputs = bg.inputs
    BY <1>2, <2>2, <2>3 DEF BgType
  <2>5. l0' \in Nat /\ l0' >= l0 /\ workWaiting' \subseteq workWaiting
    BY <1>2, <2>1
  <2>6. bg.pc \notin {"cleanup", "crashed"}
    BY <2>1
  <2> QED
    BY <1>2, <1>3, <2>1, <2>4, <2>5, <2>6, GoesOnTyped
<1>13. CASE BGCompactionFailed \/ BGInstallFailed \/ BGCleaned
  <2>1. (\E failed \in BOOLEAN : EndCompaction(failed)) /\ l0' = l0 /\ mutex = NoThread
    BY <1>13 DEF BGCompactionFailed, BGInstallFailed, BGCleaned, versionVars
  <2> QED
    BY <1>2, <1>3, <2>1, EndCompactionTyped
<1>14. CASE BGInstalled
  <2>1. bg.pc \in {"install", "move"} /\ mutex = NoThread /\ l0' = l0 - bg.inputs
    BY <1>14 DEF BGInstalled
  <2>2. l0' \in Nat
    BY <1>1, <1>2, <2>1 DEF CompactionShape, BgType
  <2>3. CASE bg_error_ \/ bg.pc = "move"
    <3>1. EndCompaction(FALSE)
      BY <1>14, <2>3 DEF BGInstalled
    <3> QED
      BY <1>3, <2>1, <2>2, <3>1, EndCompactionTyped
  <2>4. CASE ~(bg_error_ \/ bg.pc = "move")
    <3>1. /\ bg' = [bg EXCEPT !.pc = "cleanup"]
          /\ UNCHANGED <<mutex, frame, workWaiting, bg_error_, scheduled, manual_compaction_>>
      BY <1>14, <2>4 DEF BGInstalled
    <3>2. bg' \in BgType /\ bg'.pc = "cleanup" /\ bg'.manual = bg.manual
      BY <1>2, <3>1 DEF BgType
    <3>3. RequestOpen'
      BY <1>1, <1>3, <3>1, <3>2 DEF RequestOpen
    <3>4. scheduled' \in BOOLEAN /\ workWaiting' \subseteq Threads
      BY <1>1, <3>1, Zenon DEF ThreadShape
    <3> QED
      BY <1>2, <2>2, <3>1, <3>2, <3>3, <3>4 DEF EndShape
  <2> QED
    BY <2>3, <2>4
<1>15. CASE UNCHANGED vars
  <2>1. /\ UNCHANGED <<bg, l0, mutex, frame, scheduled, workWaiting, manual_compaction_, bg_error_>>
    BY <1>15 DEF vars, lockVars, threadVars, versionVars, bgVars
  <2>2. scheduled' \in BOOLEAN /\ workWaiting' \subseteq Threads
    BY <1>1, <2>1, Zenon DEF ThreadShape
  <2>3. RequestOpen'
    BY <1>1, <1>3, <2>1 DEF RequestOpen
  <2> QED
    BY <1>1, <1>2, <2>1, <2>2, <2>3 DEF EndShape, CompactionShape
<1> QED
  BY <1>6, <1>7, <1>8, <1>9, <1>10, <1>11, <1>12, <1>13, <1>14, <1>15 DEF BGStep

(* Types are kept: in particular level 0 never has fewer files than the    *)
(* compaction that takes them away has inputs, and a manual compaction     *)
(* that ends decrements only what its own request has left (db_impl.cc     *)
(* 633-672, 705-790).                                                      *)
THEOREM TypesAlways ==
    ASSUME NullIsNoMemtable
    PROVE  Spec => []TypeOK
<1>1. Init => TypeInv
  <2> SUFFICES ASSUME Init PROVE TypeInv
    OBVIOUS
  <2>1. /\ mutex = NoThread /\ frame = [t \in Threads |-> Idle] /\ cvWaiting = {}
        /\ workWaiting = {} /\ imm_ = Null /\ tables = {} /\ l0 = 0 /\ bg = BGIdle /\ manuals = 0
    BY DEF Init
  <2>2. {scheduled, shutting_down_} \subseteq BOOLEAN
    BY Zenon DEF Init
  <2>3. ThreadShape
    BY <2>1, <2>2, IdleTyped DEF ThreadShape
  <2>4. CompactionShape /\ RequestOpen
    BY <2>1, IdleTyped DEF CompactionShape, RequestOpen, BGIdle
  <2> QED
    BY <2>3, <2>4 DEF TypeInv
<1>2. QueueInv /\ StatusInv /\ DurabilityInv /\ TypeInv /\ [Next]_vars => TypeInv'
  <2> SUFFICES ASSUME QueueInv, StatusInv, DurabilityInv, TypeInv, [Next]_vars PROVE TypeInv'
    OBVIOUS
  <2>1. CASE BGStep \/ UNCHANGED vars
    BY <2>1, BackgroundTyped
  <2>2. CASE \E t \in Threads : ClientStep(t)
    BY <2>2, ClientTyped
  <2> QED
    BY <2>1, <2>2, StepKinds
<1>3. QueueInv /\ StatusInv /\ DurabilityInv /\ TypeInv => TypeOK
  BY TypesSuffice
<1> QED
  BY <1>1, <1>2, <1>3, StatusInvariant, DurabilityInvariant, PTL DEF Spec
=============================================================================
