------------------------------- MODULE Iterators -------------------------------
(***************************************************************************)
(* Iteration over a LevelDB database (src/src/leveldb/db/db_iter.cc, table/*)
(* merger.cc, table/two_level_iterator.cc, table/block.cc): a DBIter moves *)
(* a MergingIterator over a memtable, which a writer goes on filling, and  *)
(* over a table, a TwoLevelIterator of an index block and data blocks.     *)
(*                                                                         *)
(* An entry is the sequence number of its update, and stands for its value *)
(* too; updates 1 to Flushed are in the table, later ones in the memtable. *)
(* Level files and their concatenation are the same TwoLevelIterator again *)
(* and are left out, as are read samples.                                  *)
(***************************************************************************)
EXTENDS Integers, Sequences, FiniteSets, SequencesExt, FiniteSetsExt

CONSTANTS Keys,             \* user keys
          MaxUpdates,       \* bound: updates, written before and during the iteration
          Flushed,          \* how many of them are in the table
          BlockEntries,     \* entries of a data block
          RestartInterval,  \* block_restart_interval, for data blocks
          Snapshots         \* sequence numbers an iterator is opened at

ASSUME IteratorsAssumption ==
    /\ Keys \subseteq Nat /\ MaxUpdates \in Nat /\ Flushed \in 1..MaxUpdates
    /\ BlockEntries \in Nat \ {0} /\ RestartInterval \in Nat \ {0}
    /\ Snapshots \subseteq 1..MaxUpdates

VARIABLES
    updates,    \* what is written, in order; does not change
    table,      \* the data blocks of the table, sequences of entries
    loose,      \* whether index keys are as large as they may be, or as small
    unreadable, \* data blocks that cannot be read
    snapshot,   \* sequence_ of DBIter
    written,    \* how many updates are written
    merge,      \* the MergingIterator with its children
    iter,       \* the members of DBIter, and the locals of its loops
    pc,         \* idle, or the loop that is under way
    wanted      \* history: the entry that the last call should show, 0 if none

database == <<updates, table, loose, unreadable, snapshot>>
iterVars == <<database, written, merge, iter, pc, wanted>>

(* InternalKeyComparator, on pairs of a user key and a sequence number. *)
Precedes(p, q) == p[1] < q[1] \/ (p[1] = q[1] /\ p[2] > q[2])
Compare(p, q)  == IF Precedes(p, q) THEN -1 ELSE IF Precedes(q, p) THEN 1 ELSE 0
Key(i)         == updates[i].key
InternalKey(i) == <<Key(i), i>>
FirstOf(S) == IF S = {} THEN 0 ELSE CHOOSE i \in S : \A j \in S \ {i} : Precedes(InternalKey(i), InternalKey(j))
LastOf(S)  == IF S = {} THEN 0 ELSE CHOOSE i \in S : \A j \in S \ {i} : Precedes(InternalKey(j), InternalKey(i))

-----------------------------------------------------------------------------
(* MemTableIterator, over the entries S that are in the memtable. *)

MemSeek(S, target) == FirstOf({i \in S : ~Precedes(InternalKey(i), target)})
MemNext(S, i) == FirstOf({j \in S : Precedes(InternalKey(i), InternalKey(j))})
MemPrev(S, i) == LastOf({j \in S : Precedes(InternalKey(j), InternalKey(i))})

-----------------------------------------------------------------------------
(* Block::Iter over n entries with a restart point every r entries: at is  *)
(* the entry that current_ points to, n + 1 if none, restart is            *)
(* restart_index_, which lags behind at a restart point that was reached   *)
(* by Next.                                                                *)

Restarts(n, r)      == 0..(n - 1) \div r
RestartPoint(r, j)  == j * r + 1
BlockEnd(n, r)      == [at |-> n + 1, restart |-> (n - 1) \div r + 1]

(* ParseNextKey, repeated up to an entry. *)
Parsed(n, r, at, restart) ==
    IF at > n THEN BlockEnd(n, r)
    ELSE [at |-> at,
          restart |-> Max({restart} \union {j \in Restarts(n, r) : RestartPoint(r, j) < at})]

BlockFirst(n, r)    == Parsed(n, r, 1, 0)
BlockLast(n, r)     == Parsed(n, r, n, Max(Restarts(n, r)))
BlockNext(n, r, it) == Parsed(n, r, it.at + 1, it.restart)
BlockPrev(n, r, it) ==
    LET before == {j \in 0..it.restart : RestartPoint(r, j) < it.at}
    IN  IF before = {} THEN BlockEnd(n, r) ELSE Parsed(n, r, it.at - 1, Max(before))

(* Seek, where order[i] compares entry i with the target: a binary search  *)
(* for the last restart point before the target, which the present         *)
(* position narrows, and a scan from there or from the present position.   *)
Narrowed(r, order, span) ==
    LET mid == (span.left + span.right + 1) \div 2
    IN  IF span.left >= span.right THEN span
        ELSE IF order[RestartPoint(r, mid)] < 0 THEN [span EXCEPT !.left = mid]
        ELSE [span EXCEPT !.right = mid - 1]

Searched(n, r, order, span) ==
    LET after[k \in 0..n] == IF k = 0 THEN span ELSE Narrowed(r, order, after[k - 1])
    IN  after[n]

BlockSeek(n, r, it, order) ==
    LET here == IF it.at <= n THEN order[it.at] ELSE 0
        left == Searched(n, r, order, [left  |-> IF here < 0 THEN it.restart ELSE 0,
                                       right |-> IF here > 0 THEN it.restart
                                                 ELSE Max(Restarts(n, r))]).left
        from == IF left = it.restart /\ here < 0 THEN it.at + 1 ELSE RestartPoint(r, left)
        hits == {i \in from..n : order[i] >= 0}
    IN  IF it.at <= n /\ here = 0 THEN it
        ELSE IF hits = {} THEN BlockEnd(n, r)
        ELSE Parsed(n, r, Min(hits), left)

-----------------------------------------------------------------------------
(* TwoLevelIterator over the table: index and data are Block::Iters, block *)
(* is data_block_handle_ and failed is status_.                            *)

NoIter    == [at |-> -1, restart |-> 0]     \* a null data_iter_
ErrorIter == [at |-> 0, restart |-> 0]      \* of a block that cannot be read
IsBlock(t)    == t.data \notin {NoIter, ErrorIter}
Size(t)       == Len(table[t.block])
DataValid(t)  == IsBlock(t) /\ t.data.at <= Size(t)
IndexValid(t) == t.index.at <= Len(table)
EntryAt(t)    == IF DataValid(t) THEN table[t.block][t.data.at] ELSE 0
Failed(t)     == t.failed \/ t.data = ErrorIter

NewTableIterator == [index |-> BlockEnd(Len(table), 1), data |-> NoIter, block |-> 0, failed |-> FALSE]

(* Mutant: the status of the data iterator is lost. *)
SetDataIteratorOnly(t, data) == [t EXCEPT !.data = data]

SetDataIterator(t, data) == [t EXCEPT !.data = data, !.failed = Failed(t)]

InitDataBlock(t) ==
    IF ~IndexValid(t) THEN SetDataIterator(t, NoIter)
    ELSE IF t.data # NoIter /\ t.block = t.index.at THEN t
    ELSE [SetDataIterator(t, IF t.index.at \in unreadable THEN ErrorIter
                             ELSE BlockEnd(Len(table[t.index.at]), RestartInterval))
            EXCEPT !.block = t.index.at]

(* A move of the data iterator, if it has a block. *)
DataFirst(t) == IF ~IsBlock(t) THEN t ELSE [t EXCEPT !.data = BlockFirst(Size(t), RestartInterval)]
DataLast(t)  == IF ~IsBlock(t) THEN t ELSE [t EXCEPT !.data = BlockLast(Size(t), RestartInterval)]
DataSeek(t, target) ==
    IF ~IsBlock(t) THEN t
    ELSE LET order == [i \in 1..Size(t) |-> Compare(InternalKey(table[t.block][i]), target)]
         IN  [t EXCEPT !.data = BlockSeek(Size(t), RestartInterval, t.data, order)]

(* SkipEmptyDataBlocksForward and Backward *)
Forward(t) ==
    DataFirst(InitDataBlock([t EXCEPT !.index = BlockNext(Len(table), 1, t.index)]))
Backward(t) ==
    DataLast(InitDataBlock([t EXCEPT !.index = BlockPrev(Len(table), 1, t.index)]))
SkippedOne(t, way) ==
    IF DataValid(t) THEN t
    ELSE IF ~IndexValid(t) THEN SetDataIterator(t, NoIter)
    ELSE IF way = "forward" THEN Forward(t) ELSE Backward(t)
Skipped(t, way) ==
    LET after[k \in 0..Len(table) + 2] == IF k = 0 THEN t ELSE SkippedOne(after[k - 1], way)
    IN  after[Len(table) + 2]
SkipForward(t)  == Skipped(t, "forward")
SkipBackward(t) == Skipped(t, "backward")

(* The index key of a block is its last key or has a user key before that  *)
(* of the next block's first (TableBuilder::Add, Finish).                  *)
IndexOrder(target) ==
    [n \in 1..Len(table) |->
       LET last == InternalKey(Last(table[n]))
       IN  IF n = Len(table) THEN (IF loose THEN 1 ELSE Compare(last, target))
           ELSE LET next == InternalKey(table[n + 1][1])
                IN  IF loose /\ last[1] # next[1]
                    THEN (IF target[1] < next[1] THEN 1 ELSE -1)
                    ELSE Compare(last, target)]

TableSeek(t, target) ==
    SkipForward(DataSeek(InitDataBlock(
        [t EXCEPT !.index = BlockSeek(Len(table), 1, t.index, IndexOrder(target))]), target))
TableFirst(t) ==
    SkipForward(DataFirst(InitDataBlock([t EXCEPT !.index = BlockFirst(Len(table), 1)])))
TableLast(t) ==
    SkipBackward(DataLast(InitDataBlock([t EXCEPT !.index = BlockLast(Len(table), 1)])))
TableNext(t) == SkipForward([t EXCEPT !.data = BlockNext(Size(t), RestartInterval, t.data)])
TablePrev(t) == SkipBackward([t EXCEPT !.data = BlockPrev(Size(t), RestartInterval, t.data)])

-----------------------------------------------------------------------------
(* MergingIterator: mem is the entry the memtable's iterator is at (0 if   *)
(* none) and current the child it shows. A method takes the number of      *)
(* updates the memtable holds, twice where the writer may come in between  *)
(* two calls of it. Internal keys are unique, so two children are never at *)
(* the same one.                                                           *)

InMem(n) == (Flushed + 1)..n
Children == {"mem", "table"}
EntryOf(m, child) == IF child = "mem" THEN m.mem ELSE EntryAt(m.table)
MergeEntry(m)     == IF m.current = "none" THEN 0 ELSE EntryOf(m, m.current)

Select(m, Best(_)) ==
    LET best == Best({EntryOf(m, c) : c \in Children} \ {0})
    IN  [m EXCEPT !.current = IF best = 0 THEN "none"
                              ELSE CHOOSE c \in Children : EntryOf(m, c) = best]
FindSmallest(m) == Select([m EXCEPT !.forward = TRUE], FirstOf)
FindLargest(m)  == Select([m EXCEPT !.forward = FALSE], LastOf)

MergeFirst(m, n) == FindSmallest([m EXCEPT !.mem = FirstOf(InMem(n)), !.table = TableFirst(@)])
MergeLast(m, n)  == FindLargest([m EXCEPT !.mem = LastOf(InMem(n)), !.table = TableLast(@)])
MergeSeek(m, target, n) ==
    FindSmallest([m EXCEPT !.mem = MemSeek(InMem(n), target), !.table = TableSeek(@, target)])

(* The other child after a change of direction *)
TurnForward(m, n) ==
    LET key == InternalKey(MergeEntry(m))
    IN  IF m.forward THEN m
        ELSE IF m.current = "mem" THEN [m EXCEPT !.table = TableSeek(@, key)]
        ELSE [m EXCEPT !.mem = MemSeek(InMem(n), key)]
TurnBackward(m, n, more) ==
    LET key == InternalKey(MergeEntry(m))
        t   == TableSeek(m.table, key)
        i   == MemSeek(InMem(n), key)
    IN  IF ~m.forward THEN m
        ELSE IF m.current = "mem"
        THEN [m EXCEPT !.table = IF DataValid(t) THEN TablePrev(t) ELSE TableLast(t)]
        ELSE [m EXCEPT !.mem = IF i # 0 THEN MemPrev(InMem(more), i) ELSE LastOf(InMem(more))]

MergeNext(m, n, more) ==
    LET turned == TurnForward(m, n)
    IN  FindSmallest(IF m.current = "mem" THEN [turned EXCEPT !.mem = MemNext(InMem(more), @)]
                     ELSE [turned EXCEPT !.table = TableNext(@)])
MergePrev(m, n, more) ==
    LET turned == TurnBackward(m, n, more)
    IN  FindLargest(IF m.current = "mem" THEN [turned EXCEPT !.mem = MemPrev(InMem(more), @)]
                    ELSE [turned EXCEPT !.table = TablePrev(@)])

-----------------------------------------------------------------------------
(* DBIter. key is saved_key_ (0 if empty; what Seek puts there is never    *)
(* read), value is saved_value_; skipping and found are locals of          *)
(* FindNextUserEntry and FindPrevUserEntry: found is value_type not being  *)
(* a deletion. One iteration of a loop is one step, and the writer may     *)
(* come in between any two.                                                *)

Shown    == IF ~iter.valid THEN 0 ELSE IF iter.forward THEN MergeEntry(merge) ELSE iter.value
ShownKey == IF iter.forward THEN Key(MergeEntry(merge)) ELSE iter.key
Visible(e) == e \in 1..snapshot
Live == {i \in 1..snapshot : /\ ~updates[i].deletes
                             /\ \A j \in (i + 1)..snapshot : Key(j) # Key(i)}

(* Where the writer can have got to during a step. *)
Moves(Move(_)) == \E more \in written..MaxUpdates : written' = more /\ merge' = Move(more)

Stop(after) == pc' = "idle" /\ iter' = [after EXCEPT !.valid = FALSE, !.key = 0, !.value = 0]

(* Mutant: without the check. *)
FindNextAlways(after) == pc' = "next" /\ iter' = after

(* The loop of FindNextUserEntry, if the internal iterator is valid. *)
FindNextIf(after) ==
    IF MergeEntry(merge') = 0 THEN Stop(after) ELSE pc' = "next" /\ iter' = after

Insert ==
    /\ written < MaxUpdates /\ written' = written + 1
    /\ UNCHANGED <<database, merge, iter, pc, wanted>>

(* Mutant: entries of the key that was shown are not skipped. *)
StartForwardUnskipped(skipping) == [iter EXCEPT !.forward = TRUE, !.skipping = FALSE]

StartForward(skipping) == [iter EXCEPT !.forward = TRUE, !.skipping = skipping, !.value = 0]

Seek(k) ==
    /\ pc = "idle"
    /\ Moves(LAMBDA more : MergeSeek(merge, <<k, snapshot>>, more))
    /\ FindNextIf([StartForward(FALSE) EXCEPT !.key = 0])
    /\ wanted' = FirstOf({i \in Live : Key(i) >= k})
    /\ UNCHANGED database

SeekToFirst ==
    /\ pc = "idle"
    /\ Moves(LAMBDA more : MergeFirst(merge, more))
    /\ FindNextIf([StartForward(FALSE) EXCEPT !.key = 0])
    /\ wanted' = FirstOf(Live)
    /\ UNCHANGED database

SeekToLast ==
    /\ pc = "idle"
    /\ Moves(LAMBDA more : MergeLast(merge, more))
    /\ pc' = "prev" /\ iter' = [iter EXCEPT !.forward = FALSE, !.found = FALSE, !.value = 0]
    /\ wanted' = LastOf(Live)
    /\ UNCHANGED database

NextUser ==
    /\ pc = "idle" /\ iter.valid
    /\ Moves(LAMBDA more : IF ~iter.forward /\ MergeEntry(merge) = 0 THEN MergeFirst(merge, more)
                           ELSE MergeNext(merge, written, more))
    /\ FindNextIf([StartForward(TRUE) EXCEPT !.key = ShownKey])
    /\ wanted' = FirstOf({i \in Live : Key(i) > ShownKey})
    /\ UNCHANGED database

FindNextUserEntry ==
    /\ pc = "next"
    /\ LET e     == MergeEntry(merge)
           hides == Visible(e) /\ updates[e].deletes
           shows == Visible(e) /\ ~updates[e].deletes /\ ~(iter.skipping /\ Key(e) <= iter.key)
       IN  \/ /\ shows
              /\ pc' = "idle" /\ iter' = [iter EXCEPT !.valid = TRUE, !.key = 0]
              /\ UNCHANGED <<written, merge>>
           \/ /\ ~shows
              /\ Moves(LAMBDA more : MergeNext(merge, written, more))
              /\ FindNextIf(IF hides THEN [iter EXCEPT !.key = Key(e), !.skipping = TRUE] ELSE iter)
    /\ UNCHANGED <<database, wanted>>

Prev ==
    /\ pc = "idle" /\ iter.valid
    /\ pc' = IF iter.forward THEN "scan" ELSE "prev"
    /\ iter' = [iter EXCEPT !.key = ShownKey, !.found = FALSE]
    /\ wanted' = LastOf({i \in Live : Key(i) < ShownKey})
    /\ UNCHANGED <<database, written, merge>>

(* Backwards out of the entries of the key that was shown *)
TurnAround ==
    /\ pc = "scan"
    /\ Moves(LAMBDA more : MergePrev(merge, written, more))
    /\ LET e == MergeEntry(merge')
       IN  \/ e = 0 /\ Stop(iter)
           \/ e # 0 /\ Key(e) < iter.key /\ pc' = "prev" /\ iter' = [iter EXCEPT !.forward = FALSE]
           \/ e # 0 /\ Key(e) >= iter.key /\ UNCHANGED <<pc, iter>>
    /\ UNCHANGED <<database, wanted>>

(* Mutant: the first value is taken, whatever newer entries follow. *)
ReachesPreviousAtOnce(e) == iter.found

ReachesPrevious(e) == Visible(e) /\ iter.found /\ Key(e) < iter.key

FindPrevUserEntry ==
    /\ pc = "prev"
    /\ LET e    == MergeEntry(merge)
           done == e = 0 \/ ReachesPrevious(e)
       IN  \/ /\ done /\ iter.found
              /\ pc' = "idle" /\ iter' = [iter EXCEPT !.valid = TRUE]
              /\ UNCHANGED <<written, merge>>
           \/ /\ done /\ ~iter.found
              /\ pc' = "idle"
              /\ iter' = [iter EXCEPT !.valid = FALSE, !.key = 0, !.value = 0, !.forward = TRUE]
              /\ UNCHANGED <<written, merge>>
           \/ /\ ~done
              /\ iter' = IF ~Visible(e) THEN iter
                         ELSE IF updates[e].deletes
                         THEN [iter EXCEPT !.found = FALSE, !.key = 0, !.value = 0]
                         ELSE [iter EXCEPT !.found = TRUE, !.key = Key(e), !.value = e]
              /\ Moves(LAMBDA more : MergePrev(merge, written, more))
              /\ UNCHANGED pc
    /\ UNCHANGED <<database, wanted>>

-----------------------------------------------------------------------------
(* A sorted run of the first n entries, and the blocks that TableBuilder   *)
(* cuts it into.                                                           *)
IsSortedRun(run, n) ==
    /\ \A i \in 1..n : \E p \in 1..n : run[p] = i
    /\ \A p, q \in 1..n : p < q => Precedes(InternalKey(run[p]), InternalKey(run[q]))
Cut(s) == [b \in 1..(Len(s) + BlockEntries - 1) \div BlockEntries |->
             SubSeq(s, (b - 1) * BlockEntries + 1, Min({b * BlockEntries, Len(s)}))]

IterInit ==
    /\ updates \in [1..MaxUpdates -> [key : Keys, deletes : BOOLEAN]]
    /\ \E run \in [1..Flushed -> 1..Flushed] : IsSortedRun(run, Flushed) /\ table = Cut(run)
    /\ loose \in BOOLEAN
    /\ unreadable \in SUBSET DOMAIN table
    /\ snapshot \in Snapshots /\ written = Max({snapshot, Flushed})
    /\ \A i \in (snapshot + 1)..MaxUpdates : ~updates[i].deletes      \* no one looks
    /\ merge = [mem |-> 0, table |-> NewTableIterator, current |-> "none", forward |-> TRUE]
    /\ iter = [forward |-> TRUE, valid |-> FALSE, key |-> 0, value |-> 0,
               skipping |-> FALSE, found |-> FALSE]
    /\ pc = "idle" /\ wanted = 0

IterNext ==
    \/ \E k \in Keys : Seek(k)
    \/ SeekToFirst \/ SeekToLast \/ NextUser \/ Prev
    \/ FindNextUserEntry \/ TurnAround \/ FindPrevUserEntry
    \/ Insert

IterSpec == IterInit /\ [][IterNext]_iterVars

-----------------------------------------------------------------------------
(* The types of the state, and what the assertions say: a loop has an      *)
(* internal iterator that is valid and goes its way (db_iter.cc:179-180,   *)
(* 215, 237).                                                              *)
TypeOK ==
    /\ written \in Flushed..MaxUpdates /\ snapshot \in 1..written
    /\ pc \in {"idle", "next", "scan", "prev"} /\ wanted \in 0..snapshot
    /\ merge.current \in Children \union {"none"} /\ merge.mem \in {0} \union InMem(written)
    /\ merge.current # "none" => EntryOf(merge, merge.current) # 0
    /\ iter.key \in Keys \union {0} /\ iter.value \in 0..snapshot
    /\ pc \in {"next", "scan"} => MergeEntry(merge) # 0 /\ iter.forward
    /\ pc = "next" => merge.forward
    /\ pc = "prev" => ~iter.forward
    /\ pc = "idle" /\ iter.valid => Shown # 0 /\ Key(Shown) = ShownKey

(* A call shows the newest visible value of the next key in its direction, *)
(* and no other, wherever earlier calls in either direction left the       *)
(* cursors and whatever the writer has inserted since, also between the    *)
(* calls that one call makes (DBIter over MergingIterator).                *)
CursorCorrect == pc = "idle" /\ unreadable = {} => Shown = wanted /\ ~Failed(merge.table)

(* A block that cannot be read is stepped over, so that this and later     *)
(* calls show too little: after every call that shows another entry than   *)
(* it should, however long the cursor has left that block since, status()  *)
(* says so (TwoLevelIterator::SaveError). *)
GapsReported == pc = "idle" /\ Shown # wanted => Failed(merge.table)
=============================================================================
