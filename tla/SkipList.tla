-------------------------------- MODULE SkipList --------------------------------
(***************************************************************************)
(* The skip list of a memtable (src/src/leveldb/db/skiplist.h): one writer *)
(* links nodes in while a reader searches without a lock. What the reader  *)
(* may see is that of the C++ memory model: with one writer, the stores    *)
(* have an order, the reader knows a prefix of it (its view), and a load   *)
(* returns any store to its cell that the view has not overtaken.          *)
(* Acquiring what was stored with release extends the view to that store.  *)
(*                                                                         *)
(* A node is its key; the null pointer is above all keys, as KeyIsAfterNode*)
(* has it. Comparators and the arena are left out.                         *)
(***************************************************************************)
EXTENDS Integers, Sequences, FiniteSetsExt

CONSTANTS MaxKey,       \* keys are 1 to MaxKey
          MaxHeight     \* kMaxHeight

ASSUME SkipListAssumption == MaxKey \in Nat \ {0} /\ MaxHeight \in Nat \ {0}

VARIABLES
    stores,     \* the stores the writer has done, in order
    height,     \* max_height_, as the writer knows it
    plan,       \* the stores that are left of the insert under way
    published,  \* how many stores the last release of DBImpl::mutex_ covers
    reader      \* the reader's view, its Iterator and the search under way

skipVars == <<stores, height, plan, published, reader>>

HeadNode == 0
Null     == MaxKey + 1
Wild     == -1                          \* what memory holds before it is written
MaxHeightCell == <<-1, 0>>

(* NoBarrier_SetNext and SetNext *)
NoBarrierSetNext(cell, value) == [cell |-> cell, value |-> value, release |-> FALSE]
SetNext(cell, value) == [cell |-> cell, value |-> value, release |-> TRUE]

(* The store to a cell that is the last one at a moment, 0 if none. *)
StoreAt(cell, moment) == Max({0} \union {i \in 1..moment : stores[i].cell = cell})
ValueOf(i) == IF i = 0 THEN Wild ELSE stores[i].value
Now        == Len(stores)

-----------------------------------------------------------------------------
(* The writer *)

NodeNext(x, level) == ValueOf(StoreAt(<<x, level>>, Now))

(* The last node before key on a level, from each node x: keys ascend, so  *)
(* that a search which goes right comes to an end.                         *)
LastBefore(key, level) ==
    LET walk[x \in 0..MaxKey] ==
            IF NodeNext(x, level) \in x + 1 .. key - 1 THEN walk[NodeNext(x, level)] ELSE x
    IN  walk

(* Mutant: prev is only set where the search leaves the top level. *)
PrevOfTop(key) ==
    [level \in 0..MaxHeight |->
        IF level >= height THEN HeadNode ELSE LastBefore(key, height - 1)[HeadNode]]

(* prev[level], as FindGreaterOrEqual fills it, and head_ above. *)
PrevOf(key) ==
    LET prev[level \in 0..MaxHeight] ==
            IF level >= height THEN HeadNode ELSE LastBefore(key, level)[prev[level + 1]]
    IN  prev

Link(key, level, prev) ==
    <<NoBarrierSetNext(<<key, level>>, NodeNext(prev, level)), SetNext(<<prev, level>>, key)>>

(* The links of a new node of height h, from level 0 up. *)
Links(key, h, prev) ==
    [i \in 1..2 * h |-> LET level == (i - 1) \div 2 IN Link(key, level, prev[level])[((i - 1) % 2) + 1]]

ListInsert(key, h) ==
    /\ plan = <<>> /\ StoreAt(<<key, 0>>, Now) = 0
    /\ plan' = (IF h > height THEN <<NoBarrierSetNext(MaxHeightCell, h)>> ELSE <<>>)
                  \o Links(key, h, PrevOf(key))
    /\ height' = Max({height, h})
    /\ UNCHANGED <<stores, published, reader>>

WriterStores ==
    /\ plan # <<>>
    /\ stores' = Append(stores, Head(plan)) /\ plan' = Tail(plan)
    /\ UNCHANGED <<height, published, reader>>

(* DBImpl::Write, back under the mutex *)
SetLastSequence ==
    /\ plan = <<>> /\ published < Now
    /\ published' = Now
    /\ UNCHANGED <<stores, height, plan, reader>>

-----------------------------------------------------------------------------
(* The reader. Its search ends at the last node below key (find = "less")  *)
(* or the first that is not (find = "from").                               *)

(* Mutant: the load does not acquire. *)
ViewAfterRelaxed(i) == reader.view

ViewAfter(i) == IF i # 0 /\ stores[i].release THEN Max({reader.view, i}) ELSE reader.view

Constructed(node, view) == node \in {HeadNode, Null} \/ StoreAt(<<node, 0>>, view) # 0

(* Node::Next: what a load may bring, and the reader after it *)
Loads(cell) == {[next |-> ValueOf(i), view |-> ViewAfter(i)] :
                    i \in {StoreAt(cell, moment) : moment \in reader.view..Now}}
Loaded(load) ==
    [reader EXCEPT !.view = load.view,
                   !.wild = @ \/ load.next = Wild \/ ~Constructed(load.next, load.view)]

(* The reader may come from a release of the mutex, as a new iterator does. *)
Attach ==
    /\ reader.find = "none" /\ reader.view < published
    /\ reader' = [reader EXCEPT !.view = published]
    /\ UNCHANGED <<stores, height, plan, published>>

(* FindGreaterOrEqual, FindLessThan and FindLast, up to their first load *)
Search(find, key) ==
    /\ reader.find = "none"
    /\ \E moment \in reader.view..Now :
         reader' = [reader EXCEPT !.find = find, !.key = key, !.x = HeadNode, !.start = reader.view,
                                  !.level = ValueOf(StoreAt(MaxHeightCell, moment)) - 1]
    /\ UNCHANGED <<stores, height, plan, published>>

ListSeek(key)  == Search("from", key)
ListSeekToLast == Search("less", Null)
ListPrev       == reader.node # Null /\ Search("less", reader.node)

(* One round of their loop *)
SearchStep ==
    /\ reader.find # "none"
    /\ \E load \in Loads(<<reader.x, reader.level>>) :
         LET r == Loaded(load)
         IN  reader' = IF load.next < r.key THEN [r EXCEPT !.x = load.next]
                       ELSE IF r.level > 0 THEN [r EXCEPT !.level = @ - 1]
                       ELSE [r EXCEPT !.node = IF r.find = "from" THEN load.next
                                               ELSE IF r.x = HeadNode THEN Null ELSE r.x,
                                      !.did = r.find, !.find = "none", !.x = HeadNode]
    /\ UNCHANGED <<stores, height, plan, published>>

(* Iterator::SeekToFirst and Next *)
Follow(node) ==
    /\ reader.find = "none"
    /\ \E load \in Loads(<<node, 0>>) :
         reader' = [Loaded(load) EXCEPT !.start = reader.view, !.key = node + 1,
                                        !.node = load.next, !.did = "from"]
    /\ UNCHANGED <<stores, height, plan, published>>

ListSeekToFirst == Follow(HeadNode)
NextNode    == reader.node # Null /\ Follow(reader.node)

-----------------------------------------------------------------------------
ListInit ==
    /\ stores = <<NoBarrierSetNext(MaxHeightCell, 1)>>
                   \o [i \in 1..MaxHeight |-> SetNext(<<HeadNode, i - 1>>, Null)]
    /\ height = 1 /\ plan = <<>> /\ published = Len(stores)
    /\ reader = [view |-> Len(stores), start |-> 0, node |-> Null, find |-> "none", did |-> "none",
                 key |-> 0, x |-> HeadNode, level |-> 0, wild |-> FALSE]

ListNext ==
    \/ \E key \in 1..MaxKey, h \in 1..MaxHeight : ListInsert(key, h)
    \/ WriterStores \/ SetLastSequence
    \/ \E key \in 1..MaxKey : ListSeek(key)
    \/ ListSeekToFirst \/ ListSeekToLast \/ NextNode \/ ListPrev \/ SearchStep \/ Attach

ListSpec == ListInit /\ [][ListNext]_skipVars

-----------------------------------------------------------------------------
(* The reader only follows pointers that were written and only compares    *)
(* keys of nodes whose construction it is sure to see, although nothing is *)
(* locked and max_height_ is read without any order (skiplist.h:349-355).  *)
NoWildRead == ~reader.wild

(* A search finds what an atomic one would have found at some moment since *)
(* it began: nothing that was inserted before it, or that the reader saw   *)
(* earlier, is overlooked, and the iterators may take a search for one     *)
(* step (Iterators). *)
InList(moment) == {stores[i].value : i \in {j \in 1..moment : stores[j].cell[1] >= 0 /\ stores[j].cell[2] = 0
                                                                /\ stores[j].release}} \ {Null}
AtomicResult(moment) ==
    IF reader.did = "from" THEN Min({k \in InList(moment) : k >= reader.key} \union {Null})
    ELSE LET below == {k \in InList(moment) : k < reader.key}
         IN  IF below = {} THEN Null ELSE Max(below)
SearchIsAtomic ==
    reader.find = "none" /\ reader.did # "none" =>
        \E moment \in reader.start..Now : reader.node = AtomicResult(moment)
=============================================================================
