------------------------------- MODULE LsmTree -------------------------------
(***************************************************************************)
(* The data of a LevelDB database and how it moves: memtable, immutable    *)
(* memtable and the levels of table files (src/src/leveldb/db/             *)
(* version_set.cc), with the compactions of db_impl.cc that move it.       *)
(*                                                                         *)
(* An entry is the sequence number of the update that made it; history     *)
(* tells its key and whether it is a deletion.  A file is a number and a   *)
(* set of entries; the number orders the files of level 0, and a file that *)
(* a compaction wrote, which never comes to level 0, has number 0.  Sizes  *)
(* in bytes are data: where the code compares sizes, each outcome that     *)
(* some sizes give is possible.                                            *)
(*                                                                         *)
(* Only the background thread edits the version, one edit at a time, so a  *)
(* compaction is two actions, the choice of its inputs and the             *)
(* installation of its outputs, and whatever happens while mutex_ is       *)
(* released in between: writes, a switch of memtables, snapshots, and the  *)
(* flush of the immutable memtable in the middle of DoCompactionWork.      *)
(* DBImpl models the threads and the waiting.                              *)
(***************************************************************************)
EXTENDS Integers, Sequences, FiniteSets, FiniteSetsExt

CONSTANTS NumKeys,          \* user keys are 1..NumKeys, in the order of the comparator
          Updates,          \* what clients write: a subset of Update
          NumLevels,        \* config::kNumLevels
          MaxMemLevel,      \* config::kMaxMemCompactLevel
          L0Trigger,        \* config::kL0_CompactionTrigger
          ManualRanges,     \* the ranges clients ask to compact, pairs of keys
          OneClient,        \* one client thread: no call while another is waiting
          MayFail,          \* background work may fail
          MaxWrites,        \* bound: updates
          MaxSnapshots      \* bound: snapshots held at a time

Keys   == 1..NumKeys
Update == [key : Keys, kind : {"value", "deletion"}]
Levels == 0..NumLevels - 1

ASSUME LsmAssumption ==
    /\ NumKeys \in Nat \ {0} /\ L0Trigger \in Nat \ {0}
    /\ Updates \subseteq Update
    /\ NumLevels \in Nat /\ MaxMemLevel \in Levels /\ NumLevels >= 3
    /\ ManualRanges \subseteq Keys \X Keys
    /\ OneClient \in BOOLEAN /\ MayFail \in BOOLEAN
    /\ {MaxWrites, MaxSnapshots} \subseteq Nat

VARIABLES
    history,                \* the updates, in order of sequence number
    mem, imm,               \* the memtables; a null imm_ is the empty set
    files,                  \* the current version: per level a set of files
    nextFile,               \* next_file_number_, counting flushed tables
    pointer,                \* compact_pointer_ per level, 0 if empty
    snapshots,              \* the sequence numbers in snapshots_
    bg,                     \* the compaction under way, or NoWork
    failed,                 \* bg_error_ is set
    manual                  \* the ManualCompaction of a waiting client, or NoRequest

vars == <<history, mem, imm, files, nextFile, pointer, snapshots, bg, failed, manual>>
version == <<files, nextFile, pointer>>

LastSequence == Len(history)
Entries      == 1..LastSequence
Key(s)       == history[s].key
Deletes(s)   == history[s].kind = "deletion"

NoWork    == [level |-> -1]
NoRequest == [level |-> -1]

-----------------------------------------------------------------------------
(* Keys and files *)

(* InternalKeyComparator: by user key, then newer entries first. *)
Precedes(s, t) == \/ Key(s) < Key(t)
                  \/ Key(s) = Key(t) /\ s > t

First(S) == CHOOSE s \in S : \A t \in S : ~Precedes(t, s)
Last(S)  == CHOOSE s \in S : \A t \in S : ~Precedes(s, t)

Smallest(f) == First(f.data)
Largest(f)  == Last(f.data)
Content(F)  == UNION {f.data : f \in F}
Low(F)      == Key(First(Content(F)))
High(F)     == Key(Last(Content(F)))

(* SomeFileOverlapsRange, and the test of GetOverlappingInputs. *)
Overlaps(f, lo, hi) == Key(Largest(f)) >= lo /\ Key(Smallest(f)) <= hi
OverlapInLevel(level, lo, hi) == \E f \in files[level] : Overlaps(f, lo, hi)

(* The range to which a search of level 0 grows: the smallest one around   *)
(* [lo, hi] that no file crosses.                                          *)
Crosses(f, r) == Overlaps(f, r[1], r[2])
                 /\ (Key(Smallest(f)) < r[1] \/ Key(Largest(f)) > r[2])
GrownRange(lo, hi) ==
    LET Closed == {r \in Keys \X Keys : /\ r[1] <= lo /\ r[2] >= hi
                                        /\ ~\E f \in files[0] : Crosses(f, r)}
    IN  CHOOSE r \in Closed : \A q \in Closed : q[1] <= r[1] /\ q[2] >= r[2]

GetOverlappingInputs(level, lo, hi) ==
    LET r == IF level = 0 THEN GrownRange(lo, hi) ELSE <<lo, hi>>
    IN  {f \in files[level] : Overlaps(f, r[1], r[2])}

(* FindSmallestBoundaryFile: files that begin with older entries of the    *)
(* last user key of F; the first of them.                                  *)
Boundary(level, F) ==
    {g \in files[level] : /\ F # {}
                          /\ Precedes(Last(Content(F)), Smallest(g))
                          /\ Key(Last(Content(F))) = Key(Smallest(g))}
FirstBoundary(level, F) ==
    {g \in Boundary(level, F) :
        \A h \in Boundary(level, F) : ~Precedes(Smallest(h), Smallest(g))}

(* Mutant: boundary files stay behind. *)
AddBoundaryInputsNone(level, F) == F

(* AddBoundaryInputs: as long as there is such a file, it joins F.         *)
AddBoundaryInputs(level, F) ==
    LET n == Cardinality(files[level])
        extended[i \in 0..n] ==
          IF i = 0 THEN F ELSE extended[i - 1] \union FirstBoundary(level, extended[i - 1])
    IN  extended[n]

With(level, F) ==
    AddBoundaryInputs(level, GetOverlappingInputs(level, Low(F), High(F)))

(* SetupOtherInputs: the files of the level and of the next one; the       *)
(* first set is widened if that takes no more files of the second, and if  *)
(* the sizes allow.                                                        *)
SetupOtherInputs(level, picked) ==
    LET inputs      == AddBoundaryInputs(level, picked)
        parents     == With(level + 1, inputs)
        wide        == With(level, inputs \union parents)
        wideParents == With(level + 1, wide)
        MayWiden    == /\ parents # {}
                       /\ Cardinality(wide) > Cardinality(inputs)
                       /\ Cardinality(wideParents) = Cardinality(parents)
    IN  {<<inputs, parents>>}
          \union (IF MayWiden THEN {<<wide, wideParents>>} ELSE {})

-----------------------------------------------------------------------------
(* Reading *)

(* The order of a level's file list, and its first and last file. *)
Front(F) == CHOOSE f \in F : \A g \in F : ~Precedes(Smallest(g), Smallest(f))
Back(F)  == CHOOSE f \in F : \A g \in F : ~Precedes(Smallest(f), Smallest(g))

(* ForEachOverlapping: the files a read of key k at sequence number s      *)
(* looks into.  FindFile gives the first file that does not end before.    *)
Searched(level, k, s) ==
    IF level = 0
    THEN {f \in files[0] : Overlaps(f, k, k)}
    ELSE LET NotBefore == {f \in files[level] :
                              \/ Key(Largest(f)) > k
                              \/ Key(Largest(f)) = k /\ Largest(f) <= s}
         IN  {f \in NotBefore : f = Front(NotBefore) /\ Key(Smallest(f)) <= k}

Visible(S, k, s) == {t \in S : Key(t) = k /\ t <= s}

(* DBImpl::Get and Version::Get: the places in the order in which they are *)
(* searched; 0 stands for NotFound.                                        *)
Newest(F) == CHOOSE f \in F : \A g \in F : f.num >= g.num
Places(k, s) ==
    LET hits == {f \in Searched(0, k, s) : Visible(f.data, k, s) # {}}
    IN  <<mem, imm, IF hits = {} THEN {} ELSE Newest(hits).data>>
          \o [l \in 1..NumLevels - 1 |-> Content(Searched(l, k, s))]

Value(S) == IF S = {} \/ Deletes(Max(S)) THEN 0 ELSE Max(S)

Get(k, s) ==
    LET places == Places(k, s)
        found  == [i \in DOMAIN places |-> Visible(places[i], k, s)]
        hits   == {i \in DOMAIN found : found[i] # {}}
    IN  IF hits = {} THEN 0 ELSE Value(found[Min(hits)])

(* Version::Get and RecordReadSample charge a seek to the first of several *)
(* files of a read; UpdateStats makes it the file to compact.              *)
Charged(k, s) ==
    LET looked == [l \in Levels |-> Searched(l, k, s)]
        top    == Min({l \in Levels : looked[l] # {}})
    IN  IF Cardinality(UNION {looked[l] : l \in Levels}) < 2 THEN {}
        ELSE {<<top, Newest(looked[top])>>}

-----------------------------------------------------------------------------
(* Choosing what to compact *)

(* Mutant: only level 0 is looked at. *)
PickLevelsUnchecked(S) ==
    {l \in 0..MaxMemLevel : l = 0 \/ ~OverlapInLevel(0, Key(First(S)), Key(Last(S)))}

(* PickLevelForMemTableOutput; the grandparents' size may stop it.         *)
PickLevels(S) ==
    LET lo == Key(First(S))
        hi == Key(Last(S))
        Taken(l) == OverlapInLevel(l, lo, hi)
        Reached(l) == l = 0 \/ \A i \in 0..l : ~Taken(i)
        Stops(l) == \/ l = MaxMemLevel
                    \/ l = 0 /\ Taken(0)
                    \/ Taken(l + 1)
                    \/ l + 2 < NumLevels /\ GetOverlappingInputs(l + 2, lo, hi) # {}
    IN  {l \in 0..MaxMemLevel : Reached(l) /\ Stops(l)}

(* PickCompaction: level 0 is due by its number of files, another level by *)
(* its size; a file that was charged too often only if nothing is due.     *)
NextInLine(level) ==
    LET after == {f \in files[level] : \/ pointer[level] = 0
                                       \/ Precedes(pointer[level], Largest(f))}
    IN  Front(IF after = {} THEN files[level] ELSE after)

L0Due     == Cardinality(files[0]) >= L0Trigger
DueLevels == {l \in 1..NumLevels - 2 : files[l] # {}}
               \union (IF L0Due THEN {0} ELSE {})
SizePicks == {<<l, NextInLine(l)>> : l \in DueLevels}
SeekPicks == IF L0Due THEN {}
             ELSE UNION {Charged(k, s) : k \in Keys, s \in 0..LastSequence}

(* Mutant: a level-0 file is compacted without those it overlaps. *)
AutoPicksAlone == {<<p[1], {p[2]}>> : p \in SizePicks \union SeekPicks}

AutoPicks ==
    {<<p[1], IF p[1] = 0 THEN GetOverlappingInputs(0, Low({p[2]}), High({p[2]}))
             ELSE {p[2]}>> : p \in SizePicks \union SeekPicks}

(* VersionSet::CompactRange: above level 0 only as many files, from the    *)
(* left, as the size limit admits.                                         *)
ManualInputs == GetOverlappingInputs(manual.level, manual.lo, manual.hi)
ManualPicks ==
    {<<manual.level, F>> :
        F \in IF manual.level = 0 THEN {ManualInputs} \ {{}}
              ELSE {{g \in ManualInputs : ~Precedes(Smallest(f), Smallest(g))} :
                       f \in ManualInputs}}

Posted == manual # NoRequest /\ manual.posted

(* IsBaseLevelForKey, for the keys for which it is true. *)
BaseKeys(level) ==
    {k \in Keys : \A l \in level + 2..NumLevels - 1 : ~OverlapInLevel(l, k, k)}

(* Mutant: snapshots are not asked. *)
OldestSnapshotIgnored == LastSequence

OldestSnapshot == IF snapshots = {} THEN LastSequence ELSE Min(snapshots)

(* What a compaction may be at this moment. *)
Compaction(level, in) ==
    [level |-> level, isManual |-> Posted, inputs |-> in[1], parents |-> in[2],
     smallestSnapshot |-> OldestSnapshot, base |-> BaseKeys(level)]
Compactions ==
    UNION {{Compaction(p[1], in) : in \in SetupOtherInputs(p[1], p[2])} :
             p \in IF Posted THEN ManualPicks ELSE AutoPicks}

(* The files of level + 2 that the outputs may overlap. *)
Grandparents(c) ==
    IF c.level + 2 >= NumLevels THEN {}
    ELSE LET all == c.inputs \union c.parents
         IN  GetOverlappingInputs(c.level + 2, Low(all), High(all))

Movable(c) == ~c.isManual /\ Cardinality(c.inputs) = 1 /\ c.parents = {}

-----------------------------------------------------------------------------
(* The outputs of a compaction *)

(* The loop of DoCompactionWork: an entry is hidden if the next newer one  *)
(* of its key is visible to every snapshot; a deletion every snapshot sees *)
(* is dropped if no deeper level may hold its key.                         *)
Kept(c) ==
    LET input    == Content(c.inputs \union c.parents)
        Newer(s) == {t \in input : Key(t) = Key(s) /\ t > s}
        Hidden(s) == Newer(s) # {} /\ Min(Newer(s)) <= c.smallestSnapshot
        Obsolete(s) == Deletes(s) /\ s <= c.smallestSnapshot /\ Key(s) \in c.base
    IN  {s \in input : ~Hidden(s) /\ ~Obsolete(s)}

(* The output files when new files begin at the entries in begins: sizes   *)
(* and grandparents may end a file before any entry (ShouldStopBefore).    *)
OutputFiles(S, begins) ==
    {[num  |-> 0,
      data |-> {s \in S : /\ ~Precedes(s, b)
                          /\ ~\E a \in begins : Precedes(b, a) /\ ~Precedes(s, a)}] :
        b \in begins}

(* Mutant: the first output is opened before there is anything to keep. *)
OutputsOpened(S) ==
    IF S = {} THEN {{[num |-> 0, data |-> {}]}}
    ELSE {OutputFiles(S, B \union {First(S)}) : B \in SUBSET (S \ {First(S)})}

Outputs(S) ==
    IF S = {} THEN {{}}
    ELSE {OutputFiles(S, B \union {First(S)}) : B \in SUBSET (S \ {First(S)})}

-----------------------------------------------------------------------------
(* Clients *)

Init ==
    /\ history = <<>> /\ mem = {} /\ imm = {}
    /\ files = [l \in Levels |-> {}] /\ nextFile = 1 /\ pointer = [l \in Levels |-> 0]
    /\ snapshots = {} /\ bg = NoWork /\ failed = FALSE
    /\ manual = NoRequest

ClientIsFree == OneClient => manual = NoRequest

(* Write; MakeRoomForWrite refuses it after a background error. *)
Write(u) ==
    /\ ClientIsFree /\ ~failed /\ LastSequence < MaxWrites
    /\ history' = Append(history, u)
    /\ mem' = mem \union {LastSequence + 1}
    /\ UNCHANGED <<imm, version, snapshots, bg, failed, manual>>

(* MakeRoomForWrite with a full memtable. *)
SwitchMemTable ==
    /\ ClientIsFree /\ ~failed /\ mem # {} /\ imm = {}
    /\ imm' = mem /\ mem' = {}
    /\ UNCHANGED <<history, version, snapshots, bg, failed, manual>>

(* Two snapshots at one sequence number count as one. *)
GetSnapshot ==
    /\ ClientIsFree /\ Cardinality(snapshots) < MaxSnapshots
    /\ LastSequence \notin snapshots
    /\ snapshots' = snapshots \union {LastSequence}
    /\ UNCHANGED <<history, mem, imm, version, bg, failed, manual>>

ReleaseSnapshot(s) ==
    /\ ClientIsFree
    /\ snapshots' = snapshots \ {s}
    /\ UNCHANGED <<history, mem, imm, version, bg, failed, manual>>

(* TEST_CompactRange: the call, and its request put back after each part   *)
(* of the range; one such call waits at a time.                            *)
CompactRange(level, r) ==
    /\ manual = NoRequest /\ ~failed
    /\ manual' = [level |-> level, lo |-> r[1], hi |-> r[2], posted |-> TRUE, done |-> FALSE,
                  range |-> r, before |-> files[level]]
    /\ UNCHANGED <<history, mem, imm, version, snapshots, bg, failed>>

PostAgain ==
    /\ manual # NoRequest /\ ~manual.posted /\ ~manual.done /\ ~failed
    /\ manual' = [manual EXCEPT !.posted = TRUE]
    /\ UNCHANGED <<history, mem, imm, version, snapshots, bg, failed>>

ManualReturn ==
    /\ manual # NoRequest /\ (manual.done \/ failed)
    /\ manual' = NoRequest
    /\ UNCHANGED <<history, mem, imm, version, snapshots, bg, failed>>

-----------------------------------------------------------------------------
(* The background thread *)

(* CompactMemTable, by BackgroundCompaction or inside DoCompactionWork.    *)
MemTableDue == imm # {} /\ (bg # NoWork \/ ~failed)

CompactMemTable ==
    /\ MemTableDue
    /\ \E l \in PickLevels(imm) :
          files' = [files EXCEPT ![l] = @ \union {[num |-> nextFile, data |-> imm]}]
    /\ nextFile' = nextFile + 1
    /\ imm' = {}
    /\ UNCHANGED <<history, mem, pointer, snapshots, bg, failed, manual>>

(* The number of a table that was not built is not counted. *)
CompactMemTableFails ==
    /\ MayFail /\ MemTableDue
    /\ failed' = TRUE
    /\ UNCHANGED <<history, mem, imm, version, snapshots, bg, manual>>

(* BackgroundCompaction, when there is no immutable memtable. *)
MayBegin == bg = NoWork /\ ~failed /\ imm = {}

ManualNothing ==
    /\ MayBegin /\ Posted /\ ManualPicks = {}
    /\ manual' = [manual EXCEPT !.posted = FALSE, !.done = TRUE]
    /\ UNCHANGED <<history, mem, imm, version, snapshots, bg, failed>>

(* SetupOtherInputs leaves the level's compact_pointer_ behind the inputs. *)
PointerAfter(c) == [pointer EXCEPT ![c.level] = Last(Content(c.inputs))]

(* VersionSet::Builder: the edit of a compaction takes its inputs out of   *)
(* two levels and adds files to the deeper one.                            *)
Edited(c, added) ==
    [files EXCEPT ![c.level] = @ \ c.inputs,
                  ![c.level + 1] = (@ \ c.parents) \union added]

TrivialMove(c) ==
    /\ Movable(c)
    /\ files' = Edited(c, c.inputs)
    /\ UNCHANGED <<bg, failed>>

TrivialMoveFails(c) ==
    /\ MayFail /\ Movable(c)
    /\ failed' = TRUE
    /\ UNCHANGED <<bg, files>>

BeginCompaction(c) ==
    /\ Movable(c) => Grandparents(c) # {}
    /\ bg' = c
    /\ UNCHANGED <<files, failed>>

BackgroundCompaction ==
    /\ MayBegin
    /\ \E c \in Compactions :
         /\ TrivialMove(c) \/ TrivialMoveFails(c) \/ BeginCompaction(c)
         /\ pointer' = PointerAfter(c)
    /\ UNCHANGED <<history, mem, imm, nextFile, snapshots, manual>>

(* The end of BackgroundCompaction for a manual compaction: what is left   *)
(* begins with the last key of the last input file.  A cancelled request   *)
(* is the null pointer of DBImpl's RequestOutlivesCompaction.              *)
RemainingRange == Key(Largest(Back(bg.inputs)))
(* Mutant: the request is done after its first part. *)
EndManualAtOnce(ok) ==
    IF ~bg.isManual THEN UNCHANGED manual
    ELSE manual # NoRequest /\ manual' = [manual EXCEPT !.posted = FALSE, !.done = TRUE]

EndManual(ok) ==
    IF ~bg.isManual THEN UNCHANGED manual
    ELSE /\ manual # NoRequest
         /\ manual' = [manual EXCEPT !.posted = FALSE, !.done = ~ok,
                                     !.lo = IF ok THEN RemainingRange ELSE @]

(* InstallCompactionResults. *)
EndCompaction ==
    /\ bg # NoWork
    /\ \E F \in Outputs(Kept(bg)) : files' = Edited(bg, F)
    /\ EndManual(TRUE)
    /\ bg' = NoWork
    /\ UNCHANGED <<history, mem, imm, nextFile, pointer, snapshots, failed>>

CompactionFails ==
    /\ MayFail /\ bg # NoWork
    /\ failed' = TRUE /\ bg' = NoWork
    /\ EndManual(FALSE)
    /\ UNCHANGED <<history, mem, imm, version, snapshots>>

-----------------------------------------------------------------------------
Background ==
    \/ CompactMemTable \/ CompactMemTableFails
    \/ ManualNothing
    \/ BackgroundCompaction \/ EndCompaction \/ CompactionFails

Next ==
    \/ \E u \in Updates : Write(u)
    \/ SwitchMemTable
    \/ GetSnapshot
    \/ \E s \in snapshots : ReleaseSnapshot(s)
    \/ \E l \in 0..NumLevels - 2, r \in ManualRanges : CompactRange(l, r)
    \/ PostAgain
    \/ ManualReturn
    \/ Background

Spec == Init /\ [][Next]_vars

-----------------------------------------------------------------------------
(* Properties *)

(* Types; in particular no file is empty and those of level 0 are numbered *)
(* once, which the orders of file lists presuppose (WriteLevel0Table,      *)
(* OpenCompactionOutputFile).                                              *)
AllFiles == UNION {files[l] : l \in Levels}
TypeOK ==
    /\ history \in Seq(Update)
    /\ mem \subseteq Entries /\ imm \subseteq Entries
    /\ DOMAIN files = Levels
    /\ \A f \in AllFiles : f.data # {} /\ f.data \subseteq Entries /\ f.num < nextFile
    /\ \A f, g \in files[0] : f # g => f.num # g.num
    /\ pointer \in [Levels -> {0} \union Entries]
    /\ snapshots \subseteq {0} \union Entries
    /\ failed \in BOOLEAN

(* The files of a level above 0 do not overlap (MaybeAddFile asserts it,   *)
(* and FindFile relies on it), although flushes choose their level while a *)
(* compaction works on two of them.                                        *)
LevelsDisjoint ==
    \A l \in Levels \ {0} : \A f, g \in files[l] :
        f # g => Precedes(Largest(f), Smallest(g)) \/ Precedes(Largest(g), Smallest(f))

(* A read that stops at the first place that has the key is right: every   *)
(* entry of a key in a place searched earlier is newer than those in a     *)
(* place searched later, whatever moved between the levels.                *)
Shadows(S, T) == \A s \in S, t \in T : Key(s) = Key(t) => s > t
NewerFirst ==
    /\ Shadows(mem, imm)
    /\ \A f \in AllFiles : Shadows(mem \union imm, f.data)
    /\ \A f, g \in files[0] : f.num > g.num => Shadows(f.data, g.data)
    /\ \A l, m \in Levels : l < m => Shadows(Content(files[l]), Content(files[m]))

(* A read at the latest sequence number or at a snapshot returns what the  *)
(* history says, across flushes, moves and compactions that drop entries   *)
(* and deletion markers (DBImpl::Get, Version::Get).                       *)
ReadsAreCurrent ==
    \A k \in Keys, s \in snapshots \union {LastSequence} :
        Get(k, s) = Value(Visible(Entries, k, s))

(* When a manual compaction has finished without an error, no entry of its *)
(* range that was in the level when it was called is there any more,       *)
(* though it is done in parts and other work runs between the parts        *)
(* (DBImpl::TEST_CompactRange, the end of BackgroundCompaction).           *)
InRange(s, r) == r[1] <= Key(s) /\ Key(s) <= r[2]
ManualCovers ==
    manual # NoRequest /\ manual.done /\ ~failed =>
        \A s \in Content(manual.before) :
            InRange(s, manual.range) => s \notin Content(files[manual.level])
=============================================================================
