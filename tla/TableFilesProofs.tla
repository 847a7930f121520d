-------------------------- MODULE TableFilesProofs --------------------------
(***************************************************************************)
(* NoTableMissing, CacheConsistent and RemovalSucceeds for every number of *)
(* readers and files and every capacity of the cache.                      *)
(*                                                                         *)
(* What a reader, a compaction or a check opens is there (FilesInv): the   *)
(* cache plays no part in this, since a file that is open is kept or is    *)
(* only a name less; what matters is that versions are referred to and     *)
(* that outputs are pending. The other two rest on it and on the counting  *)
(* of the cache's references (CacheInv): what RemoveObsoleteFiles lists    *)
(* was evicted, so an entry of it is there only while somebody holds it,   *)
(* and whoever holds an entry has a version or a compaction that keeps its *)
(* file off the list.                                                      *)
(***************************************************************************)
EXTENDS TableFiles, DataLemmas, FiniteSetTheorems

Initial == [version |-> {}, opening |-> 0, opened |-> FALSE, holds |-> {},
            at |-> "idle", back |-> "idle", file |-> 0]

Shape ==
    /\ DOMAIN threads = Threads
    /\ \A t \in Threads : DOMAIN threads[t] = DOMAIN Initial
    /\ DOMAIN compaction = DOMAIN NoCompaction
    /\ nextFile \in Int

(* Who refers to which version: the readers, the compaction and the        *)
(* version set itself. refs_ counts them.                                  *)
VersionSet == "version set"
ReaderRefs == UNION {{<<r, v>> : v \in threads[r].version} : r \in Readers}
Held ==
    ReaderRefs
      \union (IF compaction.inputs = {} THEN {} ELSE {<<Background, compaction.version>>})
      \union {<<VersionSet, current>>}

RefsTo(held, v) == {p \in held : p[2] = v}
Counted(vs, held) ==
    /\ IsFiniteSet(held)
    /\ \A p \in held : p[2] \in DOMAIN vs
    /\ \A v \in DOMAIN vs : vs[v] = Cardinality(RefsTo(held, v))

VersionsCounted ==
    /\ Counted(versions, Held)
    /\ \A r \in Readers : \A v, w \in threads[r].version : v = w

(* The versions' files are there, and so are the outputs that the next     *)
(* version will have.                                                      *)
Flushing == {"flush", "verify flush", "apply flush"}
OnDisk ==
    /\ LiveFiles(versions) \subseteq disk
    /\ Bg.at # "output" => compaction.outputs \subseteq disk
    /\ Bg.at \in {"verify flush", "apply flush"} => Bg.file \in disk

(* RemoveObsoleteFiles has nothing of them on its list.                    *)
DoomedAreDead ==
    /\ doomed \cap (LiveFiles(versions) \union compaction.outputs) = {}
    /\ Bg.at # "remove" => doomed = {}

OutputsArePending ==
    /\ compaction.outputs \subseteq pending
    /\ \A f \in compaction.outputs : f \in Int /\ f < nextFile
    /\ Bg.at \in Flushing => Bg.file \notin compaction.outputs
    /\ Bg.at = "output" => compaction.outputs = {Bg.file}
    /\ Bg.at = "verify output" => compaction.outputs # {}

(* What the background thread works on, CompactMemTable aside.             *)
Place == IF Bg.at \in Flushing \union {"remove"} THEN Bg.back ELSE Bg.at
CompactionInPlace ==
    /\ Place = "idle" <=> compaction.inputs = {}
    /\ compaction.inputs = {} => compaction.outputs = {}
    /\ compaction.inputs \subseteq compaction.version
    /\ Bg.at \in Flushing \union {"remove"} => Bg.back \in {"idle", "compacting"}

(* What is being opened is there, for a reader because of its version.     *)
OpeningIsThere ==
    /\ \A t \in Threads : threads[t].opening # 0 => threads[t].opening \in disk
    /\ \A r \in Readers : threads[r].opening # 0 =>
         \E v \in threads[r].version : threads[r].opening \in v

FilesInv ==
    /\ Shape /\ VersionsCounted /\ OnDisk /\ DoomedAreDead /\ OutputsArePending
    /\ CompactionInPlace /\ OpeningIsThere /\ NoTableMissing

-----------------------------------------------------------------------------
(* Reference counts *)

(* The references to one version are finitely many. *)
LEMMA RefsFinite ==
    ASSUME NEW held, IsFiniteSet(held), NEW v
    PROVE  IsFiniteSet(RefsTo(held, v)) /\ Cardinality(RefsTo(held, v)) \in Nat
<1>1. RefsTo(held, v) \subseteq held
  BY DEF RefsTo
<1> QED
  BY <1>1, FS_Subset, FS_CardinalityType

(* One more reference *)
LEMMA OneMoreRef ==
    ASSUME NEW held, IsFiniteSet(held), NEW p, p \notin held, NEW v
    PROVE  /\ IsFiniteSet(held \union {p})
           /\ Cardinality(RefsTo(held \union {p}, v)) =
                IF p[2] = v THEN Cardinality(RefsTo(held, v)) + 1
                ELSE Cardinality(RefsTo(held, v))
<1>1. IsFiniteSet(held \union {p})
  BY FS_AddElement
<1>2. IsFiniteSet(RefsTo(held, v))
  BY RefsFinite
<1>3. CASE p[2] = v
  <2>1. RefsTo(held \union {p}, v) = RefsTo(held, v) \union {p} /\ p \notin RefsTo(held, v)
    BY <1>3 DEF RefsTo
  <2> QED
    BY <1>1, <1>2, <1>3, <2>1, FS_AddElement
<1>4. CASE p[2] # v
  <2>1. RefsTo(held \union {p}, v) = RefsTo(held, v)
    BY <1>4 DEF RefsTo
  <2> QED
    BY <1>1, <1>4, <2>1
<1> QED
  BY <1>3, <1>4

(* Version::Ref *)
LEMMA RefCounts ==
    ASSUME NEW vs, NEW held, Counted(vs, held), NEW p, p \notin held, p[2] \in DOMAIN vs
    PROVE  /\ Counted(Referred(vs, p[2]), held \union {p})
           /\ DOMAIN Referred(vs, p[2]) = DOMAIN vs
<1> DEFINE ws == Referred(vs, p[2])
<1>1. DOMAIN ws = DOMAIN vs
  BY DEF Referred
<1>2. ASSUME NEW v \in DOMAIN vs
      PROVE  ws[v] = Cardinality(RefsTo(held \union {p}, v))
  <2>1. vs[v] = Cardinality(RefsTo(held, v))
    BY <1>2 DEF Counted
  <2>2. ws[v] = IF p[2] = v THEN vs[v] + 1 ELSE vs[v]
    BY <1>2 DEF Referred
  <2>3. IsFiniteSet(held)
    BY DEF Counted
  <2> HIDE DEF ws
  <2>4. Cardinality(RefsTo(held \union {p}, v)) =
          IF p[2] = v THEN Cardinality(RefsTo(held, v)) + 1 ELSE Cardinality(RefsTo(held, v))
    BY <2>3, OneMoreRef
  <2> QED
    BY <2>1, <2>2, <2>4
<1>3. IsFiniteSet(held \union {p})
  BY OneMoreRef DEF Counted
<1> HIDE DEF ws
<1>4. Counted(ws, held \union {p})
  BY <1>1, <1>2, <1>3 DEF Counted
<1> QED
  BY <1>1, <1>4 DEF ws

(* Version::Unref, which deletes the version with its last reference       *)
LEMMA UnrefCounts ==
    ASSUME NEW vs, NEW held, Counted(vs, held), NEW p \in held
    PROVE  /\ Counted(Unreferred(vs, p[2]), held \ {p})
           /\ DOMAIN Unreferred(vs, p[2]) \subseteq DOMAIN vs
<1> DEFINE ws == Unreferred(vs, p[2])
           rest == held \ {p}
<1>1. p[2] \in DOMAIN vs /\ IsFiniteSet(held) /\ IsFiniteSet(rest)
  BY FS_Subset DEF Counted
<1>2. rest \union {p} = held /\ p \notin rest
  OBVIOUS
<1>3. \A v \in DOMAIN vs : /\ vs[v] = IF p[2] = v THEN Cardinality(RefsTo(rest, v)) + 1
                                      ELSE Cardinality(RefsTo(rest, v))
                           /\ Cardinality(RefsTo(rest, v)) \in Nat
  <2> SUFFICES ASSUME NEW v \in DOMAIN vs
               PROVE  /\ vs[v] = IF p[2] = v THEN Cardinality(RefsTo(rest, v)) + 1
                                 ELSE Cardinality(RefsTo(rest, v))
                      /\ Cardinality(RefsTo(rest, v)) \in Nat
    OBVIOUS
  <2>1. vs[v] = Cardinality(RefsTo(rest \union {p}, v))
    BY <1>2 DEF Counted
  <2> HIDE DEF rest
  <2> QED
    BY <1>1, <1>2, <2>1, OneMoreRef, RefsFinite
<1>4. CASE vs[p[2]] = 1
  <2>1. DOMAIN ws = DOMAIN vs \ {p[2]} /\ \A v \in DOMAIN ws : ws[v] = vs[v]
    BY <1>4 DEF Unreferred, Without
  <2>2. Cardinality(RefsTo(rest, p[2])) = 0
    BY <1>1, <1>3, <1>4
  <2>3. RefsTo(rest, p[2]) = {}
    BY <1>1, <2>2, RefsFinite, FS_EmptySet
  <2>4. \A q \in rest : q[2] \in DOMAIN ws
    BY <2>1, <2>3 DEF Counted, RefsTo
  <2>5. \A v \in DOMAIN ws : ws[v] = Cardinality(RefsTo(rest, v))
    BY <2>1, <1>3
  <2> HIDE DEF ws, rest
  <2>6. Counted(ws, rest)
    BY <1>1, <2>4, <2>5 DEF Counted
  <2> QED
    BY <2>1, <2>6 DEF ws, rest
<1>5. CASE vs[p[2]] # 1
  <2>1. /\ DOMAIN ws = DOMAIN vs
        /\ \A v \in DOMAIN ws : ws[v] = IF p[2] = v THEN vs[v] - 1 ELSE vs[v]
    BY <1>5 DEF Unreferred
  <2>3. \A q \in rest : q[2] \in DOMAIN ws
    BY <2>1 DEF Counted
  <2> HIDE DEF ws, rest
  <2>2. \A v \in DOMAIN ws : ws[v] = Cardinality(RefsTo(rest, v))
    BY <2>1, <1>3
  <2>4. Counted(ws, rest)
    BY <1>1, <2>2, <2>3 DEF Counted
  <2> QED
    BY <2>1, <2>4 DEF ws, rest
<1> QED
  BY <1>4, <1>5

(* VersionSet::AppendVersion: the reference of the version set moves.      *)
LEMMA AppendCounts ==
    ASSUME NEW held, Counted(versions, held), <<VersionSet, current>> \in held, NEW v,
           \A w : <<VersionSet, w>> \in held => w = current
    PROVE  /\ Counted(AppendVersion(versions, v),
                      (held \ {<<VersionSet, current>>}) \union {<<VersionSet, v>>})
           /\ DOMAIN AppendVersion(versions, v) \subseteq DOMAIN versions \union {v}
<1> DEFINE others == Unreferred(versions, current)
           rest   == held \ {<<VersionSet, current>>}
           p      == <<VersionSet, v>>
<1>1. Counted(others, rest) /\ DOMAIN others \subseteq DOMAIN versions
  BY UnrefCounts
<1>2. p \notin rest /\ p[2] = v
  OBVIOUS
<1>3. CASE v \in DOMAIN others
  <2>1. AppendVersion(versions, v) = Referred(others, v)
    BY <1>3 DEF AppendVersion
  <2> HIDE DEF others, rest
  <2>2. /\ Counted(Referred(others, p[2]), rest \union {p})
        /\ DOMAIN Referred(others, p[2]) = DOMAIN others
    BY <1>1, <1>2, <1>3, RefCounts
  <2> QED
    BY <1>1, <1>2, <2>1, <2>2 DEF rest
<1>4. CASE v \notin DOMAIN others
  <2> DEFINE ws == AppendVersion(versions, v)
  <2>1. /\ DOMAIN ws = DOMAIN others \union {v}
        /\ \A w \in DOMAIN ws : ws[w] = IF w = v THEN 1 ELSE others[w]
    BY <1>4 DEF AppendVersion
  <2> HIDE DEF others, rest, ws, p
  <2>2. IsFiniteSet(rest) /\ IsFiniteSet(rest \union {p})
    BY <1>1, <1>2, OneMoreRef DEF Counted
  <2>3. \A q \in rest \union {p} : q[2] \in DOMAIN ws
    BY <1>1, <1>2, <2>1 DEF Counted
  <2>4. RefsTo(rest, v) = {}
    BY <1>1, <1>4 DEF Counted, RefsTo
  <2>5. Cardinality(RefsTo(rest, v)) = 0
    BY <2>4, FS_EmptySet
  <2>6. \A w \in DOMAIN ws : ws[w] = Cardinality(RefsTo(rest \union {p}, w))
    BY <1>1, <1>2, <2>1, <2>2, <2>5, OneMoreRef DEF Counted
  <2>7. Counted(ws, rest \union {p})
    BY <2>2, <2>3, <2>6 DEF Counted
  <2> QED
    BY <1>1, <2>1, <2>7 DEF ws, rest, p
<1> QED
  BY <1>3, <1>4

-----------------------------------------------------------------------------
(* What several steps have in common *)

NamesApart == Background \notin Readers /\ VersionSet \notin Readers /\ Background # VersionSet

(* A step that leaves the references as they are.                          *)
LEMMA SameRefs ==
    ASSUME FilesInv, UNCHANGED <<current, versions>>,
           compaction'.inputs = compaction.inputs, compaction'.version = compaction.version,
           \A r \in Readers : threads'[r].version = threads[r].version
    PROVE  VersionsCounted'
<1>1. Held' = Held
  BY DEF Held, ReaderRefs
<1> QED
  BY <1>1 DEF FilesInv, VersionsCounted, Counted

(* A version that somebody refers to is live, and its files are there.     *)
LEMMA HeldIsLive ==
    ASSUME FilesInv
    PROVE  /\ current \in DOMAIN versions /\ current \subseteq disk
           /\ \A r \in Readers : \A v \in threads[r].version :
                v \in DOMAIN versions /\ v \subseteq LiveFiles(versions)
           /\ compaction.inputs # {} =>
                compaction.version \in DOMAIN versions /\ compaction.version \subseteq disk
<1>1. \A p \in Held : p[2] \in DOMAIN versions
  BY DEF FilesInv, VersionsCounted, Counted
<1>2. <<VersionSet, current>> \in Held
  BY DEF Held
<1>3. \A r \in Readers : \A v \in threads[r].version : <<r, v>> \in Held
  BY DEF Held, ReaderRefs
<1>4. compaction.inputs # {} => <<Background, compaction.version>> \in Held
  BY DEF Held
<1> HIDE DEF Held
<1>5. \A v \in DOMAIN versions : v \subseteq LiveFiles(versions) /\ v \subseteq disk
  BY DEF LiveFiles, FilesInv, OnDisk
<1>6. current \in DOMAIN versions
  BY <1>1, <1>2
<1>7. \A r \in Readers : \A v \in threads[r].version : v \in DOMAIN versions
  BY <1>1, <1>3
<1>8. compaction.inputs # {} => compaction.version \in DOMAIN versions
  BY <1>1, <1>4
<1> QED
  BY <1>5, <1>6, <1>7, <1>8

(* A thread opens, has opened or lets go of a table it may open.           *)
LEMMA TableStep ==
    ASSUME FilesInv, NEW t \in Threads,
           UNCHANGED <<disk, current, versions, compaction, doomed, pending, nextFile>>,
           \A u \in Threads : /\ DOMAIN threads'[u] = DOMAIN Initial
                              /\ threads'[u].version = threads[u].version
                              /\ threads'[u].at = threads[u].at
                              /\ threads'[u].back = threads[u].back
                              /\ threads'[u].file = threads[u].file
                              /\ u # t => threads'[u].opening = threads[u].opening,
           DOMAIN threads' = Threads,
           \/ threads'[t].opening \in {0, threads[t].opening}
           \/ /\ threads'[t].opening \in disk
              /\ t \in Readers => \E v \in threads[t].version : threads'[t].opening \in v,
           missing' => missing
    PROVE  FilesInv'
<1>1. /\ Bg'.at = Bg.at /\ Bg'.back = Bg.back /\ Bg'.file = Bg.file
      /\ \A r \in Readers : threads'[r].version = threads[r].version
  BY DEF Bg, Threads
<1>2. Shape'
  BY DEF FilesInv, Shape
<1>3. VersionsCounted'
  BY <1>1, SameRefs
<1>4. OnDisk' /\ DoomedAreDead' /\ OutputsArePending'
  BY <1>1 DEF FilesInv, OnDisk, DoomedAreDead, OutputsArePending
<1>5. CompactionInPlace'
  BY <1>1 DEF FilesInv, CompactionInPlace, Place
<1>6. OpeningIsThere'
  BY <1>1 DEF FilesInv, OpeningIsThere, Threads
<1>7. NoTableMissing'
  BY DEF FilesInv, NoTableMissing
<1> QED
  BY <1>2, <1>3, <1>4, <1>5, <1>6, <1>7 DEF FilesInv

(* TableCache::FindTable of a table that is there.                         *)
LEMMA FindTableKeeps ==
    ASSUME FilesInv, NEW t \in Threads, NEW f \in disk, FindTable(t, f),
           t \in Readers => \E v \in threads[t].version : f \in v
    PROVE  FilesInv'
<1>1. UNCHANGED <<disk, current, versions, compaction, doomed, pending, nextFile, missing>>
  BY DEF FindTable, versionVars, workVars
<1>2. \/ \E e : threads' = [threads EXCEPT ![t].holds = @ \union {e}]
      \/ threads' = [threads EXCEPT ![t].opening = f]
  BY DEF FindTable
<1>3. /\ DOMAIN threads' = Threads
      /\ \A u \in Threads : /\ DOMAIN threads'[u] = DOMAIN Initial
                            /\ threads'[u].version = threads[u].version
                            /\ threads'[u].at = threads[u].at
                            /\ threads'[u].back = threads[u].back
                            /\ threads'[u].file = threads[u].file
                            /\ u # t => threads'[u].opening = threads[u].opening
      /\ threads'[t].opening \in {threads[t].opening, f}
  <2>1. CASE \E e : threads' = [threads EXCEPT ![t].holds = @ \union {e}]
    BY <2>1 DEF FilesInv, Shape, Initial
  <2>2. CASE threads' = [threads EXCEPT ![t].opening = f]
    BY <2>2 DEF FilesInv, Shape, Initial
  <2> QED
    BY <1>2, <2>1, <2>2
<1>4. \/ threads'[t].opening \in {0, threads[t].opening}
      \/ /\ threads'[t].opening \in disk
         /\ t \in Readers => \E v \in threads[t].version : threads'[t].opening \in v
  BY <1>3
<1> QED
  BY <1>1, <1>3, <1>4, TableStep

(* The other steps of a thread with its table: what is opened is there.    *)
LEMMA OpenKeeps ==
    ASSUME FilesInv, NEW t \in Threads,
           OpenFile(t) \/ InsertTable(t) \/ \E e \in threads[t].holds : Release(t, e)
    PROVE  FilesInv'
<1>1. UNCHANGED <<disk, current, versions, compaction, doomed, pending, nextFile>>
  BY DEF OpenFile, InsertTable, Release, versionVars, workVars
<1>2. missing' => missing
  <2>1. CASE OpenFile(t)
    <3>1. threads[t].opening \in disk
      BY <2>1 DEF OpenFile, FilesInv, OpeningIsThere
    <3> QED
      BY <2>1, <3>1 DEF OpenFile
  <2>2. CASE ~OpenFile(t)
    BY <2>2 DEF InsertTable, Release
  <2> QED
    BY <2>1, <2>2
<1>3. /\ DOMAIN threads' = Threads
      /\ \A u \in Threads : /\ DOMAIN threads'[u] = DOMAIN Initial
                            /\ threads'[u].version = threads[u].version
                            /\ threads'[u].at = threads[u].at
                            /\ threads'[u].back = threads[u].back
                            /\ threads'[u].file = threads[u].file
                            /\ u # t => threads'[u].opening = threads[u].opening
      /\ threads'[t].opening \in {0, threads[t].opening}
  <2>1. CASE OpenFile(t)
    <3>1. \/ threads' = [threads EXCEPT ![t].opened = TRUE]
          \/ threads' = [threads EXCEPT ![t].opening = 0]
      BY <2>1 DEF OpenFile
    <3>2. CASE threads' = [threads EXCEPT ![t].opened = TRUE]
      BY <3>2 DEF FilesInv, Shape, Initial
    <3>3. CASE threads' = [threads EXCEPT ![t].opening = 0]
      BY <3>3 DEF FilesInv, Shape, Initial
    <3> QED
      BY <3>1, <3>2, <3>3
  <2>2. CASE InsertTable(t)
    <3>1. PICK e : threads' = [threads EXCEPT ![t].opening = 0, ![t].opened = FALSE,
                                              ![t].holds = @ \union {e}]
      BY <2>2 DEF InsertTable
    <3> QED
      BY <3>1 DEF FilesInv, Shape, Initial
  <2>3. CASE \E e \in threads[t].holds : Release(t, e)
    <3>1. PICK e : threads' = [threads EXCEPT ![t].holds = @ \ {e}]
      BY <2>3 DEF Release
    <3> QED
      BY <3>1 DEF FilesInv, Shape, Initial
  <2> QED
    BY <2>1, <2>2, <2>3
<1> QED
  BY <1>1, <1>2, <1>3, TableStep

-----------------------------------------------------------------------------
(* Readers *)

(* DBImpl::Get and NewInternalIterator take the current version.           *)
LEMMA RefKeeps ==
    ASSUME NamesApart, FilesInv, NEW r \in Readers, RefCurrent(r)
    PROVE  FilesInv'
<1> DEFINE p == <<r, current>>
<1>1. /\ threads[r].version = {} /\ threads' = [threads EXCEPT ![r].version = {current}]
      /\ versions' = Referred(versions, current)
      /\ UNCHANGED <<disk, current, missing, compaction, doomed, pending, nextFile>>
  BY DEF RefCurrent, workVars
<1>2. /\ DOMAIN threads' = Threads
      /\ \A u \in Threads : /\ DOMAIN threads'[u] = DOMAIN Initial
                            /\ u # r => threads'[u] = threads[u]
      /\ threads'[r].version = {current} /\ threads'[r].opening = threads[r].opening
      /\ r # Background
  BY <1>1 DEF FilesInv, Shape, Initial, Threads, NamesApart
<1>3. Bg' = Bg
  BY <1>2 DEF Bg, Threads
<1>4. ReaderRefs' = ReaderRefs \union {p} /\ p \notin ReaderRefs
  BY <1>1, <1>2 DEF ReaderRefs, Threads
<1>5. Held' = Held \union {p} /\ p \notin Held
  BY <1>1, <1>4 DEF Held, NamesApart
<1>6. Counted(versions', Held') /\ DOMAIN versions' = DOMAIN versions
  BY <1>1, <1>5, RefCounts, HeldIsLive DEF FilesInv, VersionsCounted
<1>7. LiveFiles(versions') = LiveFiles(versions)
  BY <1>6 DEF LiveFiles
<1>8. VersionsCounted'
  BY <1>2, <1>6 DEF FilesInv, VersionsCounted, Threads
<1>9. OnDisk' /\ DoomedAreDead' /\ OutputsArePending'
  BY <1>1, <1>3, <1>7 DEF FilesInv, OnDisk, DoomedAreDead, OutputsArePending
<1>10. CompactionInPlace'
  BY <1>1, <1>3 DEF FilesInv, CompactionInPlace, Place
<1>11. OpeningIsThere'
  <2>1. threads[r].opening = 0
    BY <1>1 DEF FilesInv, OpeningIsThere
  <2> QED
    BY <1>1, <1>2, <2>1 DEF FilesInv, OpeningIsThere, Threads
<1> QED
  BY <1>1, <1>2, <1>8, <1>9, <1>10, <1>11 DEF FilesInv, Shape, NoTableMissing

(* They give it up when their tables are closed; a version nobody else has *)
(* is deleted.                                                             *)
LEMMA UnrefKeeps ==
    ASSUME NamesApart, FilesInv, NEW r \in Readers, UnrefVersion(r)
    PROVE  FilesInv'
<1>1. PICK v \in threads[r].version : versions' = Unreferred(versions, v)
  BY DEF UnrefVersion
<1> DEFINE p == <<r, v>>
<1>2. /\ threads[r].opening = 0 /\ threads' = [threads EXCEPT ![r].version = {}]
      /\ UNCHANGED <<disk, current, missing, compaction, doomed, pending, nextFile>>
  BY DEF UnrefVersion, MayUnref, workVars
<1>3. /\ DOMAIN threads' = Threads
      /\ \A u \in Threads : /\ DOMAIN threads'[u] = DOMAIN Initial
                            /\ u # r => threads'[u] = threads[u]
      /\ threads'[r].version = {} /\ threads'[r].opening = 0
      /\ r # Background
  BY <1>2 DEF FilesInv, Shape, Initial, Threads, NamesApart
<1>4. Bg' = Bg
  BY <1>3 DEF Bg, Threads
<1>5. ReaderRefs' = ReaderRefs \ {p} /\ p \in ReaderRefs
  <2>1. threads[r].version = {v}
    BY DEF FilesInv, VersionsCounted
  <2> QED
    BY <1>3, <2>1 DEF ReaderRefs, Threads
<1>6. Held' = Held \ {p} /\ p \in Held
  BY <1>2, <1>5 DEF Held, NamesApart
<1>7. Counted(versions', Held') /\ DOMAIN versions' \subseteq DOMAIN versions
  <2>1. p[2] = v /\ Counted(versions, Held) /\ p \in Held
    BY <1>6 DEF FilesInv, VersionsCounted
  <2> HIDE DEF p
  <2>2. /\ Counted(Unreferred(versions, p[2]), Held \ {p})
        /\ DOMAIN Unreferred(versions, p[2]) \subseteq DOMAIN versions
    BY <2>1, UnrefCounts
  <2>3. versions' = Unreferred(versions, p[2]) /\ Held' = Held \ {p}
    BY <1>1, <1>6, <2>1
  <2> QED
    BY <2>2, <2>3
<1>8. LiveFiles(versions') \subseteq LiveFiles(versions)
  BY <1>7 DEF LiveFiles
<1>9. VersionsCounted'
  BY <1>3, <1>7 DEF FilesInv, VersionsCounted, Threads
<1>10. OnDisk' /\ DoomedAreDead' /\ OutputsArePending'
  BY <1>2, <1>4, <1>8 DEF FilesInv, OnDisk, DoomedAreDead, OutputsArePending
<1>11. CompactionInPlace'
  BY <1>2, <1>4 DEF FilesInv, CompactionInPlace, Place
<1>12. OpeningIsThere'
  BY <1>2, <1>3 DEF FilesInv, OpeningIsThere, Threads
<1> QED
  BY <1>2, <1>3, <1>9, <1>10, <1>11, <1>12 DEF FilesInv, Shape, NoTableMissing

(* The steps of a reader with a table of its version.                      *)
LEMMA ReaderKeeps ==
    ASSUME NamesApart, FilesInv, NEW r \in Readers,
           RefCurrent(r) \/ ReadTable(r) \/ UnrefVersion(r)
    PROVE  FilesInv'
<1>1. CASE ReadTable(r)
  <2>1. PICK v \in threads[r].version : \E f \in v : FindTable(r, f)
    BY <1>1 DEF ReadTable
  <2>2. PICK f \in v : FindTable(r, f)
    BY <2>1
  <2>3. f \in disk /\ r \in Threads
    BY HeldIsLive DEF FilesInv, OnDisk, Threads
  <2>4. \E w \in threads[r].version : f \in w
    OBVIOUS
  <2> QED
    BY <2>2, <2>3, <2>4, FindTableKeeps
<1> QED
  BY <1>1, RefKeeps, UnrefKeeps

-----------------------------------------------------------------------------
(* The background thread *)

(* A step of it that neither opens a table nor removes a file.             *)
BgStep ==
    /\ DOMAIN threads' = Threads
    /\ \A r \in Readers : threads'[r] = threads[r]
    /\ DOMAIN Bg' = DOMAIN Initial
    /\ Bg.opening = 0 /\ Bg'.opening = 0
    /\ missing' = missing /\ disk \subseteq disk'

LEMMA BgStepKeeps ==
    ASSUME FilesInv, BgStep, nextFile' \in Int, DOMAIN compaction' = DOMAIN NoCompaction
    PROVE  Shape' /\ OpeningIsThere' /\ NoTableMissing'
  BY DEF FilesInv, BgStep, Shape, OpeningIsThere, NoTableMissing, Bg, Threads

(* A step that only changes where it is, besides what it holds.            *)
LEMMA GoToIsBgStep ==
    ASSUME NamesApart, FilesInv, NEW place, Bg.opening = 0, missing' = missing,
           disk \subseteq disk',
           \/ threads' = GoTo(place)
           \/ \E h : threads' = [GoTo(place) EXCEPT ![Background].holds = h]
    PROVE  BgStep /\ Bg'.at = place /\ Bg'.back = Bg.back /\ Bg'.file = Bg.file
<1>1. /\ DOMAIN threads = Threads /\ Background \in Threads
      /\ DOMAIN threads[Background] = DOMAIN Initial
      /\ \A r \in Readers : r \in Threads /\ r # Background
  BY DEF FilesInv, Shape, Threads, NamesApart
<1>2. CASE threads' = GoTo(place)
  BY <1>1, <1>2 DEF GoTo, BgStep, Bg, Initial
<1>3. CASE \E h : threads' = [GoTo(place) EXCEPT ![Background].holds = h]
  <2>1. PICK h : threads' = [GoTo(place) EXCEPT ![Background].holds = h]
    BY <1>3
  <2> QED
    BY <1>1, <2>1 DEF GoTo, BgStep, Bg, Initial
<1> QED
  BY <1>2, <1>3

(* A step that leaves references, versions and the list of files alone.    *)
LEMMA QuietBgStep ==
    ASSUME FilesInv, BgStep, nextFile' \in Int, DOMAIN compaction' = DOMAIN NoCompaction,
           UNCHANGED <<current, versions, doomed>>,
           compaction'.inputs = compaction.inputs, compaction'.version = compaction.version,
           Bg.at # "remove"
    PROVE  Shape' /\ VersionsCounted' /\ DoomedAreDead' /\ OpeningIsThere' /\ NoTableMissing'
             /\ LiveFiles(versions)' \subseteq disk'
<1>1. VersionsCounted'
  BY SameRefs DEF BgStep
<1>2. doomed = {} /\ LiveFiles(versions) \subseteq disk
  BY DEF FilesInv, DoomedAreDead, OnDisk
<1> QED
  BY <1>1, <1>2, BgStepKeeps DEF DoomedAreDead, BgStep

(* CompactMemTable takes a number; imm_ may turn up during a compaction.   *)
LEMMA NewTableIsBgStep ==
    ASSUME NamesApart, FilesInv, NEW place, Bg.opening = 0, NewTable(place)
    PROVE  /\ BgStep /\ Bg'.at = place /\ Bg'.back = Bg.at /\ Bg'.file = nextFile
           /\ nextFile' = nextFile + 1 /\ nextFile \in Int
           /\ pending' = pending \union {nextFile}
           /\ UNCHANGED <<disk, current, versions, doomed, missing>>
<1>1. /\ DOMAIN threads = Threads /\ Background \in Threads
      /\ DOMAIN threads[Background] = DOMAIN Initial
      /\ \A r \in Readers : r \in Threads /\ r # Background
      /\ nextFile \in Int
  BY DEF FilesInv, Shape, Threads, NamesApart
<1>2. /\ threads' = [threads EXCEPT ![Background].at = place, ![Background].back = Bg.at,
                                    ![Background].file = nextFile]
      /\ nextFile' = nextFile + 1 /\ pending' = pending \union {nextFile}
      /\ UNCHANGED <<disk, current, versions, doomed, missing>>
  BY DEF NewTable, versionVars
<1> QED
  BY <1>1, <1>2 DEF BgStep, Bg, Initial

LEMMA StartFlushKeeps ==
    ASSUME NamesApart, FilesInv, StartFlush
    PROVE  FilesInv'
<1>1. /\ Bg.at \in {"idle", "compacting"} /\ Bg.opening = 0 /\ NewTable("flush")
      /\ compaction' = compaction
  BY DEF StartFlush, At
<1>2. /\ BgStep /\ Bg'.at = "flush" /\ Bg'.back = Bg.at /\ Bg'.file = nextFile
      /\ nextFile' = nextFile + 1 /\ nextFile \in Int
      /\ pending' = pending \union {nextFile}
      /\ UNCHANGED <<disk, current, versions, doomed, missing>>
  BY <1>1, NewTableIsBgStep
<1>3. Shape' /\ VersionsCounted' /\ DoomedAreDead' /\ OpeningIsThere' /\ NoTableMissing'
        /\ LiveFiles(versions)' \subseteq disk'
  BY <1>1, <1>2, QuietBgStep DEF FilesInv, Shape
<1>4. OnDisk'
  BY <1>1, <1>2, <1>3 DEF FilesInv, OnDisk
<1>5. OutputsArePending'
  <2>1. \A f \in compaction.outputs : f \in Int /\ f < nextFile
    BY DEF FilesInv, OutputsArePending
  <2>2. nextFile \in Int /\ nextFile' = nextFile + 1
    BY <1>2
  <2>3. nextFile \notin compaction.outputs
    BY <2>1, <2>2
  <2>4. \A f \in compaction.outputs : f \in Int /\ f < nextFile'
    BY <2>1, <2>2
  <2>5. compaction'.outputs = compaction.outputs /\ compaction.outputs \subseteq pending'
    BY <1>1, <1>2 DEF FilesInv, OutputsArePending
  <2> QED
    BY <1>2, <2>3, <2>4, <2>5 DEF OutputsArePending
<1>6. CompactionInPlace'
  BY <1>1, <1>2 DEF FilesInv, CompactionInPlace, Place, Flushing
<1> QED
  BY <1>3, <1>4, <1>5, <1>6 DEF FilesInv

(* OpenCompactionOutputFile takes one for the compaction.                  *)
LEMMA OpenOutputKeeps ==
    ASSUME NamesApart, FilesInv, OpenOutput
    PROVE  FilesInv'
<1>1. /\ Bg.at = "compacting" /\ Bg.opening = 0 /\ NewTable("output")
      /\ compaction' = [compaction EXCEPT !.outputs = {nextFile}]
  BY DEF OpenOutput, At
<1>2. /\ BgStep /\ Bg'.at = "output" /\ Bg'.back = Bg.at /\ Bg'.file = nextFile
      /\ nextFile' = nextFile + 1 /\ nextFile \in Int
      /\ pending' = pending \union {nextFile}
      /\ UNCHANGED <<disk, current, versions, doomed, missing>>
  BY <1>1, NewTableIsBgStep
<1>3. /\ compaction'.outputs = {nextFile} /\ DOMAIN compaction' = DOMAIN NoCompaction
      /\ compaction'.inputs = compaction.inputs /\ compaction'.version = compaction.version
  BY <1>1 DEF FilesInv, Shape, NoCompaction
<1>4. doomed = {}
  BY <1>1 DEF FilesInv, DoomedAreDead
<1>5. Shape' /\ VersionsCounted' /\ DoomedAreDead' /\ OpeningIsThere' /\ NoTableMissing'
        /\ LiveFiles(versions)' \subseteq disk'
  BY <1>1, <1>2, <1>3, QuietBgStep
<1>6. OnDisk'
  BY <1>2, <1>5 DEF OnDisk
<1>7. OutputsArePending'
  BY <1>2, <1>3 DEF OutputsArePending, Flushing
<1>8. CompactionInPlace'
  BY <1>1, <1>2, <1>3 DEF FilesInv, CompactionInPlace, Place, Flushing
<1> QED
  BY <1>5, <1>6, <1>7, <1>8 DEF FilesInv

(* BuildTable, or the compaction's output: the file is there from now on.  *)
LEMMA WriteTableKeeps ==
    ASSUME NamesApart, FilesInv, WriteTable
    PROVE  FilesInv'
<1> DEFINE next == IF At("flush") THEN "verify flush" ELSE "compacting"
<1>1. /\ Bg.at \in {"flush", "output"} /\ Bg.opening = 0
      /\ disk' = disk \union {Bg.file} /\ threads' = GoTo(next)
      /\ UNCHANGED <<current, versions, compaction, doomed, pending, nextFile, missing>>
  BY DEF WriteTable, At, versionVars, workVars
<1>2. next = IF Bg.at = "flush" THEN "verify flush" ELSE "compacting"
  BY <1>1 DEF At
<1> HIDE DEF next
<1>3. BgStep /\ Bg'.at = next /\ Bg'.back = Bg.back /\ Bg'.file = Bg.file
  BY <1>1, GoToIsBgStep
<1>4. Shape' /\ VersionsCounted' /\ DoomedAreDead' /\ OpeningIsThere' /\ NoTableMissing'
        /\ LiveFiles(versions)' \subseteq disk'
  BY <1>1, <1>3, QuietBgStep DEF FilesInv, Shape
<1>5. OnDisk'
  BY <1>1, <1>2, <1>3, <1>4 DEF FilesInv, OnDisk, OutputsArePending
<1>6. OutputsArePending'
  <2>1. Bg'.at = "verify flush" => Bg.at = "flush"
    BY <1>1, <1>2, <1>3
  <2>2. Bg'.at \in {"verify flush", "compacting"}
    BY <1>2, <1>3
  <2> QED
    BY <1>1, <1>3, <2>1, <2>2 DEF FilesInv, OutputsArePending, Flushing
<1>7. CompactionInPlace'
  BY <1>1, <1>2, <1>3 DEF FilesInv, CompactionInPlace, Place, Flushing
<1> QED
  BY <1>4, <1>5, <1>6, <1>7 DEF FilesInv

(* The steps of a compaction between its outputs.                          *)
LEMMA CompactingKeeps ==
    ASSUME NamesApart, FilesInv, FinishOutput \/ OutputVerified \/ DeleteInput
    PROVE  FilesInv'
<1> DEFINE next == IF FinishOutput THEN "verify output"
                   ELSE IF OutputVerified THEN "finish" ELSE "apply compaction"
<1>1. /\ Bg.opening = 0
      /\ UNCHANGED <<disk, current, versions, compaction, doomed, pending, nextFile, missing>>
  BY DEF FinishOutput, OutputVerified, DeleteInput, Verified, At, versionVars, workVars
<1>2. /\ Bg.at \in {"compacting", "verify output", "finish"}
      /\ next \in {"verify output", "finish", "apply compaction"}
      /\ next = "verify output" => compaction.outputs # {}
  BY DEF FinishOutput, OutputVerified, DeleteInput, At
<1>3. \/ threads' = GoTo(next)
      \/ \E h : threads' = [GoTo(next) EXCEPT ![Background].holds = h]
  <2>1. CASE FinishOutput
    BY <2>1 DEF FinishOutput
  <2>2. CASE ~FinishOutput /\ OutputVerified
    BY <2>2 DEF OutputVerified, Verified
  <2>3. CASE ~FinishOutput /\ ~OutputVerified
    BY <2>3 DEF DeleteInput
  <2> QED
    BY <2>1, <2>2, <2>3
<1> HIDE DEF next
<1>4. BgStep /\ Bg'.at = next /\ Bg'.back = Bg.back /\ Bg'.file = Bg.file
  BY <1>1, <1>3, GoToIsBgStep
<1>5. Shape' /\ VersionsCounted' /\ DoomedAreDead' /\ OpeningIsThere' /\ NoTableMissing'
        /\ LiveFiles(versions)' \subseteq disk'
  BY <1>1, <1>2, <1>4, QuietBgStep DEF FilesInv, Shape
<1>6. OnDisk'
  BY <1>1, <1>2, <1>4, <1>5 DEF FilesInv, OnDisk
<1>7. OutputsArePending'
  BY <1>1, <1>2, <1>4 DEF FilesInv, OutputsArePending, Flushing
<1>8. CompactionInPlace'
  BY <1>1, <1>2, <1>4 DEF FilesInv, CompactionInPlace, Place, Flushing
<1> QED
  BY <1>5, <1>6, <1>7, <1>8 DEF FilesInv

(* The number leaves pending_outputs_: nothing is removed meanwhile.       *)
LEMMA FlushVerifiedKeeps ==
    ASSUME NamesApart, FilesInv, FlushVerified
    PROVE  FilesInv'
<1>1. /\ Bg.at = "verify flush" /\ Bg.opening = 0 /\ pending' = pending \ {Bg.file}
      /\ UNCHANGED <<disk, current, versions, compaction, doomed, nextFile, missing>>
      /\ \E h : threads' = [GoTo("apply flush") EXCEPT ![Background].holds = h]
  BY DEF FlushVerified, Verified, At, versionVars
<1>2. BgStep /\ Bg'.at = "apply flush" /\ Bg'.back = Bg.back /\ Bg'.file = Bg.file
  BY <1>1, GoToIsBgStep
<1>3. Shape' /\ VersionsCounted' /\ DoomedAreDead' /\ OpeningIsThere' /\ NoTableMissing'
        /\ LiveFiles(versions)' \subseteq disk'
  BY <1>1, <1>2, QuietBgStep DEF FilesInv, Shape
<1>4. OnDisk'
  BY <1>1, <1>2, <1>3 DEF FilesInv, OnDisk
<1>5. OutputsArePending'
  BY <1>1, <1>2 DEF FilesInv, OutputsArePending, Flushing
<1>6. CompactionInPlace'
  BY <1>1, <1>2 DEF FilesInv, CompactionInPlace, Place, Flushing
<1> QED
  BY <1>3, <1>4, <1>5, <1>6 DEF FilesInv

(* What RemoveObsoleteFiles leaves on its list is not live, nor pending.   *)
LEMMA RemoveObsoleteFilesSpares ==
    ASSUME NEW vs, NEW outputs, RemoveObsoleteFiles(vs, outputs)
    PROVE  /\ versions' = vs /\ pending' = outputs
           /\ doomed' \cap (LiveFiles(vs) \union outputs) = {}
  BY DEF RemoveObsoleteFiles

(* The version set refers to its current version only.                     *)
LEMMA VersionSetRef ==
    ASSUME NamesApart
    PROVE  /\ <<VersionSet, current>> \in Held
           /\ \A w : <<VersionSet, w>> \in Held => w = current
           /\ ReaderRefs' = ReaderRefs /\ compaction' = compaction =>
                Held' = (Held \ {<<VersionSet, current>>}) \union {<<VersionSet, current'>>}
<1> DEFINE p == <<VersionSet, current>>
           q == <<VersionSet, current'>>
           others == ReaderRefs \union (IF compaction.inputs = {} THEN {}
                                        ELSE {<<Background, compaction.version>>})
<1>1. Held = others \union {p}
  BY DEF Held
<1>2. \A w : <<VersionSet, w>> \notin others
  BY DEF ReaderRefs, NamesApart
<1>3. ReaderRefs' = ReaderRefs /\ compaction' = compaction => Held' = others \union {q}
  BY DEF Held
<1> HIDE DEF others
<1> QED
  BY <1>1, <1>2, <1>3

(* LogAndApply installs what was flushed, and RemoveObsoleteFiles runs.    *)
LEMMA ApplyFlushKeeps ==
    ASSUME NamesApart, FilesInv, ApplyFlush
    PROVE  FilesInv'
<1> DEFINE vs == AppendVersion(versions, current')
           p  == <<VersionSet, current>>
           q  == <<VersionSet, current'>>
<1>1. /\ Bg.at = "apply flush" /\ Bg.opening = 0 /\ current' = current \union {Bg.file}
      /\ RemoveObsoleteFiles(vs, pending) /\ threads' = GoTo("remove")
      /\ UNCHANGED <<disk, compaction, nextFile, missing>>
  BY DEF ApplyFlush, At
<1>2. BgStep /\ Bg'.at = "remove" /\ Bg'.back = Bg.back /\ Bg'.file = Bg.file
  BY <1>1, GoToIsBgStep
<1>3. Held' = (Held \ {p}) \union {q} /\ p \in Held
      /\ \A w : <<VersionSet, w>> \in Held => w = current
  <2>1. ReaderRefs' = ReaderRefs
    BY <1>2 DEF ReaderRefs, BgStep
  <2>2. compaction' = compaction
    BY <1>1
  <2> QED
    BY <2>1, <2>2, VersionSetRef
<1>4. Counted(vs, Held') /\ DOMAIN vs \subseteq DOMAIN versions \union {current'}
  BY <1>3, AppendCounts DEF FilesInv, VersionsCounted
<1> HIDE DEF vs
<1>5. versions' = vs /\ pending' = pending /\ doomed' \cap (LiveFiles(vs) \union pending) = {}
  BY <1>1, RemoveObsoleteFilesSpares
<1>6. LiveFiles(vs) \subseteq disk
  <2>1. current' \subseteq disk
    BY <1>1, HeldIsLive DEF FilesInv, OnDisk
  <2> QED
    BY <1>4, <2>1 DEF LiveFiles, FilesInv, OnDisk
<1>7. Shape' /\ OpeningIsThere' /\ NoTableMissing'
  BY <1>1, <1>2, BgStepKeeps DEF FilesInv, Shape
<1>8. VersionsCounted'
  BY <1>2, <1>4, <1>5 DEF FilesInv, VersionsCounted, BgStep
<1>9. OnDisk'
  BY <1>1, <1>2, <1>5, <1>6 DEF FilesInv, OnDisk
<1>10. DoomedAreDead'
  BY <1>1, <1>2, <1>5 DEF FilesInv, DoomedAreDead, OutputsArePending
<1>11. OutputsArePending'
  BY <1>1, <1>2, <1>5 DEF FilesInv, OutputsArePending, Flushing
<1>12. CompactionInPlace'
  BY <1>1, <1>2 DEF FilesInv, CompactionInPlace, Place, Flushing
<1> QED
  BY <1>7, <1>8, <1>9, <1>10, <1>11, <1>12 DEF FilesInv

(* PickCompaction refers to the current version.                           *)
LEMMA StartCompactionKeeps ==
    ASSUME NamesApart, FilesInv, NEW inputs \in SUBSET current, StartCompaction(inputs)
    PROVE  FilesInv'
<1> DEFINE p == <<Background, current>>
<1>1. /\ Bg.at = "idle" /\ Bg.opening = 0 /\ inputs # {} /\ threads' = GoTo("compacting")
      /\ compaction' = [version |-> current, inputs |-> inputs, outputs |-> {}]
      /\ versions' = Referred(versions, current)
      /\ UNCHANGED <<disk, current, pending, nextFile, doomed, missing>>
  BY DEF StartCompaction, At
<1>2. BgStep /\ Bg'.at = "compacting" /\ Bg'.back = Bg.back /\ Bg'.file = Bg.file
  BY <1>1, GoToIsBgStep
<1>3. /\ compaction.inputs = {} /\ DOMAIN compaction' = DOMAIN NoCompaction
      /\ compaction'.inputs = inputs /\ compaction'.version = current
      /\ compaction'.outputs = {}
  BY <1>1 DEF FilesInv, CompactionInPlace, Place, Flushing, NoCompaction
<1>4. Held' = Held \union {p} /\ p \notin Held
  <2>1. ReaderRefs' = ReaderRefs
    BY <1>2 DEF ReaderRefs, BgStep
  <2> QED
    BY <1>1, <1>3, <2>1 DEF Held, ReaderRefs, NamesApart
<1>5. Counted(versions', Held') /\ DOMAIN versions' = DOMAIN versions
  BY <1>1, <1>4, RefCounts, HeldIsLive DEF FilesInv, VersionsCounted
<1>6. LiveFiles(versions') = LiveFiles(versions) /\ doomed = {}
  BY <1>1, <1>5 DEF LiveFiles, FilesInv, DoomedAreDead
<1>7. Shape' /\ OpeningIsThere' /\ NoTableMissing'
  BY <1>1, <1>2, <1>3, BgStepKeeps DEF FilesInv, Shape
<1>8. VersionsCounted'
  BY <1>2, <1>5 DEF FilesInv, VersionsCounted, BgStep
<1>9. OnDisk' /\ DoomedAreDead'
  BY <1>1, <1>2, <1>3, <1>6 DEF FilesInv, OnDisk, DoomedAreDead
<1>10. OutputsArePending' /\ CompactionInPlace'
  BY <1>1, <1>2, <1>3 DEF OutputsArePending, CompactionInPlace, Place, Flushing
<1> QED
  BY <1>7, <1>8, <1>9, <1>10 DEF FilesInv

(* InstallCompactionResults, the end of the Compaction and what            *)
(* RemoveObsoleteFiles then finds.                                         *)
LEMMA ApplyCompactionKeeps ==
    ASSUME NamesApart, FilesInv, ApplyCompaction
    PROVE  FilesInv'
<1> DEFINE vs == AppendVersion(versions, current')
           ws == Unreferred(vs, compaction.version)
           p  == <<VersionSet, current>>
           q  == <<VersionSet, current'>>
           b  == <<Background, compaction.version>>
           held == (Held \ {p}) \union {q}
<1>1. /\ Bg.at = "apply compaction" /\ Bg.opening = 0
      /\ current' = (current \ compaction.inputs) \union compaction.outputs
      /\ RemoveObsoleteFiles(ws, pending \ compaction.outputs)
      /\ compaction' = NoCompaction
      /\ threads' = [GoTo("remove") EXCEPT ![Background].back = "idle"]
      /\ UNCHANGED <<disk, nextFile, missing>>
  BY DEF ApplyCompaction, At
<1>2. BgStep /\ Bg'.at = "remove" /\ Bg'.back = "idle"
  <2>1. /\ DOMAIN threads = Threads /\ Background \in Threads
        /\ DOMAIN threads[Background] = DOMAIN Initial
        /\ \A r \in Readers : r \in Threads /\ r # Background
    BY DEF FilesInv, Shape, Threads, NamesApart
  <2> QED
    BY <1>1, <2>1 DEF GoTo, BgStep, Bg, Initial
<1>3. compaction.inputs # {}
  BY <1>1 DEF FilesInv, CompactionInPlace, Place, Flushing
<1>4. /\ Held' = held \ {b} /\ p \in Held /\ b \in held
      /\ \A w : <<VersionSet, w>> \in Held => w = current
  <2>1. ReaderRefs' = ReaderRefs
    BY <1>2 DEF ReaderRefs, BgStep
  <2>2. compaction'.inputs = {}
    BY <1>1 DEF NoCompaction
  <2>3. Held = ReaderRefs \union {b, p} /\ Held' = ReaderRefs \union {q}
    BY <1>3, <2>1, <2>2 DEF Held
  <2>4. p \notin ReaderRefs /\ b \notin ReaderRefs /\ p # b /\ q # b
    BY DEF ReaderRefs, NamesApart
  <2> QED
    BY <2>3, <2>4, VersionSetRef
<1>5. Counted(vs, held) /\ DOMAIN vs \subseteq DOMAIN versions \union {current'}
  BY <1>4, AppendCounts DEF FilesInv, VersionsCounted
<1>6. Counted(ws, Held') /\ DOMAIN ws \subseteq DOMAIN vs
  <2> HIDE DEF vs, held, b
  <2>1. /\ Counted(Unreferred(vs, b[2]), held \ {b})
        /\ DOMAIN Unreferred(vs, b[2]) \subseteq DOMAIN vs
    BY <1>4, <1>5, UnrefCounts
  <2>2. b[2] = compaction.version
    BY DEF b
  <2> QED
    BY <1>4, <2>1, <2>2
<1> HIDE DEF ws, vs
<1>7. /\ versions' = ws /\ pending' = pending \ compaction.outputs
      /\ doomed' \cap LiveFiles(ws) = {}
  BY <1>1, RemoveObsoleteFilesSpares
<1>8. LiveFiles(ws) \subseteq disk
  <2>1. current' \subseteq disk
    BY <1>1, HeldIsLive DEF FilesInv, OnDisk
  <2> QED
    BY <1>5, <1>6, <2>1 DEF LiveFiles, FilesInv, OnDisk
<1>9. /\ DOMAIN compaction' = DOMAIN NoCompaction /\ compaction'.inputs = {}
      /\ compaction'.outputs = {}
  BY <1>1 DEF NoCompaction
<1>10. Shape' /\ OpeningIsThere' /\ NoTableMissing'
  BY <1>1, <1>2, <1>9, BgStepKeeps DEF FilesInv, Shape
<1>11. VersionsCounted'
  BY <1>2, <1>6, <1>7 DEF FilesInv, VersionsCounted, BgStep
<1>12. OnDisk' /\ DoomedAreDead'
  BY <1>1, <1>2, <1>7, <1>8, <1>9 DEF OnDisk, DoomedAreDead
<1>13. OutputsArePending' /\ CompactionInPlace'
  BY <1>1, <1>2, <1>9 DEF OutputsArePending, CompactionInPlace, Place, Flushing, NoCompaction
<1> QED
  BY <1>10, <1>11, <1>12, <1>13 DEF FilesInv

(* A file is removed, or kept because it is open: nobody needs it.         *)
LEMMA RemoveFileKeeps ==
    ASSUME NamesApart, FilesInv, NEW f \in doomed, RemoveFile(f)
    PROVE  FilesInv'
<1>1. /\ Bg.at = "remove" /\ Bg.opening = 0 /\ doomed' = doomed \ {f}
      /\ disk \ {f} \subseteq disk' /\ threads' = threads
      /\ UNCHANGED <<current, versions, pending, nextFile, compaction, missing>>
  BY DEF RemoveFile, At, versionVars
<1>2. Bg' = Bg /\ f \notin LiveFiles(versions) /\ f \notin compaction.outputs
  BY <1>1 DEF Bg, FilesInv, DoomedAreDead
<1>3. Shape' /\ VersionsCounted' /\ OutputsArePending' /\ CompactionInPlace' /\ NoTableMissing'
  BY <1>1, <1>2, SameRefs DEF FilesInv, Shape, OutputsArePending, CompactionInPlace, Place,
     NoTableMissing
<1>4. LiveFiles(versions)' = LiveFiles(versions)
  BY <1>1 DEF LiveFiles
<1>5. OnDisk' /\ DoomedAreDead'
  BY <1>1, <1>2, <1>4 DEF FilesInv, OnDisk, DoomedAreDead
<1>6. OpeningIsThere'
  <2>1. \A r \in Readers : threads[r].opening # 0 => threads[r].opening \in LiveFiles(versions)
    BY HeldIsLive DEF FilesInv, OpeningIsThere
  <2> QED
    BY <1>1, <1>2, <2>1 DEF FilesInv, OpeningIsThere, Threads, Bg
<1> QED
  BY <1>3, <1>5, <1>6 DEF FilesInv

LEMMA RemovedKeeps ==
    ASSUME NamesApart, FilesInv, Removed
    PROVE  FilesInv'
<1>1. /\ Bg.at = "remove" /\ Bg.opening = 0 /\ doomed = {}
      /\ threads' = [GoTo(Bg.back) EXCEPT ![Background].file = 0]
      /\ UNCHANGED <<disk, current, versions, compaction, doomed, pending, nextFile, missing>>
  BY DEF Removed, At, versionVars, workVars
<1>2. BgStep /\ Bg'.at = Bg.back /\ Bg'.back = Bg.back
  <2>1. /\ DOMAIN threads = Threads /\ Background \in Threads
        /\ DOMAIN threads[Background] = DOMAIN Initial
        /\ \A r \in Readers : r \in Threads /\ r # Background
    BY DEF FilesInv, Shape, Threads, NamesApart
  <2> QED
    BY <1>1, <2>1 DEF GoTo, BgStep, Bg, Initial
<1>3. Bg.back \in {"idle", "compacting"}
  BY <1>1 DEF FilesInv, CompactionInPlace
<1>4. Shape' /\ OpeningIsThere' /\ NoTableMissing'
  BY <1>1, <1>2, BgStepKeeps DEF FilesInv, Shape
<1>5. VersionsCounted'
  BY <1>1, <1>2, SameRefs DEF BgStep
<1>6. LiveFiles(versions)' = LiveFiles(versions)
  BY <1>1 DEF LiveFiles
<1>7. OnDisk' /\ DoomedAreDead'
  BY <1>1, <1>2, <1>3, <1>6 DEF FilesInv, OnDisk, DoomedAreDead
<1>8. OutputsArePending' /\ CompactionInPlace'
  BY <1>1, <1>2, <1>3 DEF FilesInv, OutputsArePending, CompactionInPlace, Place, Flushing
<1> QED
  BY <1>4, <1>5, <1>7, <1>8 DEF FilesInv

(* The tables it opens: of its compaction, of a flush, of its output.      *)
LEMMA BgFindTableKeeps ==
    ASSUME NamesApart, FilesInv, VerifyFlush \/ VerifyOutput \/ ReadInput
    PROVE  FilesInv'
<1>1. Background \in Threads /\ Background \notin Readers
  BY DEF Threads, NamesApart
<1>2. CASE VerifyFlush
  <2>1. Bg.at = "verify flush" /\ FindTable(Background, Bg.file)
    BY <1>2 DEF VerifyFlush, Verify, At
  <2>2. Bg.file \in disk
    BY <2>1 DEF FilesInv, OnDisk
  <2> QED
    BY <1>1, <2>1, <2>2, FindTableKeeps
<1>3. CASE VerifyOutput
  <2>1. Bg.at = "verify output" /\ FindTable(Background, Output)
    BY <1>3 DEF VerifyOutput, Verify, At
  <2>2. Output \in compaction.outputs
    BY <2>1 DEF FilesInv, OutputsArePending, Output
  <2>3. Output \in disk
    BY <2>1, <2>2 DEF FilesInv, OnDisk
  <2> QED
    BY <1>1, <2>1, <2>3, FindTableKeeps
<1>4. CASE ReadInput
  <2>1. PICK f \in compaction.inputs : FindTable(Background, f)
    BY <1>4 DEF ReadInput
  <2>2. f \in disk
    BY HeldIsLive DEF FilesInv, CompactionInPlace
  <2> QED
    BY <1>1, <2>1, <2>2, FindTableKeeps
<1> QED
  BY <1>2, <1>3, <1>4

-----------------------------------------------------------------------------
LEMMA FilesStart ==
    ASSUME Init
    PROVE  FilesInv
<1>1. /\ DOMAIN threads = Threads /\ Background \in Threads
      /\ \A t \in Threads : threads[t] = Initial
      /\ Bg = Initial
  BY DEF Init, Initial, Bg, Threads
<1>2. Shape /\ OnDisk /\ DoomedAreDead /\ OutputsArePending /\ CompactionInPlace
        /\ OpeningIsThere /\ NoTableMissing
  BY <1>1 DEF Init, Shape, OnDisk, LiveFiles, DoomedAreDead, OutputsArePending,
     CompactionInPlace, OpeningIsThere, NoTableMissing, Place, Flushing, Initial,
     NoCompaction, Threads
<1>3. ReaderRefs = {}
  BY <1>1 DEF ReaderRefs, Initial, Threads
<1> DEFINE p == <<VersionSet, {}>>
<1>4. p[2] = {}
  OBVIOUS
<1>5. Held = {p} /\ DOMAIN versions = {{}} /\ versions[{}] = 1
  BY <1>3 DEF Init, Held, NoCompaction
<1> HIDE DEF p
<1>6. IsFiniteSet({p}) /\ Cardinality({p}) = 1
  BY FS_Singleton
<1>7. Counted(versions, Held)
  <2>1. RefsTo({p}, {}) = {p}
    BY <1>4 DEF RefsTo
  <2> QED
    BY <1>5, <1>6, <1>4, <2>1 DEF Counted
<1>8. VersionsCounted
  BY <1>1, <1>7 DEF VersionsCounted, Initial, Threads
<1> QED
  BY <1>2, <1>8 DEF FilesInv

LEMMA FilesNext ==
    ASSUME NamesApart, FilesInv, [Next]_fileVars
    PROVE  FilesInv'
<1>1. CASE \E r \in Readers : RefCurrent(r) \/ ReadTable(r) \/ UnrefVersion(r)
  BY <1>1, ReaderKeeps
<1>2. CASE \E r \in Readers : \E e \in threads[r].holds : Release(r, e)
  BY <1>2, OpenKeeps DEF Threads
<1>3. CASE \E t \in Threads : OpenFile(t) \/ InsertTable(t)
  BY <1>3, OpenKeeps
<1>4. CASE StartFlush \/ WriteTable \/ FlushVerified \/ ApplyFlush
  BY <1>4, StartFlushKeeps, WriteTableKeeps, FlushVerifiedKeeps, ApplyFlushKeeps
<1>5. CASE (\E f \in doomed : RemoveFile(f)) \/ Removed
  BY <1>5, RemoveFileKeeps, RemovedKeeps
<1>6. CASE \E inputs \in SUBSET current : StartCompaction(inputs)
  BY <1>6, StartCompactionKeeps
<1>7. CASE VerifyFlush \/ VerifyOutput \/ ReadInput
  BY <1>7, BgFindTableKeeps
<1>8. CASE LeaveInput
  BY <1>8, OpenKeeps DEF LeaveInput, Bg, Threads
<1>9. CASE OpenOutput \/ FinishOutput \/ OutputVerified \/ DeleteInput
  BY <1>9, OpenOutputKeeps, CompactingKeeps
<1>10. CASE ApplyCompaction
  BY <1>10, ApplyCompactionKeeps
<1>11. CASE UNCHANGED fileVars
  <2>1. Held' = Held /\ Bg' = Bg /\ Place' = Place
    BY <1>11 DEF fileVars, Held, ReaderRefs, Bg, Place
  <2> QED
    BY <1>11, <2>1 DEF fileVars, FilesInv, Shape, VersionsCounted, Counted, OnDisk, LiveFiles,
       DoomedAreDead, OutputsArePending, CompactionInPlace, OpeningIsThere, NoTableMissing
<1> QED
  BY <1>1, <1>2, <1>3, <1>4, <1>5, <1>6, <1>7, <1>8, <1>9, <1>10, <1>11 DEF Next

(* What a thread opens is there: DBImpl::Get, the iterators, a compaction  *)
(* and the checks of what was written never open a table that              *)
(* RemoveObsoleteFiles has removed.                                        *)
THEOREM NoTableMissingAlways ==
    ASSUME NamesApart
    PROVE  Spec => []NoTableMissing
<1>1. Init => FilesInv
  BY FilesStart
<1>2. FilesInv /\ [Next]_fileVars => FilesInv'
  BY FilesNext
<1>3. FilesInv => NoTableMissing
  BY DEF FilesInv
<1> QED
  BY <1>1, <1>2, <1>3, PTL DEF Spec


-----------------------------------------------------------------------------
(* The lists of the cache *)

Elements(list) == {list[i] : i \in DOMAIN list}

(* What the recursion of Unlinked defines, for the first n of a list.      *)
IsKept(f, list, es, n) ==
    f = [i \in 0 .. n |-> IF i = 0 THEN <<>>
                          ELSE IF list[i] \in es THEN f[i - 1] ELSE Append(f[i - 1], list[i])]

LEMMA KeptExists ==
    ASSUME NEW n \in Nat, NEW list, NEW es
    PROVE  \E f : IsKept(f, list, es, n)
<1> DEFINE S == {m \in 0 .. n : \E f : IsKept(f, list, es, m)}
<1>1. 0 \in S
  <2> DEFINE f == [i \in 0 .. 0 |-> <<>>]
  <2>1. IsKept(f, list, es, 0)
    BY DEF IsKept
  <2> HIDE DEF f
  <2> QED
    BY <2>1
<1>2. ASSUME NEW m \in 1 .. n, m - 1 \in S
      PROVE  m \in S
  <2>1. PICK f : IsKept(f, list, es, m - 1)
    BY <1>2
  <2> DEFINE last == IF list[m] \in es THEN f[m - 1] ELSE Append(f[m - 1], list[m])
             h == [i \in 0 .. m |-> IF i = m THEN last ELSE f[i]]
  <2>2. \A i \in 0 .. m : h[i] = IF i = 0 THEN <<>>
                                 ELSE IF list[i] \in es THEN h[i - 1] ELSE Append(h[i - 1], list[i])
    <3> TAKE i \in 0 .. m
    <3>1. CASE i = m
      <4>1. i # 0 /\ h[i] = last /\ h[m - 1] = f[m - 1]
        BY <3>1
      <4> QED
        BY <3>1, <4>1
    <3>2. CASE i # m
      <4>1. i \in 0 .. m - 1 /\ h[i] = f[i]
        BY <3>2
      <4>2. f[i] = IF i = 0 THEN <<>>
                   ELSE IF list[i] \in es THEN f[i - 1] ELSE Append(f[i - 1], list[i])
        BY <2>1, <4>1 DEF IsKept
      <4>3. i # 0 => h[i - 1] = f[i - 1]
        BY <4>1
      <4> QED
        BY <4>1, <4>2, <4>3
    <3> QED
      BY <3>1, <3>2
  <2>3. h = [i \in 0 .. m |-> h[i]]
    OBVIOUS
  <2> HIDE DEF h
  <2>4. IsKept(h, list, es, m)
    BY <2>2, <2>3 DEF IsKept
  <2> QED
    BY <2>4
<1> HIDE DEF S
<1>3. \A m \in 0 .. n : m \in S
  BY <1>1, <1>2, UpToInduction
<1> QED
  BY <1>3 DEF S

(* What is kept of the first m are those that are not taken out, each once *)
(* if it was there once.                                                   *)
KeptOf(s, list, es, m) ==
    /\ Elements(s) = {list[i] : i \in 1 .. m} \ es
    /\ IsInjective(list) => IsInjective(s)

LEMMA KeptHolds ==
    ASSUME NEW E, NEW list \in Seq(E), NEW es, NEW f, IsKept(f, list, es, Len(list))
    PROVE  \A m \in 0 .. Len(list) : f[m] \in Seq(E) /\ KeptOf(f[m], list, es, m)
<1> DEFINE S == {m \in 0 .. Len(list) : f[m] \in Seq(E) /\ KeptOf(f[m], list, es, m)}
<1>0. Len(list) \in Nat /\ DOMAIN list = 1 .. Len(list)
  BY LenProperties
<1>a. \A i \in 0 .. Len(list) :
        f[i] = IF i = 0 THEN <<>>
               ELSE IF list[i] \in es THEN f[i - 1] ELSE Append(f[i - 1], list[i])
  <2> DEFINE n == Len(list)
  <2>1. IsKept(f, list, es, n)
    OBVIOUS
  <2> HIDE DEF n
  <2>2. \A i \in 0 .. n : f[i] = IF i = 0 THEN <<>>
                                 ELSE IF list[i] \in es THEN f[i - 1] ELSE Append(f[i - 1], list[i])
    BY <2>1 DEF IsKept
  <2> QED
    BY <2>2 DEF n
<1>1. 0 \in S
  <2>1. f[0] = <<>>
    BY <1>0, <1>a
  <2>2. <<>> \in Seq(E) /\ Elements(<<>>) = {} /\ IsInjective(<<>>)
    BY DEF Elements, IsInjective
  <2>3. {list[i] : i \in 1 .. 0} = {}
    OBVIOUS
  <2>4. {} \ es = {}
    OBVIOUS
  <2>5. KeptOf(f[0], list, es, 0)
    BY <2>1, <2>2, <2>3, <2>4 DEF KeptOf
  <2>6. f[0] \in Seq(E) /\ 0 \in 0 .. Len(list)
    BY <1>0, <2>1, <2>2
  <2> QED
    BY Zenon, <2>5, <2>6
<1>2. ASSUME NEW m \in 1 .. Len(list), m - 1 \in S
      PROVE  m \in S
  <2> DEFINE s == f[m - 1]
             e == list[m]
             before == {list[i] : i \in 1 .. (m - 1)}
             upto == {list[i] : i \in 1 .. m}
  <2>1. s \in Seq(E) /\ KeptOf(s, list, es, m - 1) /\ e \in E
    BY <1>0, <1>2, ElementOfSeq
  <2>2. f[m] = IF e \in es THEN s ELSE Append(s, e)
    <3>1. m \in 0 .. Len(list) /\ m # 0
      BY <1>0
    <3> QED
      BY <1>a, <3>1
  <2>3. upto = before \union {e}
    <3>1. \A i : i \in 1 .. m <=> (i \in 1 .. (m - 1) \/ i = m)
      BY <1>0
    <3> QED
      BY <3>1
  <2>4. IsInjective(list) => e \notin before
    BY <1>0 DEF IsInjective
  <2> HIDE DEF s, e, before, upto
  <2>5. CASE e \in es
    <3>1. f[m] = s /\ upto \ es = before \ es
      BY <2>2, <2>3, <2>5
    <3>2. KeptOf(s, list, es, m)
      BY <2>1, <3>1 DEF KeptOf, before, upto
    <3> QED
      BY <1>0, <2>1, <3>1, <3>2
  <2>6. CASE e \notin es
    <3> DEFINE t == Append(s, e)
    <3>1. f[m] = t /\ upto \ es = (before \ es) \union {e}
      BY <2>2, <2>3, <2>6
    <3>2. /\ t \in Seq(E) /\ Len(t) = Len(s) + 1 /\ Len(s) \in Nat
          /\ DOMAIN t = 1 .. Len(t) /\ DOMAIN s = 1 .. Len(s)
          /\ \A i \in 1 .. Len(s) : t[i] = s[i]
          /\ t[Len(s) + 1] = e
      BY <2>1, AppendProperties, LenProperties
    <3> HIDE DEF t
    <3>3. Elements(t) = Elements(s) \union {e}
      <4>1. \A i : i \in DOMAIN t <=> (i \in DOMAIN s \/ i = Len(s) + 1)
        BY <3>2
      <4> QED
        BY <3>2, <4>1 DEF Elements
    <3>4. Elements(s) = before \ es
      BY <2>1 DEF KeptOf, before
    <3>5. ASSUME IsInjective(list)
          PROVE  IsInjective(t)
      <4>1. e \notin Elements(s) /\ IsInjective(s)
        BY <2>1, <2>4, <3>4, <3>5 DEF KeptOf
      <4>2. \A i \in DOMAIN s : s[i] # e
        BY <4>1 DEF Elements
      <4>3. \A i \in DOMAIN t : i \in DOMAIN s \/ i = Len(s) + 1
        BY <3>2
      <4> QED
        BY <3>2, <4>1, <4>2, <4>3 DEF IsInjective
    <3>6. KeptOf(t, list, es, m)
      BY <3>1, <3>3, <3>4, <3>5 DEF KeptOf, upto
    <3> QED
      BY <1>0, <3>1, <3>2, <3>6
  <2> QED
    BY <2>5, <2>6
<1> HIDE DEF S
<1>3. \A m \in 0 .. Len(list) : m \in S
  BY <1>0, <1>1, <1>2, UpToInduction
<1> QED
  BY <1>3 DEF S

(* LRU_Remove leaves the others, and each once if it was there once.       *)
LEMMA UnlinkedHolds ==
    ASSUME NEW E, NEW list \in Seq(E), NEW es
    PROVE  /\ Unlinked(list, es) \in Seq(E)
           /\ Elements(Unlinked(list, es)) = Elements(list) \ es
           /\ IsInjective(list) => IsInjective(Unlinked(list, es))
<1> DEFINE n == Len(list)
           f == CHOOSE f : IsKept(f, list, es, n)
<1>1. n \in Nat /\ DOMAIN list = 1 .. n
  BY LenProperties
<1>2. Unlinked(list, es) = f[n]
  BY Zenon DEF Unlinked, IsKept
<1>3. IsKept(f, list, es, n)
  <2> HIDE DEF n
  <2> QED
    BY <1>1, KeptExists
<1> HIDE DEF f
<1>4. f[n] \in Seq(E) /\ KeptOf(f[n], list, es, n)
  BY <1>1, <1>3, KeptHolds
<1> QED
  BY <1>1, <1>2, <1>4 DEF KeptOf, Elements


(* Who holds an entry, hs being what each thread holds.                    *)
Handles == [t \in Threads |-> threads[t].holds]
Holders(hs, e) == {t \in DOMAIN hs : e \in hs[t]}

(* The references of a cache's entries are counted, with that of the cache *)
EntriesCounted(c, hs) ==
    /\ IsFiniteSet(DOMAIN c.entries)
    /\ \A t \in DOMAIN hs : hs[t] \subseteq DOMAIN c.entries
    /\ \A e \in DOMAIN c.entries :
          /\ DOMAIN c.entries[e] = {"refs", "cached"}
          /\ IsFiniteSet(Holders(hs, e))
          /\ c.entries[e].refs = Cardinality(Holders(hs, e))
                                   + (IF c.entries[e].cached THEN 1 ELSE 0)
          /\ c.entries[e].refs # 0

(* lru_ has the entries that the cache alone refers to, each once.         *)
Linked(c) ==
    /\ c.lru \in Seq(Elements(c.lru)) /\ IsInjective(c.lru)
    /\ Elements(c.lru) = {e \in InCache(c) : c.entries[e].refs = 1}

OneOfAFile(es) == \A e1, e2 \in es : FileOf(e1) = FileOf(e2) => e1 = e2

-----------------------------------------------------------------------------
(* A list of elements is a sequence over them.                             *)
LEMMA SeqOfElements ==
    ASSUME NEW E, NEW list \in Seq(E)
    PROVE  list \in Seq(Elements(list))
<1>1. Len(list) \in Nat /\ DOMAIN list = 1 .. Len(list) /\ list = [i \in 1 .. Len(list) |-> list[i]]
  BY LenProperties
<1>2. \A i \in 1 .. Len(list) : list[i] \in Elements(list)
  BY <1>1 DEF Elements
<1>3. list \in [1 .. Len(list) -> Elements(list)]
  BY <1>1, <1>2
<1> QED
  BY <1>1, <1>3, SeqDef

(* LRU_Remove, on a list of the cache                                      *)
LEMMA StillAList ==
    ASSUME NEW list, list \in Seq(Elements(list)), IsInjective(list), NEW es
    PROVE  /\ Unlinked(list, es) \in Seq(Elements(Unlinked(list, es)))
           /\ IsInjective(Unlinked(list, es))
           /\ Elements(Unlinked(list, es)) = Elements(list) \ es
  BY UnlinkedHolds, SeqOfElements

(* LRU_Append of an entry that is not in the list                          *)
LEMMA Appended ==
    ASSUME NEW list, list \in Seq(Elements(list)), IsInjective(list), NEW e, e \notin Elements(list)
    PROVE  /\ Append(list, e) \in Seq(Elements(Append(list, e)))
           /\ IsInjective(Append(list, e))
           /\ Elements(Append(list, e)) = Elements(list) \union {e}
<1> DEFINE s == Append(list, e)
           E == Elements(list) \union {e}
<1>1. list \in Seq(E) /\ e \in E
  <2>1. Len(list) \in Nat /\ DOMAIN list = 1 .. Len(list) /\ list = [i \in 1 .. Len(list) |-> list[i]]
    BY LenProperties
  <2>2. \A i \in 1 .. Len(list) : list[i] \in E
    BY <2>1 DEF Elements
  <2>3. list \in [1 .. Len(list) -> E]
    BY <2>1, <2>2
  <2> QED
    BY <2>1, <2>3, SeqDef
<1>2. /\ s \in Seq(E) /\ Len(s) = Len(list) + 1 /\ Len(list) \in Nat
      /\ DOMAIN s = 1 .. Len(s) /\ DOMAIN list = 1 .. Len(list)
      /\ \A i \in 1 .. Len(list) : s[i] = list[i]
      /\ s[Len(list) + 1] = e
  BY <1>1, AppendProperties, LenProperties
<1> HIDE DEF s
<1>3. \A i : i \in DOMAIN s <=> (i \in DOMAIN list \/ i = Len(list) + 1)
  BY <1>2
<1>4. Elements(s) = Elements(list) \union {e}
  BY <1>2, <1>3 DEF Elements
<1>5. \A i \in DOMAIN list : list[i] # e
  BY DEF Elements
<1>6. IsInjective(s)
  BY <1>2, <1>3, <1>5 DEF IsInjective
<1> QED
  BY <1>2, <1>4, <1>6 DEF s

-----------------------------------------------------------------------------
(* One more thread holds an entry, or one less.                            *)
LEMMA HolderComes ==
    ASSUME NEW hs, NEW t \in DOMAIN hs, NEW e, e \notin hs[t], NEW d, IsFiniteSet(Holders(hs, d))
    PROVE  LET gs == [hs EXCEPT ![t] = @ \union {e}]
           IN  /\ IsFiniteSet(Holders(gs, d))
               /\ Cardinality(Holders(gs, d)) =
                    IF d = e THEN Cardinality(Holders(hs, d)) + 1 ELSE Cardinality(Holders(hs, d))
<1> DEFINE gs == [hs EXCEPT ![t] = @ \union {e}]
<1>1. CASE d = e
  <2>1. Holders(gs, d) = Holders(hs, d) \union {t} /\ t \notin Holders(hs, d)
    BY <1>1 DEF Holders
  <2> HIDE DEF gs
  <2>2. /\ IsFiniteSet(Holders(hs, d) \union {t})
        /\ Cardinality(Holders(hs, d) \union {t}) = Cardinality(Holders(hs, d)) + 1
    BY <2>1, FS_AddElement
  <2> QED
    BY <1>1, <2>1, <2>2 DEF gs
<1>2. CASE d # e
  <2>1. Holders(gs, d) = Holders(hs, d)
    BY <1>2 DEF Holders
  <2> QED
    BY <1>2, <2>1
<1> QED
  BY <1>1, <1>2

LEMMA HolderGoes ==
    ASSUME NEW hs, NEW t \in DOMAIN hs, NEW e \in hs[t], NEW d, IsFiniteSet(Holders(hs, d))
    PROVE  LET gs == [hs EXCEPT ![t] = @ \ {e}]
           IN  /\ IsFiniteSet(Holders(gs, d))
               /\ Cardinality(Holders(gs, d)) =
                    IF d = e THEN Cardinality(Holders(hs, d)) - 1 ELSE Cardinality(Holders(hs, d))
<1> DEFINE gs == [hs EXCEPT ![t] = @ \ {e}]
<1>1. CASE d = e
  <2>1. Holders(gs, d) = Holders(hs, d) \ {t} /\ t \in Holders(hs, d)
    BY <1>1 DEF Holders
  <2> QED
    BY <1>1, <2>1, FS_RemoveElement
<1>2. CASE d # e
  <2>1. Holders(gs, d) = Holders(hs, d)
    BY <1>2 DEF Holders
  <2> QED
    BY <1>2, <2>1
<1> QED
  BY <1>1, <1>2

(* An entry that the cache alone refers to is held by nobody.              *)
LEMMA HeldByNobody ==
    ASSUME NEW c, NEW hs, EntriesCounted(c, hs), NEW e \in DOMAIN c.entries
    PROVE  /\ Cardinality(Holders(hs, e)) \in Nat
           /\ c.entries[e].cached /\ c.entries[e].refs = 1 => Holders(hs, e) = {}
           /\ ~c.entries[e].cached => Holders(hs, e) # {}
           /\ \A t \in DOMAIN hs : e \in hs[t] => Holders(hs, e) # {} /\ Cardinality(Holders(hs, e)) > 0
<1>1. /\ IsFiniteSet(Holders(hs, e)) /\ c.entries[e].refs # 0
      /\ c.entries[e].refs = Cardinality(Holders(hs, e)) + (IF c.entries[e].cached THEN 1 ELSE 0)
  BY DEF EntriesCounted
<1>2. Cardinality(Holders(hs, e)) \in Nat /\ (Cardinality(Holders(hs, e)) = 0 <=> Holders(hs, e) = {})
  BY <1>1, FS_CardinalityType, FS_EmptySet
<1>3. \A t \in DOMAIN hs : e \in hs[t] => Holders(hs, e) # {}
  BY DEF Holders
<1> QED
  BY <1>1, <1>2, <1>3


CacheOK(c, hs) == EntriesCounted(c, hs) /\ Linked(c) /\ OneOfAFile(InCache(c))

(* LRUCache::Ref, on behalf of t: the entry leaves lru_.                   *)
LEMMA RefKeepsCache ==
    ASSUME NEW c, NEW hs, CacheOK(c, hs), NEW t \in DOMAIN hs, NEW e \in InCache(c), e \notin hs[t]
    PROVE  CacheOK(Ref(c, e), [hs EXCEPT ![t] = @ \union {e}]) /\ InCache(Ref(c, e)) = InCache(c)
             /\ DOMAIN Ref(c, e).entries = DOMAIN c.entries
<1> DEFINE d == Ref(c, e)
           gs == [hs EXCEPT ![t] = @ \union {e}]
<1>1. /\ d.entries = [c.entries EXCEPT ![e].refs = @ + 1] /\ d.lru = Unlinked(c.lru, {e})
      /\ e \in DOMAIN c.entries
  BY DEF Ref, InCache
<1>2. /\ DOMAIN d.entries = DOMAIN c.entries
      /\ \A x \in DOMAIN c.entries :
           /\ DOMAIN d.entries[x] = {"refs", "cached"}
           /\ d.entries[x].cached = c.entries[x].cached
           /\ d.entries[x].refs = IF x = e THEN c.entries[x].refs + 1 ELSE c.entries[x].refs
  BY <1>1 DEF CacheOK, EntriesCounted
<1>3. InCache(d) = InCache(c)
  <2> HIDE DEF d
  <2> QED
    BY <1>2 DEF InCache
<1>4. DOMAIN gs = DOMAIN hs /\ \A u \in DOMAIN hs : gs[u] \subseteq DOMAIN c.entries
  BY <1>1 DEF CacheOK, EntriesCounted
<1>5. ASSUME NEW x \in DOMAIN c.entries
      PROVE  /\ IsFiniteSet(Holders(gs, x))
             /\ Cardinality(Holders(gs, x)) =
                  IF x = e THEN Cardinality(Holders(hs, x)) + 1 ELSE Cardinality(Holders(hs, x))
             /\ Cardinality(Holders(hs, x)) \in Nat
             /\ c.entries[x].refs = Cardinality(Holders(hs, x)) + (IF c.entries[x].cached THEN 1 ELSE 0)
  <2>1. EntriesCounted(c, hs) /\ IsFiniteSet(Holders(hs, x))
    BY DEF CacheOK, EntriesCounted
  <2>2. /\ Cardinality(Holders(hs, x)) \in Nat
        /\ c.entries[x].refs = Cardinality(Holders(hs, x)) + (IF c.entries[x].cached THEN 1 ELSE 0)
    BY <2>1, HeldByNobody DEF EntriesCounted
  <2>3. /\ IsFiniteSet(Holders(gs, x))
        /\ Cardinality(Holders(gs, x)) =
             IF x = e THEN Cardinality(Holders(hs, x)) + 1 ELSE Cardinality(Holders(hs, x))
    BY <2>1, HolderComes
  <2> QED
    BY <2>2, <2>3
<1> HIDE DEF d, gs
<1>6. EntriesCounted(d, gs)
  <2>1. ASSUME NEW x \in DOMAIN c.entries
        PROVE  /\ d.entries[x].refs = Cardinality(Holders(gs, x)) + (IF d.entries[x].cached THEN 1 ELSE 0)
               /\ d.entries[x].refs # 0
    <3>1. c.entries[x].refs # 0
      BY DEF CacheOK, EntriesCounted
    <3>2. CASE x = e
      BY <1>2, <1>5, <3>2
    <3>3. CASE x # e
      BY <1>2, <1>5, <3>1, <3>3
    <3> QED
      BY <3>2, <3>3
  <2>2. IsFiniteSet(DOMAIN c.entries)
    BY DEF CacheOK, EntriesCounted
  <2> QED
    BY <1>2, <1>4, <1>5, <2>1, <2>2 DEF EntriesCounted
<1>7. Linked(d)
  <2>1. /\ d.lru \in Seq(Elements(d.lru)) /\ IsInjective(d.lru)
        /\ Elements(d.lru) = Elements(c.lru) \ {e}
    BY <1>1, StillAList DEF CacheOK, Linked
  <2>2. Elements(c.lru) = {x \in InCache(c) : c.entries[x].refs = 1}
    BY DEF CacheOK, Linked
  <2>3. d.entries[e].refs # 1
    BY <1>1, <1>2, <1>5, HeldByNobody DEF CacheOK, EntriesCounted
  <2>4. \A x \in InCache(c) : x # e => d.entries[x].refs = c.entries[x].refs
    BY <1>2 DEF InCache
  <2> QED
    BY <1>3, <2>1, <2>2, <2>3, <2>4 DEF Linked
<1> QED
  BY <1>2, <1>3, <1>6, <1>7 DEF CacheOK, d, gs

(* LRUCache::Unref, as Release calls it                                    *)
LEMMA UnrefKeepsCache ==
    ASSUME NEW c, NEW hs, CacheOK(c, hs), NEW t \in DOMAIN hs, NEW e \in hs[t]
    PROVE  CacheOK(Unref(c, e), [hs EXCEPT ![t] = @ \ {e}])
             /\ DOMAIN Unref(c, e).entries \subseteq DOMAIN c.entries
<1> DEFINE d == Unref(c, e)
           gs == [hs EXCEPT ![t] = @ \ {e}]
<1>0. /\ e \in DOMAIN c.entries /\ DOMAIN gs = DOMAIN hs
      /\ \A u \in DOMAIN hs : hs[u] \subseteq DOMAIN c.entries /\ gs[u] \subseteq hs[u]
      /\ IsFiniteSet(DOMAIN c.entries)
  BY DEF CacheOK, EntriesCounted
<1>1. ASSUME NEW x \in DOMAIN c.entries
      PROVE  /\ IsFiniteSet(Holders(gs, x))
             /\ Cardinality(Holders(gs, x)) =
                  IF x = e THEN Cardinality(Holders(hs, x)) - 1 ELSE Cardinality(Holders(hs, x))
             /\ Cardinality(Holders(hs, x)) \in Nat
             /\ c.entries[x].refs = Cardinality(Holders(hs, x)) + (IF c.entries[x].cached THEN 1 ELSE 0)
             /\ c.entries[x].refs # 0
             /\ DOMAIN c.entries[x] = {"refs", "cached"}
  BY HolderGoes, HeldByNobody DEF CacheOK, EntriesCounted
<1>2. Cardinality(Holders(hs, e)) > 0
  BY <1>0, HeldByNobody DEF CacheOK
<1>3. CASE c.entries[e].refs = 1
  <2>1. d.entries = [x \in DOMAIN c.entries \ {e} |-> c.entries[x]] /\ d.lru = c.lru
        /\ DOMAIN d.entries = DOMAIN c.entries \ {e}
    BY <1>3 DEF Unref, Without
  <2>2. ~c.entries[e].cached
    BY <1>0, <1>1, <1>2, <1>3
  <2>3. InCache(d) = InCache(c) /\ e \notin InCache(c)
    <3> HIDE DEF d
    <3> QED
      BY <2>1, <2>2 DEF InCache
  <2>4. Holders(gs, e) = {}
    <3>1. Cardinality(Holders(gs, e)) = 0
      <4> HIDE DEF d, gs
      <4>1. 1 = Cardinality(Holders(hs, e)) + 0
        BY <1>0, <1>1, <1>3, <2>2
      <4>2. Cardinality(Holders(gs, e)) = Cardinality(Holders(hs, e)) - 1
              /\ Cardinality(Holders(hs, e)) \in Nat
        BY <1>0, <1>1
      <4> QED
        BY <4>1, <4>2
    <3> QED
      BY <1>0, <1>1, <3>1, FS_EmptySet
  <2>5. \A u \in DOMAIN gs : gs[u] \subseteq DOMAIN d.entries
    BY <1>0, <2>1, <2>4 DEF Holders
  <2>6. IsFiniteSet(DOMAIN d.entries)
    BY <1>0, <2>1, FS_Subset
  <2> HIDE DEF d, gs
  <2>7. EntriesCounted(d, gs)
    BY <1>1, <2>1, <2>5, <2>6 DEF EntriesCounted
  <2>8. Linked(d)
    <3>1. \A x \in InCache(c) : d.entries[x].refs = c.entries[x].refs
      BY <2>1, <2>3 DEF InCache
    <3> QED
      BY <2>1, <2>3, <3>1 DEF CacheOK, Linked
  <2> QED
    BY <2>1, <2>3, <2>7, <2>8 DEF CacheOK, d, gs
<1>4. CASE c.entries[e].refs # 1
  <2> DEFINE freed == c.entries[e].cached /\ c.entries[e].refs = 2
  <2>1. /\ d.entries = [c.entries EXCEPT ![e].refs = @ - 1]
        /\ d.lru = IF freed THEN Append(c.lru, e) ELSE c.lru
    BY <1>4 DEF Unref
  <2>2. /\ DOMAIN d.entries = DOMAIN c.entries
        /\ \A x \in DOMAIN c.entries :
             /\ DOMAIN d.entries[x] = {"refs", "cached"}
             /\ d.entries[x].cached = c.entries[x].cached
             /\ d.entries[x].refs = IF x = e THEN c.entries[x].refs - 1 ELSE c.entries[x].refs
    BY <1>1, <2>1
  <2> HIDE DEF d, gs
  <2>3. InCache(d) = InCache(c)
    BY <2>2 DEF InCache
  <2>4. EntriesCounted(d, gs)
    <3>1. ASSUME NEW x \in DOMAIN c.entries
          PROVE  /\ d.entries[x].refs = Cardinality(Holders(gs, x)) + (IF d.entries[x].cached THEN 1 ELSE 0)
                 /\ d.entries[x].refs # 0
      <4>1. CASE x = e
        BY <1>1, <1>4, <2>2, <4>1
      <4>2. CASE x # e
        BY <1>1, <2>2, <4>2
      <4> QED
        BY <4>1, <4>2
    <3>2. \A u \in DOMAIN gs : gs[u] \subseteq DOMAIN c.entries
      BY <1>0
    <3> QED
      BY <1>0, <1>1, <2>2, <3>1, <3>2 DEF EntriesCounted
  <2>5. Elements(c.lru) = {x \in InCache(c) : c.entries[x].refs = 1}
          /\ c.lru \in Seq(Elements(c.lru)) /\ IsInjective(c.lru)
    BY DEF CacheOK, Linked
  <2>6. \A x \in InCache(c) : x # e => d.entries[x].refs = c.entries[x].refs
    BY <2>2 DEF InCache
  <2>7. Linked(d)
    <3>1. CASE freed
      <4>1. e \in InCache(c) /\ d.entries[e].refs = 1 /\ e \notin Elements(c.lru)
        BY <1>0, <1>4, <2>2, <2>5, <3>1 DEF InCache
      <4>2. d.lru \in Seq(Elements(d.lru)) /\ IsInjective(d.lru)
              /\ Elements(d.lru) = Elements(c.lru) \union {e}
        BY <2>1, <2>5, <3>1, <4>1, Appended
      <4> QED
        BY <2>3, <2>5, <2>6, <4>1, <4>2 DEF Linked
    <3>2. CASE ~freed
      <4>1. e \in InCache(c) => d.entries[e].refs # 1
        BY <1>0, <1>1, <2>2, <3>2 DEF InCache
      <4> QED
        BY <1>4, <2>1, <2>3, <2>5, <2>6, <3>2, <4>1 DEF Linked
    <3> QED
      BY <3>1, <3>2
  <2> QED
    BY <2>2, <2>3, <2>4, <2>7 DEF CacheOK, d, gs
<1> QED
  BY <1>3, <1>4

(* FinishErase of entries of the cache: what nobody holds is gone, the     *)
(* rest waits for those who hold it.                                       *)
LEMMA FinishEraseKeeps ==
    ASSUME NEW c, NEW hs, EntriesCounted(c, hs), Linked(c), NEW es, es \subseteq InCache(c)
    PROVE  /\ EntriesCounted(FinishErase(c, es), hs) /\ Linked(FinishErase(c, es))
           /\ InCache(FinishErase(c, es)) = InCache(c) \ es
           /\ DOMAIN FinishErase(c, es).entries \subseteq DOMAIN c.entries
<1> DEFINE d == FinishErase(c, es)
           freed == {e \in es : c.entries[e].refs = 1}
<1>1. /\ DOMAIN d.entries = DOMAIN c.entries \ freed
      /\ \A x \in DOMAIN d.entries :
           d.entries[x] = IF x \in es THEN [refs |-> c.entries[x].refs - 1, cached |-> FALSE]
                          ELSE c.entries[x]
      /\ d.lru = Unlinked(c.lru, es)
  BY DEF FinishErase
<1>2. \A x \in es : x \in DOMAIN c.entries /\ c.entries[x].cached
  BY DEF InCache
<1> HIDE DEF d
<1>3. InCache(d) = InCache(c) \ es
  <2>1. ASSUME NEW x \in InCache(d)
        PROVE  x \in InCache(c) \ es
    <3>1. x \in DOMAIN d.entries /\ d.entries[x].cached
      BY DEF InCache
    <3>2. x \notin es
      <4> SUFFICES ASSUME x \in es PROVE FALSE
        OBVIOUS
      <4>1. d.entries[x] = [refs |-> c.entries[x].refs - 1, cached |-> FALSE]
        BY <1>1, <3>1
      <4> QED
        BY <3>1, <4>1
    <3> QED
      BY <1>1, <3>1, <3>2 DEF InCache
  <2>2. \A x : x \in InCache(c) \ es => x \in InCache(d)
    BY <1>1 DEF InCache
  <2> QED
    BY <2>1, <2>2
<1>4. EntriesCounted(d, hs)
  <2>1. IsFiniteSet(DOMAIN d.entries)
    BY <1>1, FS_Subset DEF EntriesCounted
  <2>2. \A e \in freed : Holders(hs, e) = {}
    BY <1>2, HeldByNobody
  <2>3. \A t \in DOMAIN hs : hs[t] \subseteq DOMAIN d.entries
    BY <1>1, <2>2 DEF EntriesCounted, Holders
  <2>4. ASSUME NEW x \in DOMAIN d.entries
        PROVE  /\ DOMAIN d.entries[x] = {"refs", "cached"}
               /\ IsFiniteSet(Holders(hs, x))
               /\ d.entries[x].refs = Cardinality(Holders(hs, x)) + (IF d.entries[x].cached THEN 1 ELSE 0)
               /\ d.entries[x].refs # 0
    <3>1. /\ x \in DOMAIN c.entries /\ DOMAIN c.entries[x] = {"refs", "cached"}
          /\ IsFiniteSet(Holders(hs, x)) /\ Cardinality(Holders(hs, x)) \in Nat
          /\ c.entries[x].refs = Cardinality(Holders(hs, x)) + (IF c.entries[x].cached THEN 1 ELSE 0)
          /\ c.entries[x].refs # 0
      BY <1>1, HeldByNobody DEF EntriesCounted
    <3>2. CASE x \in es
      <4>1. c.entries[x].refs # 1 /\ c.entries[x].cached
        BY <1>1, <1>2, <3>2
      <4>2. d.entries[x] = [refs |-> c.entries[x].refs - 1, cached |-> FALSE]
        BY <1>1, <3>2
      <4> QED
        BY <3>1, <4>1, <4>2
    <3>3. CASE x \notin es
      <4>1. d.entries[x] = c.entries[x]
        BY <1>1, <3>3
      <4> QED
        BY <3>1, <4>1
    <3> QED
      BY <3>2, <3>3
  <2> QED
    BY <2>1, <2>3, <2>4 DEF EntriesCounted
<1>5. Linked(d)
  <2>1. /\ d.lru \in Seq(Elements(d.lru)) /\ IsInjective(d.lru)
        /\ Elements(d.lru) = Elements(c.lru) \ es
    BY <1>1, StillAList DEF Linked
  <2>2. Elements(c.lru) = {x \in InCache(c) : c.entries[x].refs = 1}
    BY DEF Linked
  <2>3. \A x \in InCache(c) \ es : d.entries[x] = c.entries[x]
    BY <1>1 DEF InCache
  <2> QED
    BY <1>3, <2>1, <2>2, <2>3 DEF Linked
<1> QED
  BY <1>1, <1>3, <1>4, <1>5 DEF d


(* The name of a new entry is free: with one name more than there are      *)
(* entries, one of the names is not taken.                                 *)
LEMMA NewEntryIsFree ==
    ASSUME NEW f, IsFiniteSet(DOMAIN entries)
    PROVE  NewEntry(f) \notin DOMAIN entries /\ FileOf(NewEntry(f)) = f
<1> DEFINE E == DOMAIN entries
           k == Cardinality(E)
           free == {i \in 1 .. (k + 1) : <<f, i>> \notin E}
<1>1. k \in Nat
  BY FS_CardinalityType
<1>2. free # {}
  <2> SUFFICES ASSUME free = {} PROVE FALSE
    OBVIOUS
  <2> DEFINE name == [i \in 1 .. (k + 1) |-> <<f, i>>]
  <2> HIDE DEF k
  <2>1. IsFiniteSet(1 .. (k + 1)) /\ Cardinality(1 .. (k + 1)) = k + 1
    <3>1. 1 \in Int /\ k + 1 \in Int /\ ~(1 > k + 1) /\ (k + 1) - 1 + 1 = k + 1
      BY <1>1
    <3> QED
      BY <3>1, FS_Interval
  <2>2. name \in [1 .. (k + 1) -> E]
    OBVIOUS
  <2>3. Cardinality(E) < Cardinality(1 .. (k + 1))
    BY <1>1, <2>1 DEF k
  <2>4. PICK x, y \in 1 .. (k + 1) : x # y /\ name[x] = name[y]
    <3>1. IsFiniteSet(E)
      OBVIOUS
    <3> DEFINE T == 1 .. (k + 1)
    <3>2. IsFiniteSet(T) /\ name \in [T -> E] /\ Cardinality(E) < Cardinality(T)
      BY <2>1, <2>2, <2>3
    <3> HIDE DEF name, E, T
    <3>3. \E x, y \in T : x # y /\ name[x] = name[y]
      BY <3>1, <3>2, FS_PigeonHole
    <3> QED
      BY <3>3 DEF T
  <2> QED
    BY <2>4
<1>3. free \subseteq Nat
  BY <1>1
<1> HIDE DEF free
<1>4. PICK i \in free : \A j \in free : ~ (<<j, i>> \in OpToRel(<, Nat))
  BY <1>2, <1>3, NatLessThanWellFounded, WFMin
<1>5. \A j \in free : i <= j
  <2> TAKE j \in free
  <2>1. i \in Nat /\ j \in Nat /\ ~ (j < i)
    BY <1>3, <1>4 DEF OpToRel
  <2> QED
    BY <2>1
<1>6. Min(free) \in free
  BY <1>5 DEF Min
<1>7. NewEntry(f) = <<f, Min(free)>>
  BY DEF NewEntry, free
<1> QED
  BY <1>6, <1>7 DEF free, FileOf

(* LRUCache::Insert on behalf of t, which gets a handle                    *)
LEMMA InsertedKeepsCache ==
    ASSUME Capacity \in Nat, NEW hs, CacheOK(Cache, hs), NEW t \in DOMAIN hs, NEW f
    PROVE  /\ CacheOK(Inserted(Cache, f), [hs EXCEPT ![t] = @ \union {NewEntry(f)}])
           /\ DOMAIN Inserted(Cache, f).entries \subseteq DOMAIN entries \union {NewEntry(f)}
           /\ NewEntry(f) \notin DOMAIN entries /\ FileOf(NewEntry(f)) = f
<1> DEFINE c == Cache
           n == NewEntry(f)
           new == IF Capacity > 0 THEN [refs |-> 2, cached |-> TRUE] ELSE [refs |-> 1, cached |-> FALSE]
           added == [e \in DOMAIN c.entries \union {n} |->
                       IF e \in DOMAIN c.entries THEN c.entries[e] ELSE new]
           c1 == [c EXCEPT !.entries = added]
           with == FinishErase(c1, EntryFor(c, f))
           over == Max({0, Min({Cardinality(InCache(with)) - Capacity, Len(with.lru)})})
           gs == [hs EXCEPT ![t] = @ \union {n}]
<1>0. c.entries = entries /\ c.lru = lru /\ c = [entries |-> entries, lru |-> lru]
  BY DEF Cache
<1>1. n \notin DOMAIN entries /\ FileOf(n) = f
  <2>1. IsFiniteSet(DOMAIN entries)
    BY <1>0 DEF CacheOK, EntriesCounted
  <2> QED
    BY <2>1, NewEntryIsFree
<1>2. Inserted(c, f) = FinishErase(with, {with.lru[i] : i \in 1 .. over})
  BY DEF Inserted
<1>3. /\ DOMAIN c1.entries = DOMAIN entries \union {n} /\ c1.lru = lru
      /\ c1.entries[n] = new
      /\ \A x \in DOMAIN entries : c1.entries[x] = entries[x]
  <2>1. c1.entries = added /\ c1.lru = lru
    BY <1>0
  <2> HIDE DEF n, new, c, c1
  <2> QED
    BY <1>0, <1>1, <2>1
<1> HIDE DEF c, n, new, added, c1, with, over, gs
<1>4. InCache(c1) = InCache(c) \union (IF Capacity > 0 THEN {n} ELSE {})
  <2>1. new.cached <=> Capacity > 0
    BY DEF new
  <2>2. n \notin InCache(c)
    BY <1>0, <1>1 DEF InCache
  <2>3. \A x \in DOMAIN c1.entries : c1.entries[x].cached <=>
          (x \in DOMAIN c.entries /\ c.entries[x].cached) \/ (x = n /\ Capacity > 0)
    BY <1>0, <1>1, <1>3, <2>1
  <2> QED
    BY <1>0, <1>3, <2>3 DEF InCache
<1>5. EntriesCounted(c1, gs)
  <2>0. EntriesCounted(c, hs)
    BY DEF CacheOK, c
  <2>1. IsFiniteSet(DOMAIN c1.entries)
    BY <1>0, <1>3, <2>0, FS_AddElement DEF EntriesCounted
  <2>2. \A u \in DOMAIN gs : gs[u] \subseteq DOMAIN c1.entries
    BY <1>0, <1>3, <2>0 DEF EntriesCounted, gs
  <2>3. Holders(hs, n) = {} /\ n \notin hs[t]
    BY <1>0, <1>1, <2>0 DEF EntriesCounted, Holders
  <2>4. ASSUME NEW x \in DOMAIN c1.entries
        PROVE  /\ DOMAIN c1.entries[x] = {"refs", "cached"}
               /\ IsFiniteSet(Holders(gs, x))
               /\ c1.entries[x].refs = Cardinality(Holders(gs, x)) + (IF c1.entries[x].cached THEN 1 ELSE 0)
               /\ c1.entries[x].refs # 0
    <3>1. CASE x = n
      <4>1. IsFiniteSet(Holders(hs, x)) /\ Cardinality(Holders(hs, x)) = 0
        BY <2>3, <3>1, FS_EmptySet
      <4>2. IsFiniteSet(Holders(gs, x)) /\ Cardinality(Holders(gs, x)) = 0 + 1
        BY <2>3, <3>1, <4>1, HolderComes DEF gs
      <4>3. c1.entries[x] = new
        BY <1>3, <3>1
      <4>4. CASE Capacity > 0
        BY <4>2, <4>3, <4>4 DEF new
      <4>5. CASE ~(Capacity > 0)
        BY <4>2, <4>3, <4>5 DEF new
      <4> QED
        BY <4>4, <4>5
    <3>2. CASE x # n
      <4>1. x \in DOMAIN c.entries /\ c1.entries[x] = c.entries[x]
        BY <1>0, <1>3, <3>2
      <4>2. IsFiniteSet(Holders(hs, x))
        BY <2>0, <4>1 DEF EntriesCounted
      <4>3. IsFiniteSet(Holders(gs, x)) /\ Cardinality(Holders(gs, x)) = Cardinality(Holders(hs, x))
        BY <2>3, <3>2, <4>2, HolderComes DEF gs
      <4> QED
        BY <2>0, <4>1, <4>3 DEF EntriesCounted
    <3> QED
      BY <3>1, <3>2
  <2> QED
    BY <2>1, <2>2, <2>4 DEF EntriesCounted
<1>6. Linked(c1)
  <2>1. /\ lru \in Seq(Elements(lru)) /\ IsInjective(lru)
        /\ Elements(lru) = {x \in InCache(c) : c.entries[x].refs = 1}
    BY <1>0 DEF CacheOK, Linked, c
  <2>2. Capacity > 0 => c1.entries[n].refs # 1
    BY <1>3 DEF new
  <2>3. \A x \in InCache(c) : c1.entries[x] = c.entries[x]
    BY <1>0, <1>3 DEF InCache
  <2> QED
    BY <1>3, <1>4, <2>1, <2>2, <2>3 DEF Linked
<1>7. EntryFor(c, f) \subseteq InCache(c1)
  BY <1>4 DEF EntryFor
<1>8. /\ EntriesCounted(with, gs) /\ Linked(with)
      /\ InCache(with) = InCache(c1) \ EntryFor(c, f)
      /\ DOMAIN with.entries \subseteq DOMAIN c1.entries
  BY <1>5, <1>6, <1>7, FinishEraseKeeps DEF with
<1>9. OneOfAFile(InCache(with))
  <2>1. OneOfAFile(InCache(c))
    BY DEF CacheOK, c
  <2>2. \A x \in InCache(c) : x \notin EntryFor(c, f) => FileOf(x) # f
    BY DEF EntryFor
  <2> QED
    BY <1>1, <1>4, <1>8, <2>1, <2>2 DEF OneOfAFile
<1>10. {with.lru[i] : i \in 1 .. over} \subseteq InCache(with)
  <2>1. Elements(with.lru) \subseteq InCache(with)
    BY <1>8 DEF Linked
  <2>2. Len(with.lru) \in Nat /\ DOMAIN with.lru = 1 .. Len(with.lru)
    BY <1>8, LenProperties DEF Linked
  <2>3. Cardinality(InCache(with)) \in Nat
    <3>1. InCache(with) \subseteq DOMAIN with.entries
      BY DEF InCache
    <3> QED
      BY <1>8, <3>1, FS_Subset, FS_CardinalityType DEF EntriesCounted
  <2>4. over \in Nat /\ over <= Len(with.lru)
    <3> DEFINE a == Cardinality(InCache(with)) - Capacity
               b == Len(with.lru)
               m == Min({a, b})
    <3>1. a \in Int /\ b \in Nat
      BY <2>2, <2>3
    <3> HIDE DEF a, b
    <3>2. m \in {a, b} /\ m <= b
      <4>1. \E x \in {a, b} : \A y \in {a, b} : x <= y
        BY <3>1
      <4> QED
        BY <4>1 DEF Min
    <3> HIDE DEF m
    <3>3. m \in Int
      BY <3>1, <3>2
    <3>4. Max({0, m}) \in {0, m} /\ Max({0, m}) >= 0
      <4>1. \E x \in {0, m} : \A y \in {0, m} : x >= y
        BY <3>3
      <4> QED
        BY <4>1 DEF Max
    <3>5. over = Max({0, m})
      BY DEF over, m, a, b
    <3>6. over \in Nat /\ over <= b
      BY <3>1, <3>2, <3>3, <3>4, <3>5
    <3> QED
      BY <3>6 DEF b
  <2>5. \A i \in 1 .. over : i \in DOMAIN with.lru
    BY <2>2, <2>4
  <2> QED
    BY <2>1, <2>5 DEF Elements
<1> DEFINE last == {with.lru[i] : i \in 1 .. over}
           e == FinishErase(with, last)
<1> HIDE DEF last
<1>11. /\ EntriesCounted(e, gs) /\ Linked(e)
       /\ InCache(e) = InCache(with) \ last
       /\ DOMAIN e.entries \subseteq DOMAIN with.entries
  BY <1>8, <1>10, FinishEraseKeeps DEF last
<1>12. OneOfAFile(InCache(e))
  BY <1>9, <1>11 DEF OneOfAFile
<1>13. Inserted(c, f) = e
  BY <1>2 DEF last
<1> HIDE DEF e
<1>14. CacheOK(Inserted(c, f), gs)
  BY <1>11, <1>12, <1>13 DEF CacheOK
<1>15. DOMAIN Inserted(c, f).entries \subseteq DOMAIN entries \union {n}
  BY <1>3, <1>8, <1>11, <1>13
<1> QED
  BY <1>1, <1>14, <1>15 DEF c, gs, n


(* A thread holds one entry of a file at most, and none of what it opens.  *)
HoldsOnce ==
    \A t \in Threads :
       /\ OneOfAFile(threads[t].holds)
       /\ threads[t].opening # 0 => \A e \in threads[t].holds : FileOf(e) # threads[t].opening
       /\ threads[t].opened => threads[t].opening # 0

(* The files that the background thread may have open: its inputs and what *)
(* it checks.                                                              *)
Wanted ==
    compaction.inputs \union (IF Bg.at = "verify output" THEN compaction.outputs ELSE {})
      \union (IF Bg.at = "verify flush" THEN {Bg.file} ELSE {})

(* What a reader has open is of its version, and what the background       *)
(* thread has open it wants.                                               *)
InUseIsWanted ==
    /\ \A r \in Readers : \A e \in threads[r].holds :
         \E v \in threads[r].version : FileOf(e) \in v
    /\ \A e \in Bg.holds : FileOf(e) \in Wanted
    /\ Bg.opening # 0 => /\ Bg.opening \in Wanted
                         /\ Bg.at \in {"compacting", "verify flush", "verify output"}
    /\ Bg.at = "apply compaction" => Bg.holds = {}
    /\ \A f, g \in compaction.outputs : f = g

CacheInv == CacheOK(Cache, Handles) /\ HoldsOnce /\ InUseIsWanted /\ RemovalSucceeds

(* What the properties say of the cache is a part of this.                 *)
LEMMA CacheInvIsEnough ==
    ASSUME CacheInv
    PROVE  CacheConsistent /\ RemovalSucceeds
<1>1. Linked(Cache) /\ OneOfAFile(InCache(Cache)) /\ EntriesCounted(Cache, Handles)
  BY DEF CacheInv, CacheOK
<1>2. Cache.entries = entries /\ Cache.lru = lru
  BY DEF Cache
<1>3. \A e \in DOMAIN entries :
        entries[e].refs = Cardinality({t \in Threads : e \in threads[t].holds})
                          + (IF entries[e].cached THEN 1 ELSE 0)
  <2>1. \A e : Holders(Handles, e) = {t \in Threads : e \in threads[t].holds}
    BY DEF Holders, Handles
  <2> QED
    BY <1>1, <1>2, <2>1 DEF EntriesCounted
<1>4. ASSUME NEW f \in 1 .. MaxFile
      PROVE  Cardinality(EntryFor(Cache, f)) <= 1
  <2>1. \A e1, e2 \in EntryFor(Cache, f) : e1 = e2
    BY <1>1 DEF OneOfAFile, EntryFor
  <2>2. CASE EntryFor(Cache, f) = {}
    BY <2>2, FS_EmptySet
  <2>3. CASE EntryFor(Cache, f) # {}
    <3>1. PICK e : EntryFor(Cache, f) = {e}
      BY <2>1, <2>3
    <3>2. Cardinality({e}) = 1
      BY FS_Singleton
    <3>3. Cardinality(EntryFor(Cache, f)) = 1
      BY <3>1, <3>2
    <3> QED
      BY <3>3
  <2> QED
    BY <2>2, <2>3
<1>5. /\ {lru[i] : i \in DOMAIN lru} = {e \in InCache(Cache) : entries[e].refs = 1}
      /\ IsInjective(lru)
  BY <1>1, <1>2 DEF Linked, Elements
<1> QED
  BY <1>3, <1>4, <1>5 DEF CacheConsistent, CacheInv

(* What a thread opens is not on the list of RemoveObsoleteFiles.          *)
LEMMA OpeningIsNotDoomed ==
    ASSUME FilesInv, CacheInv, NEW t \in Threads, threads[t].opening # 0
    PROVE  threads[t].opening \notin doomed
<1>1. CASE t \in Readers
  <2>1. PICK v \in threads[t].version : threads[t].opening \in v
    BY <1>1 DEF FilesInv, OpeningIsThere
  <2>2. v \subseteq LiveFiles(versions)
    BY <1>1, HeldIsLive
  <2> QED
    BY <2>1, <2>2 DEF FilesInv, DoomedAreDead
<1>2. CASE t = Background
  <2>1. Bg.opening # 0
    BY <1>2 DEF Bg
  <2>2. Bg.at # "remove"
    BY <2>1 DEF CacheInv, InUseIsWanted
  <2> QED
    BY <2>2 DEF FilesInv, DoomedAreDead
<1> QED
  BY <1>1, <1>2 DEF Threads

-----------------------------------------------------------------------------
(* A step that opens and closes nothing.                                   *)
LEMMA QuietForCache ==
    ASSUME CacheInv, UNCHANGED <<entries, lru>>, doomed' \subseteq doomed,
           \A t \in Threads : /\ threads'[t].holds = threads[t].holds
                              /\ threads'[t].opening = threads[t].opening
                              /\ threads'[t].opened = threads[t].opened
    PROVE  CacheOK(Cache, Handles)' /\ HoldsOnce' /\ RemovalSucceeds'
<1>1. Handles' = Handles /\ Cache' = Cache
  BY DEF Handles, Cache
<1>2. CacheOK(Cache, Handles)'
  BY <1>1 DEF CacheInv, CacheOK, EntriesCounted, Linked, InCache
<1>3. HoldsOnce'
  BY DEF CacheInv, HoldsOnce
<1>4. RemovalSucceeds'
  BY DEF CacheInv, RemovalSucceeds, IsOpen
<1> QED
  BY <1>2, <1>3, <1>4

(* Files are open as before, or fewer: nothing on the list is.             *)
LEMMA NothingOpened ==
    ASSUME CacheInv, doomed' \subseteq doomed, DOMAIN entries' \subseteq DOMAIN entries,
           \A t \in Threads : threads'[t].opened =>
              threads[t].opened /\ threads'[t].opening = threads[t].opening
    PROVE  RemovalSucceeds'
  BY DEF CacheInv, RemovalSucceeds, IsOpen

(* TableCache::FindTable: the step as far as the cache goes.               *)
LEMMA FindTableKeepsCache ==
    ASSUME FilesInv, CacheInv, NEW t \in Threads, NEW f, FindTable(t, f)
    PROVE  /\ CacheOK(Cache, Handles)' /\ HoldsOnce' /\ RemovalSucceeds'
           /\ UNCHANGED <<compaction, current, versions>>
           /\ \A u \in Threads : /\ threads'[u].version = threads[u].version
                                 /\ threads'[u].at = threads[u].at
                                 /\ threads'[u].file = threads[u].file
                                 /\ u # t => threads'[u] = threads[u]
                                 /\ u = t => /\ \A e \in threads'[u].holds \ threads[u].holds : FileOf(e) = f
                                             /\ threads'[u].opening \in {threads[u].opening, f}
<1>0. /\ threads[t].opening = 0 /\ \A e \in threads[t].holds : FileOf(e) # f
      /\ UNCHANGED <<disk, current, versions, compaction, doomed, pending, nextFile, missing>>
      /\ DOMAIN threads = Threads /\ \A u \in Threads : DOMAIN threads[u] = DOMAIN Initial
      /\ Handles[t] = threads[t].holds /\ DOMAIN Handles = Threads
      /\ CacheOK(Cache, Handles)
  BY DEF FindTable, versionVars, workVars, FilesInv, Shape, Handles, CacheInv
<1>1. ASSUME NEW e \in EntryFor(Cache, f), SetCache(Ref(Cache, e)),
             threads' = [threads EXCEPT ![t].holds = @ \union {e}]
      PROVE  /\ CacheOK(Cache, Handles)' /\ HoldsOnce' /\ RemovalSucceeds'
             /\ \A u \in Threads : threads'[u] = IF u = t THEN [threads[t] EXCEPT !.holds = @ \union {e}]
                                                 ELSE threads[u]
             /\ FileOf(e) = f
  <2>1. FileOf(e) = f /\ e \in InCache(Cache) /\ e \notin Handles[t]
    BY <1>0, <1>1 DEF EntryFor
  <2>2. /\ CacheOK(Ref(Cache, e), [Handles EXCEPT ![t] = @ \union {e}])
        /\ DOMAIN Ref(Cache, e).entries = DOMAIN Cache.entries
    <3>1. t \in DOMAIN Handles
      BY <1>0
    <3>2. CacheOK(Cache, Handles)
      BY <1>0
    <3> DEFINE c == Cache
               hs == Handles
    <3>3. t \in DOMAIN hs /\ CacheOK(c, hs) /\ e \in InCache(c) /\ e \notin hs[t]
      BY <2>1, <3>1, <3>2
    <3> HIDE DEF c, hs
    <3>4. /\ CacheOK(Ref(c, e), [hs EXCEPT ![t] = @ \union {e}])
          /\ DOMAIN Ref(c, e).entries = DOMAIN c.entries
      BY <3>3, RefKeepsCache
    <3> QED
      BY <3>4 DEF c, hs
  <2>3. Cache' = Ref(Cache, e)
    BY <1>1 DEF SetCache, Cache, Ref
  <2>4. \A u \in Threads : threads'[u] = IF u = t THEN [threads[t] EXCEPT !.holds = @ \union {e}]
                                                  ELSE threads[u]
    BY <1>0, <1>1
  <2>5. threads'[t].holds = threads[t].holds \union {e}
          /\ threads'[t].opening = threads[t].opening /\ threads'[t].opened = threads[t].opened
    BY <1>0, <2>4 DEF Initial
  <2>6. Handles' = [Handles EXCEPT ![t] = @ \union {e}]
    BY <1>0, <2>4, <2>5 DEF Handles
  <2>7. CacheOK(Cache, Handles)'
    BY <2>2, <2>3, <2>6
  <2>8. HoldsOnce'
    BY <1>0, <2>1, <2>4, <2>5 DEF CacheInv, HoldsOnce, OneOfAFile
  <2>9. DOMAIN entries' = DOMAIN entries
    BY <1>1, <2>2 DEF SetCache, Cache
  <2>10. RemovalSucceeds'
    BY <1>0, <2>4, <2>5, <2>9, NothingOpened
  <2> QED
    BY <2>1, <2>4, <2>7, <2>8, <2>10
<1>2. ASSUME threads' = [threads EXCEPT ![t].opening = f], UNCHANGED cacheVars
      PROVE  /\ CacheOK(Cache, Handles)' /\ HoldsOnce' /\ RemovalSucceeds'
             /\ \A u \in Threads : threads'[u] = IF u = t THEN [threads[t] EXCEPT !.opening = f]
                                                 ELSE threads[u]
  <2>1. \A u \in Threads : threads'[u] = IF u = t THEN [threads[t] EXCEPT !.opening = f]
                                                  ELSE threads[u]
    BY <1>0, <1>2
  <2>2. threads'[t].holds = threads[t].holds /\ threads'[t].opening = f
          /\ threads'[t].opened = threads[t].opened
    BY <1>0, <2>1 DEF Initial
  <2>3. Handles' = Handles /\ Cache' = Cache
    BY <1>2, <2>1, <2>2 DEF Handles, Cache, cacheVars
  <2>4. CacheOK(Cache, Handles)'
    BY <1>0, <2>3
  <2>5. ~threads[t].opened
    BY <1>0 DEF CacheInv, HoldsOnce
  <2>6. HoldsOnce'
    BY <1>0, <2>1, <2>2, <2>5 DEF CacheInv, HoldsOnce
  <2>7. RemovalSucceeds'
    BY <1>0, <1>2, <2>1, <2>2, <2>5, NothingOpened DEF cacheVars
  <2> QED
    BY <2>1, <2>4, <2>6, <2>7
<1>3. CASE \E e \in EntryFor(Cache, f) : SetCache(Ref(Cache, e))
             /\ threads' = [threads EXCEPT ![t].holds = @ \union {e}]
  <2>1. PICK e \in EntryFor(Cache, f) : SetCache(Ref(Cache, e))
             /\ threads' = [threads EXCEPT ![t].holds = @ \union {e}]
    BY <1>3
  <2> QED
    BY <1>0, <1>1, <2>1 DEF Initial
<1>4. CASE threads' = [threads EXCEPT ![t].opening = f] /\ UNCHANGED cacheVars
  BY <1>0, <1>2, <1>4 DEF Initial
<1> QED
  BY <1>3, <1>4 DEF FindTable


(* A step of a thread that may hold more of what it has opened, or less,   *)
(* and leaves its place alone.                                             *)
LEMMA SamePlaceKeepsUse ==
    ASSUME CacheInv, NEW t \in Threads, UNCHANGED compaction,
           \A u \in Threads : /\ threads'[u].version = threads[u].version
                              /\ threads'[u].at = threads[u].at
                              /\ threads'[u].file = threads[u].file
                              /\ u # t => threads'[u] = threads[u],
           \A e \in threads'[t].holds : e \in threads[t].holds
              \/ (threads[t].opening # 0 /\ FileOf(e) = threads[t].opening),
           threads'[t].opening \in {0, threads[t].opening},
           FilesInv
    PROVE  InUseIsWanted'
<1>1. /\ Background \in Threads /\ \A r \in Readers : r \in Threads
      /\ Wanted' = Wanted /\ Bg'.at = Bg.at
  BY DEF Threads, Wanted, Bg
<1>2. ASSUME NEW r \in Readers, NEW e \in threads'[r].holds
      PROVE  \E v \in threads'[r].version : FileOf(e) \in v
  <2>1. threads'[r].version = threads[r].version
    BY <1>1
  <2>2. CASE e \in threads[r].holds
    BY <2>1, <2>2 DEF CacheInv, InUseIsWanted
  <2>3. CASE e \notin threads[r].holds
    <3>1. r = t
      BY <1>1, <1>2, <2>3
    <3>2. threads[r].opening # 0 /\ FileOf(e) = threads[r].opening
      BY <1>2, <2>3, <3>1
    <3> QED
      BY <2>1, <3>2 DEF FilesInv, OpeningIsThere
  <2> QED
    BY <2>2, <2>3
<1>3. ASSUME NEW e \in Bg'.holds
      PROVE  FileOf(e) \in Wanted'
  <2>1. CASE e \in Bg.holds
    BY <1>1, <2>1 DEF CacheInv, InUseIsWanted
  <2>2. CASE e \notin Bg.holds
    <3>1. Background = t
      BY <1>1, <1>3, <2>2 DEF Bg
    <3>2. Bg.opening # 0 /\ FileOf(e) = Bg.opening
      BY <1>3, <2>2, <3>1 DEF Bg
    <3> QED
      BY <1>1, <3>2 DEF CacheInv, InUseIsWanted
  <2> QED
    BY <2>1, <2>2
<1>4. Bg'.opening # 0 => Bg.opening = Bg'.opening
  BY <1>1 DEF Bg
<1>5. Bg'.at = "apply compaction" => Bg'.holds = {}
  <2> SUFFICES ASSUME Bg'.at = "apply compaction" PROVE Bg'.holds = {}
    OBVIOUS
  <2>1. Bg.holds = {} /\ Bg.opening = 0
    BY <1>1 DEF CacheInv, InUseIsWanted
  <2>2. \A e \in Bg'.holds : e \in Bg.holds
    BY <1>1, <2>1 DEF Bg
  <2> QED
    BY <2>1, <2>2
<1> QED
  BY <1>1, <1>2, <1>3, <1>4, <1>5 DEF CacheInv, InUseIsWanted

(* NewRandomAccessFile opens what is not on the list.                      *)
LEMMA OpenFileKeepsCache ==
    ASSUME FilesInv, CacheInv, NEW t \in Threads, OpenFile(t)
    PROVE  CacheInv'
<1>0. /\ threads[t].opening # 0 /\ ~threads[t].opened /\ threads[t].opening \in disk
      /\ threads' = [threads EXCEPT ![t].opened = TRUE]
      /\ UNCHANGED <<entries, lru, compaction, doomed>>
      /\ DOMAIN threads = Threads /\ \A u \in Threads : DOMAIN threads[u] = DOMAIN Initial
  BY DEF OpenFile, FilesInv, OpeningIsThere, Shape, cacheVars, workVars
<1>1. \A u \in Threads : threads'[u] = IF u = t THEN [threads[t] EXCEPT !.opened = TRUE] ELSE threads[u]
  BY <1>0
<1>2. /\ threads'[t].opened = TRUE /\ threads'[t].opening = threads[t].opening
      /\ threads'[t].holds = threads[t].holds /\ threads'[t].version = threads[t].version
      /\ threads'[t].at = threads[t].at /\ threads'[t].file = threads[t].file
  BY <1>0, <1>1 DEF Initial
<1>3. Handles' = Handles /\ Cache' = Cache
  BY <1>0, <1>1, <1>2 DEF Handles, Cache
<1>4. CacheOK(Cache, Handles)'
  BY <1>3 DEF CacheInv
<1>5. HoldsOnce'
  BY <1>0, <1>1, <1>2 DEF CacheInv, HoldsOnce
<1>6. InUseIsWanted'
  BY <1>0, <1>1, <1>2, SamePlaceKeepsUse
<1>7. RemovalSucceeds'
  <2>1. threads[t].opening \notin doomed
    BY <1>0, OpeningIsNotDoomed
  <2> QED
    BY <1>0, <1>1, <1>2, <2>1 DEF CacheInv, RemovalSucceeds, IsOpen
<1> QED
  BY <1>4, <1>5, <1>6, <1>7 DEF CacheInv

(* What is opened goes into the cache, and the thread has a handle.        *)
LEMMA InsertTableKeepsCache ==
    ASSUME Capacity \in Nat, FilesInv, CacheInv, NEW t \in Threads, InsertTable(t)
    PROVE  CacheInv'
<1> DEFINE f == threads[t].opening
           n == NewEntry(f)
           c == Inserted(Cache, f)
<1>0. /\ threads[t].opened /\ SetCache(c)
      /\ threads' = [threads EXCEPT ![t].opening = 0, ![t].opened = FALSE,
                                    ![t].holds = @ \union {n}]
      /\ UNCHANGED <<compaction, doomed>>
      /\ DOMAIN threads = Threads /\ \A u \in Threads : DOMAIN threads[u] = DOMAIN Initial
  BY DEF InsertTable, FilesInv, Shape, workVars
<1>1. f # 0 /\ \A e \in threads[t].holds : FileOf(e) # f
  BY <1>0 DEF CacheInv, HoldsOnce
<1>2. /\ CacheOK(c, [Handles EXCEPT ![t] = @ \union {n}])
      /\ DOMAIN c.entries \subseteq DOMAIN entries \union {n}
      /\ n \notin DOMAIN entries /\ FileOf(n) = f
  <2> DEFINE hs == Handles
  <2>1. CacheOK(Cache, hs) /\ t \in DOMAIN hs
    BY <1>0 DEF CacheInv, Handles
  <2> HIDE DEF hs, f, n, c
  <2>2. /\ CacheOK(Inserted(Cache, f), [hs EXCEPT ![t] = @ \union {NewEntry(f)}])
        /\ DOMAIN Inserted(Cache, f).entries \subseteq DOMAIN entries \union {NewEntry(f)}
        /\ NewEntry(f) \notin DOMAIN entries /\ FileOf(NewEntry(f)) = f
    BY <2>1, InsertedKeepsCache
  <2> QED
    BY <2>2 DEF hs, n, c
<1> HIDE DEF n, c
<1>3. /\ \A u \in Threads : u # t => threads'[u] = threads[u]
      /\ threads'[t].opened = FALSE /\ threads'[t].opening = 0
      /\ threads'[t].holds = threads[t].holds \union {n} /\ threads'[t].version = threads[t].version
      /\ threads'[t].at = threads[t].at /\ threads'[t].file = threads[t].file
  BY <1>0 DEF Initial
<1>4. entries' = c.entries /\ Cache' = c
  <2>1. c = [entries |-> c.entries, lru |-> c.lru]
    <3>1. \A d, es : LET r == FinishErase(d, es) IN r = [entries |-> r.entries, lru |-> r.lru]
      BY DEF FinishErase
    <3>2. \E d, es : c = FinishErase(d, es)
      BY Zenon DEF c, Inserted
    <3> QED
      BY <3>1, <3>2
  <2> QED
    BY <1>0, <2>1 DEF SetCache, Cache
<1>5. Handles' = [Handles EXCEPT ![t] = @ \union {n}]
  BY <1>3 DEF Handles
<1>6. CacheOK(Cache, Handles)'
  BY <1>2, <1>4, <1>5
<1>7. HoldsOnce'
  BY <1>1, <1>2, <1>3 DEF CacheInv, HoldsOnce, OneOfAFile
<1>8. InUseIsWanted'
  BY <1>0, <1>1, <1>2, <1>3, SamePlaceKeepsUse
<1>9. RemovalSucceeds'
  <2>1. f \notin doomed
    BY <1>1, OpeningIsNotDoomed
  <2>2. \A g \in doomed : /\ \A e \in DOMAIN entries : FileOf(e) # g
                          /\ \A u \in Threads : ~(threads[u].opened /\ threads[u].opening = g)
    BY DEF CacheInv, RemovalSucceeds, IsOpen
  <2>3. \A g \in doomed : \A e \in DOMAIN entries' : FileOf(e) # g
    BY <1>2, <1>4, <2>1, <2>2
  <2>4. \A g \in doomed : \A u \in Threads : ~(threads'[u].opened /\ threads'[u].opening = g)
    BY <1>3, <2>2
  <2> QED
    BY <1>0, <2>3, <2>4 DEF RemovalSucceeds, IsOpen
<1> QED
  BY <1>6, <1>7, <1>8, <1>9 DEF CacheInv

(* A handle goes: the part that Release and the end of a check share.      *)
LEMMA UnrefStep ==
    ASSUME FilesInv, CacheInv, NEW t \in Threads, NEW e \in threads[t].holds, SetCache(Unref(Cache, e)),
           doomed' = doomed, DOMAIN threads' = Threads,
           \A u \in Threads : u # t => threads'[u] = threads[u],
           /\ threads'[t].opened = threads[t].opened /\ threads'[t].opening = threads[t].opening
           /\ threads'[t].holds = threads[t].holds \ {e}
    PROVE  CacheOK(Cache, Handles)' /\ HoldsOnce' /\ RemovalSucceeds'
<1> DEFINE c == Unref(Cache, e)
<1>1. /\ CacheOK(c, [Handles EXCEPT ![t] = @ \ {e}])
      /\ DOMAIN c.entries \subseteq DOMAIN entries
  <2> DEFINE hs == Handles
             b == Cache
  <2>1. CacheOK(b, hs) /\ t \in DOMAIN hs /\ e \in hs[t] /\ b.entries = entries
    BY DEF CacheInv, Handles, Cache
  <2> HIDE DEF hs, b
  <2>2. /\ CacheOK(Unref(b, e), [hs EXCEPT ![t] = @ \ {e}])
        /\ DOMAIN Unref(b, e).entries \subseteq DOMAIN b.entries
    BY <2>1, UnrefKeepsCache
  <2> QED
    BY <2>1, <2>2 DEF hs, b
<1>2. entries' = c.entries /\ Cache' = c
  <2>1. c = [entries |-> c.entries, lru |-> c.lru]
    BY DEF Unref, Cache
  <2> QED
    BY <2>1 DEF SetCache, Cache
<1> HIDE DEF c
<1>3. Handles' = [Handles EXCEPT ![t] = @ \ {e}]
  BY DEF Handles
<1>4. CacheOK(Cache, Handles)'
  BY <1>1, <1>2, <1>3
<1>5. HoldsOnce'
  BY DEF CacheInv, HoldsOnce, OneOfAFile
<1>6. RemovalSucceeds'
  BY <1>1, <1>2, NothingOpened
<1> QED
  BY <1>4, <1>5, <1>6

(* LRUCache::Release                                                       *)
LEMMA ReleaseKeepsCache ==
    ASSUME FilesInv, CacheInv, NEW t \in Threads, NEW e \in threads[t].holds, Release(t, e)
    PROVE  CacheInv'
<1>1. /\ SetCache(Unref(Cache, e)) /\ threads' = [threads EXCEPT ![t].holds = @ \ {e}]
      /\ UNCHANGED <<compaction, doomed>>
      /\ DOMAIN threads = Threads /\ \A u \in Threads : DOMAIN threads[u] = DOMAIN Initial
  BY DEF Release, FilesInv, Shape, workVars
<1>2. /\ DOMAIN threads' = Threads
      /\ \A u \in Threads : u # t => threads'[u] = threads[u]
      /\ threads'[t].opened = threads[t].opened /\ threads'[t].opening = threads[t].opening
      /\ threads'[t].holds = threads[t].holds \ {e} /\ threads'[t].version = threads[t].version
      /\ threads'[t].at = threads[t].at /\ threads'[t].file = threads[t].file
  BY <1>1 DEF Initial
<1>3. CacheOK(Cache, Handles)' /\ HoldsOnce' /\ RemovalSucceeds'
  BY <1>1, <1>2, UnrefStep
<1>4. InUseIsWanted'
  BY <1>1, <1>2, SamePlaceKeepsUse
<1> QED
  BY <1>3, <1>4 DEF CacheInv


-----------------------------------------------------------------------------
(* Readers *)

LEMMA ReaderKeepsCache ==
    ASSUME NamesApart, FilesInv, CacheInv, NEW r \in Readers,
           RefCurrent(r) \/ ReadTable(r) \/ UnrefVersion(r)
    PROVE  CacheInv'
<1>0. /\ DOMAIN threads = Threads /\ \A u \in Threads : DOMAIN threads[u] = DOMAIN Initial
      /\ r \in Threads /\ Background \in Threads /\ r # Background
      /\ \A q \in Readers : q \in Threads
  BY DEF FilesInv, Shape, Threads, NamesApart
<1>1. CASE RefCurrent(r) \/ UnrefVersion(r)
  <2>1. PICK w : threads' = [threads EXCEPT ![r].version = w]
    BY <1>1 DEF RefCurrent, UnrefVersion
  <2>2. UNCHANGED <<entries, lru, doomed, compaction>>
    BY <1>1 DEF RefCurrent, UnrefVersion, cacheVars, workVars
  <2>3. /\ \A u \in Threads : /\ threads'[u].holds = threads[u].holds
                              /\ threads'[u].opening = threads[u].opening
                              /\ threads'[u].opened = threads[u].opened
                              /\ u # r => threads'[u] = threads[u]
    BY <1>0, <2>1 DEF Initial
  <2>4. threads[r].holds = {}
    <3>1. CASE RefCurrent(r)
      BY <3>1 DEF RefCurrent, CacheInv, InUseIsWanted
    <3>2. CASE UnrefVersion(r)
      BY <3>2 DEF UnrefVersion, MayUnref
    <3> QED
      BY <1>1, <3>1, <3>2
  <2>5. Bg' = Bg /\ Wanted' = Wanted
    BY <1>0, <2>2, <2>3 DEF Bg, Wanted
  <2>6. InUseIsWanted'
    BY <1>0, <2>2, <2>3, <2>4, <2>5 DEF CacheInv, InUseIsWanted
  <2> QED
    BY <2>2, <2>3, <2>6, QuietForCache DEF CacheInv
<1>2. CASE ReadTable(r)
  <2>1. PICK v \in threads[r].version : \E f \in v : FindTable(r, f)
    BY <1>2 DEF ReadTable
  <2>2. PICK f \in v : FindTable(r, f)
    BY <2>1
  <2>3. /\ CacheOK(Cache, Handles)' /\ HoldsOnce' /\ RemovalSucceeds'
        /\ UNCHANGED <<compaction, current, versions>>
        /\ \A u \in Threads : /\ threads'[u].version = threads[u].version
                              /\ u # r => threads'[u] = threads[u]
        /\ \A e \in threads'[r].holds \ threads[r].holds : FileOf(e) = f
    BY <1>0, <2>2, FindTableKeepsCache
  <2>4. Bg' = Bg /\ Wanted' = Wanted
    BY <1>0, <2>3 DEF Bg, Wanted
  <2>5. ASSUME NEW q \in Readers, NEW e \in threads'[q].holds
        PROVE  \E w \in threads'[q].version : FileOf(e) \in w
    <3>1. CASE e \in threads[q].holds
      BY <1>0, <2>3, <3>1 DEF CacheInv, InUseIsWanted
    <3>2. CASE e \notin threads[q].holds
      BY <1>0, <2>1, <2>2, <2>3, <2>5, <3>2
    <3> QED
      BY <3>1, <3>2
  <2>6. InUseIsWanted'
    BY <2>3, <2>4, <2>5 DEF CacheInv, InUseIsWanted
  <2> QED
    BY <2>3, <2>6 DEF CacheInv
<1> QED
  BY <1>1, <1>2

-----------------------------------------------------------------------------
(* The background thread *)

(* A step of it leaves the readers' part of InUseIsWanted as it is.        *)
LEMMA BgKeepsUse ==
    ASSUME CacheInv, \A r \in Readers : threads'[r] = threads[r],
           \A e \in Bg'.holds : FileOf(e) \in Wanted',
           Bg'.opening # 0 => /\ Bg'.opening \in Wanted'
                              /\ Bg'.at \in {"compacting", "verify flush", "verify output"},
           Bg'.at = "apply compaction" => Bg'.holds = {},
           \A f, g \in compaction'.outputs : f = g
    PROVE  InUseIsWanted'
  BY DEF CacheInv, InUseIsWanted

(* A step of it in which the cache is not called.                          *)
LEMMA QuietBgKeepsCache ==
    ASSUME NamesApart, FilesInv, CacheInv, UNCHANGED <<entries, lru>>, doomed' \subseteq doomed,
           DOMAIN threads' = Threads,
           \A u \in Threads : u # Background => threads'[u] = threads[u],
           Bg'.holds = Bg.holds, Bg'.opening = Bg.opening, Bg'.opened = Bg.opened,
           Bg.opening = 0, Wanted \subseteq Wanted',
           Bg'.at = "apply compaction" => Bg'.holds = {},
           \A f, g \in compaction'.outputs : f = g
    PROVE  CacheInv'
<1>1. /\ Background \in Threads /\ \A r \in Readers : r \in Threads /\ r # Background
  BY DEF Threads, NamesApart
<1>2. \A u \in Threads : /\ threads'[u].holds = threads[u].holds
                         /\ threads'[u].opening = threads[u].opening
                         /\ threads'[u].opened = threads[u].opened
  BY DEF Bg
<1>3. CacheOK(Cache, Handles)' /\ HoldsOnce' /\ RemovalSucceeds'
  BY <1>2, QuietForCache
<1>4. \A e \in Bg'.holds : FileOf(e) \in Wanted'
  BY DEF CacheInv, InUseIsWanted
<1>5. InUseIsWanted'
  BY <1>1, <1>4, BgKeepsUse
<1> QED
  BY <1>3, <1>5 DEF CacheInv


(* The steps of the background thread in which the cache is not called.    *)
LEMMA BgWithoutCache ==
    ASSUME NamesApart, FilesInv, CacheInv,
           \/ StartFlush \/ WriteTable \/ (\E f \in doomed : RemoveFile(f)) \/ Removed
           \/ (\E inputs \in SUBSET current : StartCompaction(inputs))
           \/ OpenOutput \/ FinishOutput \/ DeleteInput
    PROVE  CacheInv'
<1>0. /\ DOMAIN threads = Threads /\ DOMAIN Bg = DOMAIN Initial
      /\ Background \in Threads /\ Bg = threads[Background]
      /\ DOMAIN compaction = DOMAIN NoCompaction
  BY DEF FilesInv, Shape, Threads, Bg
<1>1. /\ UNCHANGED <<entries, lru>> /\ doomed' \subseteq doomed /\ Bg.opening = 0
      /\ Bg.at \notin {"verify output", "verify flush"}
  BY DEF StartFlush, WriteTable, RemoveFile, Removed, StartCompaction, OpenOutput, FinishOutput,
     DeleteInput, NewTable, At, cacheVars, workVars
<1>2. \/ UNCHANGED threads
      \/ \E place, back, file : threads' = [threads EXCEPT ![Background].at = place,
                                              ![Background].back = back, ![Background].file = file]
  <2>1. CASE StartFlush \/ OpenOutput
    <3>1. \/ NewTable("flush")
          \/ NewTable("output")
      BY <2>1 DEF StartFlush, OpenOutput
    <3>2. PICK place : NewTable(place)
      BY <3>1
    <3>3. threads' = [threads EXCEPT ![Background].at = place, ![Background].back = Bg.at,
                                     ![Background].file = nextFile]
      BY <3>2 DEF NewTable
    <3> QED
      BY <3>3
  <2>2. CASE \E f \in doomed : RemoveFile(f)
    BY <2>2 DEF RemoveFile
  <2>3. ASSUME NEW place, NEW file,
               threads' = GoTo(place) \/ threads' = [GoTo(place) EXCEPT ![Background].file = file]
        PROVE  \E p, b, f : threads' = [threads EXCEPT ![Background].at = p,
                                          ![Background].back = b, ![Background].file = f]
    <3>1. CASE threads' = GoTo(place)
      <4>1. threads' = [threads EXCEPT ![Background].at = place, ![Background].back = Bg.back,
                                       ![Background].file = Bg.file]
        BY <1>0, <3>1 DEF GoTo, Initial
      <4> QED
        BY <4>1
    <3>2. CASE threads' = [GoTo(place) EXCEPT ![Background].file = file]
      <4>1. threads' = [threads EXCEPT ![Background].at = place, ![Background].back = Bg.back,
                                       ![Background].file = file]
        BY <1>0, <3>2 DEF GoTo, Initial
      <4> QED
        BY <4>1
    <3> QED
      BY <2>3, <3>1, <3>2
  <2>4. CASE WriteTable \/ Removed \/ FinishOutput \/ DeleteInput
                \/ \E inputs \in SUBSET current : StartCompaction(inputs)
    <3>1. \E place, file :
            threads' = GoTo(place) \/ threads' = [GoTo(place) EXCEPT ![Background].file = file]
      BY <2>4 DEF WriteTable, Removed, FinishOutput, DeleteInput, StartCompaction
    <3> QED
      BY <2>3, <3>1
  <2> QED
    BY <2>1, <2>2, <2>4
<1>3. /\ DOMAIN threads' = Threads
      /\ \A u \in Threads : u # Background => threads'[u] = threads[u]
      /\ Bg'.holds = Bg.holds /\ Bg'.opening = Bg.opening /\ Bg'.opened = Bg.opened
  <2>1. CASE UNCHANGED threads
    BY <1>0, <2>1 DEF Bg
  <2>2. CASE \E place, back, file :
               threads' = [threads EXCEPT ![Background].at = place,
                             ![Background].back = back, ![Background].file = file]
    BY <1>0, <2>2 DEF Bg, Initial
  <2> QED
    BY <1>2, <2>1, <2>2
<1>4. compaction.inputs \subseteq compaction'.inputs
  <2>1. CASE \E inputs \in SUBSET current : StartCompaction(inputs)
    <3>1. Bg.at = "idle"
      BY <2>1 DEF StartCompaction, At
    <3>2. compaction.inputs = {}
      BY <3>1 DEF FilesInv, CompactionInPlace, Place, Flushing
    <3> QED
      BY <3>2
  <2>2. CASE OpenOutput
    BY <1>0, <2>2 DEF OpenOutput, NoCompaction
  <2>3. CASE StartFlush \/ WriteTable \/ (\E f \in doomed : RemoveFile(f)) \/ Removed
               \/ FinishOutput \/ DeleteInput
    BY <2>3 DEF StartFlush, WriteTable, RemoveFile, Removed, FinishOutput, DeleteInput, workVars
  <2> QED
    BY <2>1, <2>2, <2>3
<1>5. Wanted \subseteq Wanted'
  <2>1. Wanted = compaction.inputs
    BY <1>1 DEF Wanted
  <2> QED
    BY <1>4, <2>1 DEF Wanted
<1>6. Bg'.at = "apply compaction" => Bg'.holds = {}
  <2>1. CASE DeleteInput
    BY <1>3, <2>1 DEF DeleteInput
  <2>2. CASE \E f \in doomed : RemoveFile(f)
    BY <1>3, <2>2 DEF RemoveFile, At, Bg
  <2>3. CASE Removed
    <3>1. Bg.back \in {"idle", "compacting"}
      BY <2>3 DEF Removed, At, FilesInv, CompactionInPlace, Flushing
    <3>2. Bg'.at = Bg.back
      BY <1>0, <2>3 DEF Removed, GoTo, Bg, Initial
    <3> QED
      BY <3>1, <3>2
  <2>4. CASE StartFlush \/ OpenOutput
    <3>1. \E place \in {"flush", "output"} : NewTable(place)
      BY <2>4 DEF StartFlush, OpenOutput
    <3>2. Bg'.at \in {"flush", "output"}
      BY <1>0, <3>1 DEF NewTable, Bg, Initial
    <3> QED
      BY <3>2
  <2>5. CASE WriteTable \/ FinishOutput \/ \E inputs \in SUBSET current : StartCompaction(inputs)
    <3>1. \E place \in {"verify flush", "compacting", "verify output"} : threads' = GoTo(place)
      BY <2>5 DEF WriteTable, FinishOutput, StartCompaction
    <3> QED
      BY <1>0, <3>1 DEF GoTo, Bg, Initial
  <2> QED
    BY <2>1, <2>2, <2>3, <2>4, <2>5
<1>7. \A f, g \in compaction'.outputs : f = g
  <2>1. CASE \E inputs \in SUBSET current : StartCompaction(inputs)
    BY <2>1 DEF StartCompaction
  <2>2. CASE OpenOutput
    BY <1>0, <2>2 DEF OpenOutput, NoCompaction
  <2>3. CASE StartFlush \/ WriteTable \/ (\E f \in doomed : RemoveFile(f)) \/ Removed
               \/ FinishOutput \/ DeleteInput
    BY <2>3 DEF StartFlush, WriteTable, RemoveFile, Removed, FinishOutput, DeleteInput, workVars,
       CacheInv, InUseIsWanted
  <2> QED
    BY <2>1, <2>2, <2>3
<1> QED
  BY <1>1, <1>3, <1>5, <1>6, <1>7, QuietBgKeepsCache

(* It opens an input, or what it has just written.                         *)
LEMMA BgFindTableKeepsCache ==
    ASSUME NamesApart, FilesInv, CacheInv, VerifyFlush \/ VerifyOutput \/ ReadInput
    PROVE  CacheInv'
<1>1. PICK f : /\ FindTable(Background, f) /\ f \in Wanted
               /\ Bg.at \in {"compacting", "verify flush", "verify output"}
  <2>1. CASE VerifyFlush
    BY <2>1 DEF VerifyFlush, Verify, At, Wanted
  <2>2. CASE VerifyOutput
    <3>1. Bg.at = "verify output" /\ FindTable(Background, Output)
      BY <2>2 DEF VerifyOutput, Verify, At
    <3>2. Output \in compaction.outputs
      BY <3>1 DEF FilesInv, OutputsArePending, Output
    <3> QED
      BY <3>1, <3>2 DEF Wanted
  <2>3. CASE ReadInput
    BY <2>3 DEF ReadInput, At, Wanted
  <2> QED
    BY <2>1, <2>2, <2>3
<1>2. Background \in Threads /\ \A r \in Readers : r \in Threads /\ r # Background
  BY DEF Threads, NamesApart
<1>3. /\ CacheOK(Cache, Handles)' /\ HoldsOnce' /\ RemovalSucceeds'
      /\ UNCHANGED <<compaction, current, versions>>
      /\ \A u \in Threads : u # Background => threads'[u] = threads[u]
      /\ Bg'.at = Bg.at /\ Bg'.file = Bg.file
      /\ \A e \in Bg'.holds \ Bg.holds : FileOf(e) = f
      /\ Bg'.opening \in {Bg.opening, f}
  BY <1>1, <1>2, FindTableKeepsCache DEF Bg
<1>4. Wanted' = Wanted
  BY <1>3 DEF Wanted
<1>5. \A e \in Bg'.holds : FileOf(e) \in Wanted'
  BY <1>1, <1>3, <1>4 DEF CacheInv, InUseIsWanted
<1>6. /\ Bg'.opening \in Wanted' \/ Bg'.opening = 0
      /\ Bg'.at \in {"compacting", "verify flush", "verify output"}
      /\ \A g, h \in compaction'.outputs : g = h
  BY <1>1, <1>3, <1>4 DEF CacheInv, InUseIsWanted
<1>7. InUseIsWanted'
  BY <1>2, <1>3, <1>5, <1>6, BgKeepsUse
<1> QED
  BY <1>3, <1>7 DEF CacheInv

(* The end of a check: the handle of what was checked goes, and what is    *)
(* left are inputs.                                                        *)
LEMMA VerifiedKeepsCache ==
    ASSUME NamesApart, FilesInv, CacheInv, FlushVerified \/ OutputVerified
    PROVE  CacheInv'
<1>1. PICK place, f, next : /\ Verified(place, f, next) /\ next \in {"apply flush", "finish"}
                            /\ Wanted \subseteq compaction.inputs \union {f}
  <2>1. CASE FlushVerified
    <3>1. Verified("verify flush", Bg.file, "apply flush") /\ Bg.at = "verify flush"
      BY <2>1 DEF FlushVerified, Verified, At
    <3>2. Wanted \subseteq compaction.inputs \union {Bg.file}
      BY <3>1 DEF Wanted
    <3> QED
      BY <3>1, <3>2
  <2>2. CASE OutputVerified
    <3>1. Verified("verify output", Output, "finish") /\ Bg.at = "verify output"
      BY <2>2 DEF OutputVerified, Verified, At
    <3>2. Output \in compaction.outputs /\ \A g \in compaction.outputs : g = Output
      BY <3>1 DEF FilesInv, OutputsArePending, Output, CacheInv, InUseIsWanted
    <3>3. Wanted \subseteq compaction.inputs \union {Output}
      BY <3>1, <3>2 DEF Wanted
    <3> QED
      BY <3>1, <3>3
  <2> QED
    BY <2>1, <2>2
<1> DEFINE e == CHOOSE e \in Bg.holds : FileOf(e) = f
<1>2. /\ SetCache(Unref(Cache, e)) /\ Bg.opening = 0
      /\ threads' = [GoTo(next) EXCEPT ![Background].holds = @ \ {e}]
      /\ UNCHANGED <<compaction, doomed>> /\ Holding(f)
  BY <1>1 DEF Verified, At
<1>3. e \in Bg.holds /\ FileOf(e) = f
  BY <1>2 DEF Holding
<1> HIDE DEF e
<1>4. /\ DOMAIN threads = Threads /\ DOMAIN Bg = DOMAIN Initial
      /\ Background \in Threads /\ Bg = threads[Background]
      /\ \A r \in Readers : r \in Threads /\ r # Background
  BY DEF FilesInv, Shape, Threads, Bg, NamesApart
<1>5. /\ DOMAIN threads' = Threads
      /\ \A u \in Threads : u # Background => threads'[u] = threads[u]
      /\ Bg'.opened = Bg.opened /\ Bg'.opening = Bg.opening
      /\ Bg'.holds = Bg.holds \ {e} /\ Bg'.at = next
  BY <1>2, <1>4 DEF GoTo, Bg, Initial
<1>6. CacheOK(Cache, Handles)' /\ HoldsOnce' /\ RemovalSucceeds'
  BY <1>2, <1>3, <1>4, <1>5, UnrefStep DEF Bg
<1>7. \A d \in Bg'.holds : FileOf(d) \in compaction.inputs
  <2> TAKE d \in Bg'.holds
  <2>1. d \in Bg.holds /\ d # e
    BY <1>5
  <2>2. FileOf(d) # f
    BY <1>3, <1>4, <2>1 DEF CacheInv, HoldsOnce, OneOfAFile
  <2>3. FileOf(d) \in Wanted
    BY <2>1 DEF CacheInv, InUseIsWanted
  <2> QED
    BY <1>1, <2>2, <2>3
<1>8. compaction.inputs \subseteq Wanted'
  BY <1>2 DEF Wanted
<1>9. \A g, h \in compaction'.outputs : g = h
  BY <1>2 DEF CacheInv, InUseIsWanted
<1>10. InUseIsWanted'
  BY <1>1, <1>2, <1>4, <1>5, <1>7, <1>8, <1>9, BgKeepsUse
<1> QED
  BY <1>6, <1>10 DEF CacheInv


(* RemoveObsoleteFiles: what it lists is closed, since a handle of it      *)
(* would be of a version or of an input, and those are live.               *)
LEMMA ObsoleteAreClosed ==
    ASSUME CacheInv, VersionsCounted', NEW vs, NEW outputs, RemoveObsoleteFiles(vs, outputs),
           \A t \in Threads : /\ threads'[t].holds = threads[t].holds
                              /\ threads'[t].version = threads[t].version
                              /\ threads'[t].opening = threads[t].opening
                              /\ threads'[t].opened = threads[t].opened,
           Bg.opening = 0, \A e \in Bg.holds : FileOf(e) \in LiveFiles(vs),
           FilesInv
    PROVE  CacheOK(Cache, Handles)' /\ HoldsOnce' /\ RemovalSucceeds'
<1> DEFINE obsolete == disk \ (outputs \union LiveFiles(vs))
           c == FinishErase(Cache, Evicted(obsolete))
<1>1. /\ doomed' = obsolete /\ versions' = vs /\ SetCache(c)
  BY DEF RemoveObsoleteFiles
<1> HIDE DEF obsolete
<1>2. Handles' = Handles /\ Cache.entries = entries
  BY DEF Handles, Cache
<1>3. /\ EntriesCounted(c, Handles) /\ Linked(c)
      /\ InCache(c) = InCache(Cache) \ Evicted(obsolete)
  <2> DEFINE b == Cache
             hs == Handles
             es == Evicted(obsolete)
  <2>1. EntriesCounted(b, hs) /\ Linked(b) /\ es \subseteq InCache(b)
    BY DEF CacheInv, CacheOK, Evicted, EntryFor
  <2> HIDE DEF b, hs, es
  <2>2. /\ EntriesCounted(FinishErase(b, es), hs) /\ Linked(FinishErase(b, es))
        /\ InCache(FinishErase(b, es)) = InCache(b) \ es
    BY <2>1, FinishEraseKeeps
  <2> QED
    BY <2>2 DEF b, hs, es
<1>4. entries' = c.entries /\ Cache' = c
  <2>1. c = [entries |-> c.entries, lru |-> c.lru]
    BY DEF FinishErase
  <2> QED
    BY <1>1, <2>1 DEF SetCache, Cache
<1> HIDE DEF c
<1>5. CacheOK(c, Handles)
  BY <1>3 DEF CacheInv, CacheOK, OneOfAFile
<1>6. CacheOK(Cache, Handles)'
  BY <1>2, <1>4, <1>5
<1>7. HoldsOnce'
  BY DEF CacheInv, HoldsOnce
<1>8. \A r \in Readers : r \in Threads /\ \A v \in threads[r].version : v \subseteq LiveFiles(vs)
  <2>1. \A r \in Readers : \A v \in threads'[r].version : <<r, v>> \in Held'
    BY DEF Held, ReaderRefs
  <2>2. \A p \in Held' : p[2] \in DOMAIN versions'
    BY DEF VersionsCounted, Counted
  <2>3. \A r \in Readers : r \in Threads
    BY DEF Threads
  <2>4. \A r \in Readers : \A v \in threads[r].version : v \in DOMAIN vs
    <3> TAKE r \in Readers
    <3> TAKE v \in threads[r].version
    <3>1. <<r, v>> \in Held'
      BY <2>1, <2>3
    <3>2. <<r, v>>[2] \in DOMAIN versions'
      BY <2>2, <3>1
    <3> QED
      BY <1>1, <3>2
  <2> QED
    BY <2>3, <2>4 DEF LiveFiles
<1>9. \A t \in Threads : \A e \in threads[t].holds : FileOf(e) \in LiveFiles(vs)
  <2> TAKE t \in Threads
  <2>1. CASE t \in Readers
    BY <1>8, <2>1 DEF CacheInv, InUseIsWanted
  <2>2. CASE t = Background
    BY <2>2 DEF Bg
  <2> QED
    BY <2>1, <2>2 DEF Threads
<1>10. \A t \in Threads : threads[t].opening # 0 => threads[t].opening \in LiveFiles(vs)
  <2> TAKE t \in Threads
  <2>1. CASE t \in Readers
    BY <1>8, <2>1 DEF FilesInv, OpeningIsThere
  <2>2. CASE t = Background
    BY <2>2 DEF Bg
  <2> QED
    BY <2>1, <2>2 DEF Threads
<1>11. ASSUME NEW f \in obsolete, NEW e \in DOMAIN c.entries
       PROVE  FileOf(e) # f
  <2> SUFFICES ASSUME FileOf(e) = f PROVE FALSE
    OBVIOUS
  <2>1. f \notin LiveFiles(vs)
    BY <1>11 DEF obsolete
  <2>2. e \notin InCache(c)
    BY <1>3, <1>11 DEF Evicted, EntryFor
  <2>3. Holders(Handles, e) # {}
    <3> DEFINE hs == Handles
    <3>1. EntriesCounted(c, hs) /\ ~c.entries[e].cached
      BY <1>3, <1>11, <2>2 DEF InCache
    <3> HIDE DEF hs
    <3>2. Holders(hs, e) # {}
      BY <1>11, <3>1, HeldByNobody
    <3> QED
      BY <3>2 DEF hs
  <2>4. PICK t \in Threads : e \in threads[t].holds
    BY <2>3 DEF Holders, Handles
  <2> QED
    BY <1>9, <2>1, <2>4
<1>12. RemovalSucceeds'
  <2>1. \A f \in obsolete : \A t \in Threads : ~(threads[t].opened /\ threads[t].opening = f)
    <3> TAKE f \in obsolete
    <3> TAKE t \in Threads
    <3>1. f \notin LiveFiles(vs)
      BY DEF obsolete
    <3> QED
      BY <1>10, <3>1 DEF CacheInv, HoldsOnce
  <2> QED
    BY <1>1, <1>4, <1>11, <2>1 DEF RemovalSucceeds, IsOpen
<1> QED
  BY <1>6, <1>7, <1>12

LEMMA ApplyKeepsCache ==
    ASSUME NamesApart, FilesInv, FilesInv', CacheInv, ApplyFlush \/ ApplyCompaction
    PROVE  CacheInv'
<1>1. /\ DOMAIN threads = Threads /\ \A t \in Threads : DOMAIN threads[t] = DOMAIN Initial
      /\ Background \in Threads /\ Bg = threads[Background]
      /\ \A r \in Readers : r \in Threads /\ r # Background
  BY DEF FilesInv, Shape, Threads, Bg, NamesApart
<1>2. Bg.opening = 0
  BY DEF ApplyFlush, ApplyCompaction, At
<1>3. \E back : threads' = [threads EXCEPT ![Background].at = "remove", ![Background].back = back]
  <2>1. CASE ApplyFlush
    <3>1. threads' = [threads EXCEPT ![Background].at = "remove", ![Background].back = Bg.back]
      BY <1>1, <2>1 DEF ApplyFlush, GoTo, Initial
    <3> QED
      BY <3>1
  <2>2. CASE ApplyCompaction
    <3>1. threads' = [threads EXCEPT ![Background].at = "remove", ![Background].back = "idle"]
      BY <1>1, <2>2 DEF ApplyCompaction, GoTo, Initial
    <3> QED
      BY <3>1
  <2> QED
    BY <2>1, <2>2
<1>4. /\ \A t \in Threads : /\ threads'[t].holds = threads[t].holds
                            /\ threads'[t].version = threads[t].version
                            /\ threads'[t].opening = threads[t].opening
                            /\ threads'[t].opened = threads[t].opened
      /\ \A r \in Readers : threads'[r] = threads[r]
      /\ Bg'.at = "remove" /\ Bg'.holds = Bg.holds /\ Bg'.opening = 0
  BY <1>1, <1>2, <1>3 DEF Bg, Initial
<1>5. VersionsCounted' /\ VersionsCounted
  BY DEF FilesInv
<1>6. CASE ApplyFlush
  <2> DEFINE vs == AppendVersion(versions, current')
  <2>1. RemoveObsoleteFiles(vs, pending) /\ compaction' = compaction /\ Bg.at = "apply flush"
    BY <1>6 DEF ApplyFlush, At
  <2> HIDE DEF vs
  <2>2. \A e \in Bg.holds : FileOf(e) \in compaction.inputs
    BY <2>1 DEF CacheInv, InUseIsWanted, Wanted
  <2>3. compaction.inputs # {} => compaction.version \in DOMAIN vs
    <3>1. compaction.inputs # {} => <<Background, compaction.version>> \in Held'
      BY <2>1 DEF Held
    <3>2. \A p \in Held' : p[2] \in DOMAIN versions'
      BY <1>5 DEF VersionsCounted, Counted
    <3>3. versions' = vs
      BY <2>1 DEF RemoveObsoleteFiles
    <3> QED
      BY <3>1, <3>2, <3>3
  <2>4. compaction.inputs \subseteq LiveFiles(vs)
    BY <2>3 DEF LiveFiles, FilesInv, CompactionInPlace
  <2>5. CacheOK(Cache, Handles)' /\ HoldsOnce' /\ RemovalSucceeds'
    BY <1>2, <1>4, <1>5, <2>1, <2>2, <2>4, ObsoleteAreClosed
  <2>6. InUseIsWanted'
    <3>1. \A e \in Bg'.holds : FileOf(e) \in Wanted'
      BY <1>4, <2>1, <2>2 DEF Wanted
    <3>2. \A f, g \in compaction'.outputs : f = g
      BY <2>1 DEF CacheInv, InUseIsWanted
    <3> QED
      BY <1>4, <3>1, <3>2, BgKeepsUse
  <2> QED
    BY <2>5, <2>6 DEF CacheInv
<1>7. CASE ApplyCompaction
  <2> DEFINE vs == Unreferred(AppendVersion(versions, current'), compaction.version)
             outputs == pending \ compaction.outputs
  <2>1. /\ RemoveObsoleteFiles(vs, outputs) /\ compaction' = NoCompaction
        /\ Bg.at = "apply compaction"
    BY <1>7 DEF ApplyCompaction, At
  <2> HIDE DEF vs, outputs
  <2>2. Bg.holds = {}
    BY <2>1 DEF CacheInv, InUseIsWanted
  <2>3. \A e \in Bg.holds : FileOf(e) \in LiveFiles(vs)
    BY <2>2
  <2>4. CacheOK(Cache, Handles)' /\ HoldsOnce' /\ RemovalSucceeds'
    BY <1>2, <1>4, <1>5, <2>1, <2>3, ObsoleteAreClosed
  <2>5. InUseIsWanted'
    <3>1. \A f, g \in compaction'.outputs : f = g
      BY <2>1 DEF NoCompaction
    <3> QED
      BY <1>4, <2>2, <3>1, BgKeepsUse
  <2> QED
    BY <2>4, <2>5 DEF CacheInv
<1> QED
  BY <1>6, <1>7

-----------------------------------------------------------------------------
(* The empty cache                                                         *)
LEMMA CacheStarts ==
    ASSUME Init
    PROVE  CacheInv
<1>1. /\ DOMAIN threads = Threads /\ Background \in Threads
      /\ \A t \in Threads : threads[t] = Initial
      /\ Bg = Initial /\ \A r \in Readers : r \in Threads
  BY DEF Init, Initial, Bg, Threads
<1>2. entries = EmptyFunction /\ DOMAIN entries = {} /\ lru = <<>> /\ doomed = {}
        /\ compaction = NoCompaction
  BY DEF Init, EmptyFunction
<1>3. InCache(Cache) = {} /\ Cache.entries = entries /\ Cache.lru = lru
  BY <1>2 DEF InCache, Cache
<1>4. EntriesCounted(Cache, Handles)
  BY <1>1, <1>2, <1>3, FS_EmptySet DEF EntriesCounted, Handles, Initial
<1>5. Linked(Cache)
  <2>1. <<>> \in Seq({}) /\ Elements(<<>>) = {} /\ IsInjective(<<>>)
    BY DEF Elements, IsInjective
  <2> QED
    BY <1>2, <1>3, <2>1 DEF Linked
<1>6. CacheOK(Cache, Handles)
  BY <1>3, <1>4, <1>5 DEF CacheOK, OneOfAFile
<1>7. HoldsOnce
  BY <1>1 DEF HoldsOnce, OneOfAFile, Initial
<1>8. InUseIsWanted
  BY <1>1, <1>2 DEF InUseIsWanted, NoCompaction, Initial
<1>9. RemovalSucceeds
  BY <1>2 DEF RemovalSucceeds
<1> QED
  BY <1>6, <1>7, <1>8, <1>9 DEF CacheInv

LEMMA CacheNext ==
    ASSUME NamesApart, Capacity \in Nat, FilesInv, FilesInv', CacheInv, [Next]_fileVars
    PROVE  CacheInv'
<1>1. CASE \E r \in Readers : RefCurrent(r) \/ ReadTable(r) \/ UnrefVersion(r)
  BY <1>1, ReaderKeepsCache
<1>2. CASE \E r \in Readers : \E e \in threads[r].holds : Release(r, e)
  BY <1>2, ReleaseKeepsCache DEF Threads
<1>3. CASE \E t \in Threads : OpenFile(t) \/ InsertTable(t)
  BY <1>3, OpenFileKeepsCache, InsertTableKeepsCache
<1>4. CASE \/ StartFlush \/ WriteTable \/ (\E f \in doomed : RemoveFile(f)) \/ Removed
           \/ (\E inputs \in SUBSET current : StartCompaction(inputs))
           \/ OpenOutput \/ FinishOutput \/ DeleteInput
  BY <1>4, BgWithoutCache
<1>5. CASE VerifyFlush \/ VerifyOutput \/ ReadInput
  BY <1>5, BgFindTableKeepsCache
<1>6. CASE FlushVerified \/ OutputVerified
  BY <1>6, VerifiedKeepsCache
<1>7. CASE LeaveInput
  BY <1>7, ReleaseKeepsCache DEF LeaveInput, Bg, Threads
<1>8. CASE ApplyFlush \/ ApplyCompaction
  BY <1>8, ApplyKeepsCache
<1>9. CASE UNCHANGED fileVars
  <2>1. Bg' = Bg /\ Wanted' = Wanted
    BY <1>9 DEF fileVars, Bg, Wanted
  <2>2. CacheOK(Cache, Handles)' /\ HoldsOnce' /\ RemovalSucceeds'
    BY <1>9, QuietForCache DEF fileVars
  <2>3. InUseIsWanted'
    BY <1>9, <2>1 DEF fileVars, CacheInv, InUseIsWanted
  <2> QED
    BY <2>2, <2>3 DEF CacheInv
<1> QED
  BY <1>1, <1>2, <1>3, <1>4, <1>5, <1>6, <1>7, <1>8, <1>9 DEF Next

(* LRUCache keeps what cache.cc:25-40 says of it, for any number of        *)
(* threads and any capacity: references are counted, a file has one entry  *)
(* in the hash table, and lru_ has what the cache alone refers to, once.   *)
THEOREM CacheConsistentAlways ==
    ASSUME NamesApart, Capacity \in Nat
    PROVE  Spec => []CacheConsistent
<1>1. Init => FilesInv /\ CacheInv
  BY FilesStart, CacheStarts
<1>2. FilesInv /\ CacheInv /\ [Next]_fileVars => (FilesInv /\ CacheInv)'
  BY FilesNext, CacheNext
<1>3. CacheInv => CacheConsistent
  BY CacheInvIsEnough
<1> QED
  BY <1>1, <1>2, <1>3, PTL DEF Spec

(* What RemoveObsoleteFiles is about to remove is not open, in the cache   *)
(* or in a thread, when it goes: on Windows every such file is removed.    *)
THEOREM RemovalSucceedsAlways ==
    ASSUME NamesApart, Capacity \in Nat
    PROVE  Spec => []RemovalSucceeds
<1>1. Init => FilesInv /\ CacheInv
  BY FilesStart, CacheStarts
<1>2. FilesInv /\ CacheInv /\ [Next]_fileVars => (FilesInv /\ CacheInv)'
  BY FilesNext, CacheNext
<1>3. CacheInv => RemovalSucceeds
  BY CacheInvIsEnough
<1> QED
  BY <1>1, <1>2, <1>3, PTL DEF Spec
=============================================================================
