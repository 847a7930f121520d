---------------------------- MODULE GeneratedProofs ----------------------------
(***************************************************************************)
(* What the tool leaves behind (MCTool): RunRepairs of its files for every *)
(* set of schemas and every number of runs, and Understood of the code in  *)
(* them for classes of any size.                                           *)
(***************************************************************************)
EXTENDS OutputFiles, Codec, DataLemmas

-----------------------------------------------------------------------------
(* OutputFiles: whatever the disk holds, a run without a failure leaves    *)
(* its files in order.                                                     *)

(* Every file of the run either holds what the run printed or is still to  *)
(* be finalized, unless something failed. RunRepairs by itself says nothing*)
(* of the middle of a run.                                                 *)
InLeft(f) == \E i \in DOMAIN left : left[i] = f

DiskShape ==
    /\ DOMAIN disk = Files
    /\ \A f \in Files : disk[f] = [of |-> disk[f].of, size |-> disk[f].size]

RunShape ==
    /\ left \in Seq(Files) /\ saved \subseteq Files
    /\ at \in {"idle", "comparing", "opening", "writing"}
    /\ at = "idle" <=> left = <<>>

FinalizedOrLeft == ~failed => \A f \in saved : disk[f] = Text(schema, Full) \/ InLeft(f)

RepairInv == DiskShape /\ RunShape /\ FinalizedOrLeft

-----------------------------------------------------------------------------
(* What is left after the first file is finalized.                         *)
LEMMA FinalizedShape ==
    ASSUME RepairInv, left # <<>>, Finalized(Tail(left)), saved' = saved
    PROVE  /\ RunShape'
           /\ Head(left) \in Files
           /\ \A f \in Files : InLeft(f) => f = Head(left) \/ InLeft(f)'
<1>1. left \in Seq(Files) /\ left' = Tail(left)
  BY DEF RepairInv, RunShape, Finalized
<1>2. RunShape'
  BY <1>1 DEF RepairInv, RunShape, Finalized
<1>3. ASSUME NEW f \in Files, NEW i \in DOMAIN left, left[i] = f, f # Head(left)
      PROVE  InLeft(f)'
  <2>1. i - 1 \in DOMAIN left' /\ left'[i - 1] = f
    BY <1>1, <1>3
  <2> QED
    BY <2>1 DEF InLeft
<1> QED
  BY <1>1, <1>2, <1>3 DEF InLeft

(* A run starts with all its files left (saveCPP, CreateDOM.cpp:4368).   *)
LEMMA SaveKeeps ==
    ASSUME RepairInv, NEW s \in Schemas, NEW plainOldData \in BOOLEAN,
           NEW typeScript \in BOOLEAN, SaveCPP(s, plainOldData, typeScript)
    PROVE  RepairInv'
<1> DEFINE optional == IF typeScript THEN <<Script>> ELSE <<>>
<1>1. left' = <<Header>> \/ left' = optional \o <<Header, Code>>
  BY DEF SaveCPP
<1>2. left' \in Seq(Files) /\ left' # <<>>
  <2>1. {Header, Code, Script} = Files
    BY DEF Files
  <2>2. optional \in Seq(Files)
    BY <2>1
  <2>3. <<Header>> \in Seq(Files) /\ <<Header>> # <<>>
    BY <2>1
  <2>4. <<Header, Code>> \in Seq(Files) /\ Len(<<Header, Code>>) = 2
    BY <2>1
  <2> HIDE DEF optional
  <2>5. Len(optional \o <<Header, Code>>) = Len(optional) + 2
    BY <2>2, <2>4
  <2>6. optional \o <<Header, Code>> \in Seq(Files) /\ optional \o <<Header, Code>> # <<>>
    BY <2>2, <2>4, <2>5
  <2> QED
    BY <1>1, <2>3, <2>6
<1>3. saved' = {left'[i] : i \in DOMAIN left'}
  BY DEF SaveCPP
<1>4. DiskShape'
  BY DEF SaveCPP, RepairInv, DiskShape
<1>5. RunShape'
  <2>1. saved' \subseteq Files
    BY <1>2, <1>3
  <2>2. at' = "comparing"
    BY DEF SaveCPP
  <2> QED
    BY <1>2, <2>1, <2>2 DEF RunShape
<1>6. FinalizedOrLeft'
  BY <1>3 DEF FinalizedOrLeft, InLeft
<1> QED
  BY <1>4, <1>5, <1>6 DEF RepairInv

(* Comparing finds the file in order or leaves it for writing.             *)
LEMMA CompareKeeps ==
    ASSUME RepairInv, Compare
    PROVE  RepairInv'
<1>1. /\ left # <<>> /\ left \in Seq(Files)
      /\ UNCHANGED <<disk, schema, failed, saved>>
  BY DEF Compare, RepairInv, RunShape
<1>2. CASE /\ HasNotChanged(disk[Head(left)], Text(schema, Full))
           /\ Finalized(Tail(left))
  <2>1. /\ RunShape' /\ Head(left) \in Files
        /\ \A f \in Files : InLeft(f) => f = Head(left) \/ InLeft(f)'
    BY <1>1, <1>2, FinalizedShape
  <2>2. disk[Head(left)] = Text(schema, Full)
    BY <1>2, <2>1 DEF HasNotChanged, Text, Full, RepairInv, DiskShape
  <2>3. FinalizedOrLeft'
    BY <1>1, <2>1, <2>2 DEF RepairInv, RunShape, FinalizedOrLeft
  <2> QED
    BY <1>1, <2>1, <2>3 DEF RepairInv, DiskShape
<1>3. CASE at' = "opening" /\ UNCHANGED left
  BY <1>1, <1>3 DEF RepairInv, DiskShape, RunShape, FinalizedOrLeft, InLeft
<1> QED
  BY <1>2, <1>3 DEF Compare

(* A file that does not open is a failure of the run.                      *)
LEMMA OpenFailsKeeps ==
    ASSUME RepairInv, OpenFails
    PROVE  RepairInv'
<1>1. left # <<>> /\ Finalized(Tail(left)) /\ failed' /\ UNCHANGED <<disk, saved>>
  BY DEF OpenFails, RepairInv, RunShape
<1>2. RunShape'
  BY <1>1, FinalizedShape
<1> QED
  BY <1>1, <1>2 DEF RepairInv, DiskShape, FinalizedOrLeft

(* Truncating destroys a file that is still left.                          *)
LEMMA TruncateKeeps ==
    ASSUME RepairInv, Truncate
    PROVE  RepairInv'
<1>1. /\ left # <<>> /\ left \in Seq(Files) /\ at' = "writing"
      /\ disk' = [disk EXCEPT ![Head(left)] = Text(schema, 0)]
      /\ UNCHANGED <<schema, left, failed, saved>>
  BY DEF Truncate, RepairInv, RunShape
<1>2. Head(left) \in Files /\ InLeft(Head(left))
  BY <1>1 DEF InLeft
<1>3. DiskShape'
  BY <1>1, <1>2 DEF RepairInv, DiskShape, Text
<1>4. RunShape'
  BY <1>1 DEF RepairInv, RunShape
<1>5. FinalizedOrLeft'
  BY <1>1, <1>2 DEF RepairInv, RunShape, DiskShape, FinalizedOrLeft, InLeft
<1> QED
  BY <1>3, <1>4, <1>5 DEF RepairInv

(* A whole write puts the file in order, a short one is a failure.         *)
LEMMA WriteKeeps ==
    ASSUME RepairInv, NEW size \in 0 .. Full, Write(size)
    PROVE  RepairInv'
<1>1. /\ left # <<>> /\ Finalized(Tail(left))
      /\ disk' = [disk EXCEPT ![Head(left)] = Text(schema, size)]
      /\ failed' = (failed \/ size < Full)
      /\ UNCHANGED <<schema, saved>>
  BY DEF Write, RepairInv, RunShape
<1>2. /\ RunShape' /\ Head(left) \in Files
      /\ \A f \in Files : InLeft(f) => f = Head(left) \/ InLeft(f)'
  BY <1>1, FinalizedShape
<1>3. DiskShape'
  BY <1>1, <1>2 DEF RepairInv, DiskShape, Text
<1>4. FinalizedOrLeft'
  <2> SUFFICES ASSUME ~failed', NEW f \in saved
               PROVE  disk'[f] = Text(schema', Full) \/ InLeft(f)'
    BY <1>1 DEF FinalizedOrLeft
  <2>1. ~failed /\ size = Full /\ f \in Files
    <3>1. ~failed /\ ~(size < Full)
      BY <1>1, Zenon
    <3>2. size = Full
      BY <3>1 DEF Full
    <3> QED
      BY <3>1, <3>2 DEF RepairInv, RunShape
  <2>2. CASE f = Head(left)
    BY <2>1, <2>2, <1>1, <1>2 DEF RepairInv, DiskShape
  <2>3. CASE f # Head(left)
    BY <2>1, <2>3, <1>1, <1>2 DEF RepairInv, DiskShape, FinalizedOrLeft
  <2> QED
    BY <2>2, <2>3
<1> QED
  BY <1>2, <1>3, <1>4 DEF RepairInv

(* An interruption is a failure; who edits a file has no run's files left  *)
(* to speak of.                                                            *)
LEMMA OthersKeep ==
    ASSUME RepairInv, Interrupted \/ \E f \in Files : Edit(f)
    PROVE  RepairInv'
<1>1. CASE Interrupted
  BY <1>1 DEF Interrupted, RepairInv, DiskShape, RunShape, FinalizedOrLeft
<1>2. ASSUME NEW f \in Files, Edit(f)
      PROVE  RepairInv'
  BY <1>2 DEF Edit, NoText, RepairInv, DiskShape, RunShape, FinalizedOrLeft
<1> QED
  BY <1>1, <1>2

LEMMA RepairInvariant == OutSpec => []RepairInv
<1>1. OutInit => RepairInv
  BY DEF OutInit, NoText, RepairInv, DiskShape, RunShape, FinalizedOrLeft
<1>2. ASSUME RepairInv, [OutNext]_outVars
      PROVE  RepairInv'
  <2>1. CASE OutNext
    BY <1>2, <2>1, SaveKeeps, CompareKeeps, OpenFailsKeeps, TruncateKeeps, WriteKeeps,
       OthersKeep DEF OutNext
  <2>2. CASE UNCHANGED outVars
    BY <1>2, <2>2 DEF outVars, RepairInv, DiskShape, RunShape, FinalizedOrLeft, InLeft
  <2> QED
    BY <1>2, <2>1, <2>2
<1> QED
  BY <1>1, <1>2, PTL DEF OutSpec

(* However often the tool was interrupted, failed or ran on other schemas, *)
(* and whatever was done to its files, a run of CreateDOMDef::saveCPP in   *)
(* which nothing fails leaves each of its files as printed (CreateDOM.cpp  *)
(* 385-446).                                                               *)
THEOREM RunRepairsAlways == OutSpec => []RunRepairs
<1>1. RepairInv => RunRepairs
  BY DEF RepairInv, RunShape, FinalizedOrLeft, InLeft, RunRepairs
<1> QED
  BY <1>1, RepairInvariant, PTL

-----------------------------------------------------------------------------
(* Codec: the invariant says what of the object is in the document, and    *)
(* what of the document has been read; Understood by itself speaks of the  *)
(* end only.                                                               *)

(* The rows a schema may have.                                           *)
AnyRow == UNION {RowsNamed(MemberNames[j]) : j \in DOMAIN MemberNames}

(* How many rows have been dealt with.                                   *)
Declared == IF status = "declaring" THEN done ELSE Len(MemberNames)

(* What serializeTo may add to a document: the key of the entry, the       *)
(* value under it, and whether there is an entry at all.                   *)
Title(m) == IF m.shape = "map" THEN Key ELSE m.name
JsonOf(m, value) ==
    IF m.shape = "plain" THEN Scalar(m, value)
    ELSE IF m.shape = "array" THEN Array(m, value)
    ELSE IF m.kind = "enum" THEN Array(m, value[Key]) ELSE Scalar(m, value[Key])
Goes(m, value) == IsSent(m, value) /\ ~(m.shape = "map" /\ value = <<>>)

(* The entries a document can have.                                      *)
Sendable == UNION {{[name |-> Title(m), json |-> JsonOf(m, value)] : value \in Values(m)} : m \in AnyRow}

-----------------------------------------------------------------------------
(* What a row says of its member.                                        *)
LEMMA RowIs ==
    ASSUME NEW m \in AnyRow
    PROVE  /\ m \in RowsNamed(m.name)
           /\ m = [name |-> m.name, kind |-> m.kind, shape |-> m.shape, opt |-> m.opt,
                   byInt |-> m.byInt, unset |-> m.unset, base |-> m.base]
           /\ m.kind \in {"number", "real", "bool", "string", "enum", "class"}
           /\ m.shape \in {"plain", "array", "map"}
           /\ m.shape \in Shapes(m.kind) /\ m.opt \in Options(m.shape)
           /\ m.byInt => m.kind = "enum" /\ m.shape = "plain"
           /\ m.unset => m.opt = "optional"
           /\ m.name # Key
<1>1. PICK j \in DOMAIN MemberNames : m \in RowsNamed(MemberNames[j])
  BY DEF AnyRow
<1>2. m.name = MemberNames[j]
  BY <1>1 DEF RowsNamed
<1>3. m.name # Key
  BY <1>2, CodecAssumption
<1>4. m \in RowsNamed(m.name)
  BY <1>1, <1>2
<1> QED
  BY <1>3, <1>4, CodecAssumption DEF RowsNamed

(* Only plain members are optional, and maps are of three kinds.         *)
LEMMA ShapeIs ==
    ASSUME NEW m \in AnyRow
    PROVE  /\ m.opt = "optional" => m.shape = "plain"
           /\ m.shape = "array" => m.kind \in {"number", "string", "enum", "class"}
           /\ m.shape = "map" => m.kind \in {"number", "string", "enum"} /\ m.opt = "required"
<1>1. m.shape \in {"plain", "array", "map"} /\ m.shape \in Shapes(m.kind) /\ m.opt \in Options(m.shape)
  BY RowIs
<1> QED
  BY <1>1 DEF Shapes, Options

(* serializeTo adds one entry or none.                                   *)
LEMMA SerializedIs ==
    ASSUME NEW m \in AnyRow, NEW value
    PROVE  Serialized(m, value) =
             IF Goes(m, value) THEN <<[name |-> Title(m), json |-> JsonOf(m, value)]>> ELSE <<>>
<1>1. m.shape \in {"plain", "array", "map"}
  BY RowIs
<1>2. CASE ~IsSent(m, value)
  BY <1>2 DEF Serialized, Goes
<1>3. CASE IsSent(m, value) /\ m.shape = "plain"
  BY <1>3 DEF Serialized, Goes, Entry, Title, JsonOf
<1>4. CASE IsSent(m, value) /\ m.shape = "array"
  BY <1>4 DEF Serialized, Goes, Entry, Title, JsonOf
<1>5. CASE IsSent(m, value) /\ m.shape = "map"
  BY <1>5, ShapeIs DEF Serialized, Goes, Entry, Title, JsonOf
<1> QED
  BY <1>1, <1>2, <1>3, <1>4, <1>5

(* An older version of a member has its name, shape and class.           *)
LEMMA VersionsAre ==
    ASSUME NEW m \in AnyRow, NEW w \in AnyRow, w \in Versions(m)
    PROVE  /\ w.name = m.name /\ w.shape = m.shape /\ w.base = m.base /\ ~w.unset
           /\ w.byInt => m.byInt
           /\ \/ w.kind = m.kind
              \/ w.shape = "plain" /\ w.kind = "string" /\ m.kind = "number"
              \/ w.shape = "plain" /\ w.kind = "number" /\ m.kind = "real"
<1>1. w \in RowsNamed(m.name)
  BY DEF Versions
<1>2. w.name = m.name
  BY <1>1 DEF RowsNamed
<1> QED
  BY <1>2 DEF Versions

(* A value of an older version is one the reader's getter takes.         *)
LEMMA ScalarIsRead ==
    ASSUME NEW m \in AnyRow, NEW w \in AnyRow, w \in Versions(m), NEW value
    PROVE  Reads(m, Scalar(w, value))
<1>1. Scalar(w, value).is = TypeSent(w)
  BY DEF Scalar
<1>2. m.kind \in {"number", "real", "bool", "string", "enum", "class"}
  BY RowIs
<1>3. /\ w.kind = m.kind \/ <<w.kind, m.kind>> \in {<<"string", "number">>, <<"number", "real">>}
      /\ w.byInt => m.byInt
  BY VersionsAre
<1>4. w.byInt \in BOOLEAN
  BY DEF AnyRow, RowsNamed
<1> QED
  BY <1>1, <1>2, <1>3, <1>4 DEF Reads, TypeSent, IsString, IsNumber

(* So are the elements of an array, but for strings.                     *)
LEMMA ArrayIsRead ==
    ASSUME NEW m \in AnyRow, NEW w \in AnyRow, w \in Versions(m), NEW value, m.kind # "string"
    PROVE  ReadsArray(m, Array(w, value))
<1>1. /\ Array(w, value).is = "array"
      /\ DOMAIN Array(w, value).value = DOMAIN value
      /\ \A i \in DOMAIN value : Array(w, value).value[i] = Scalar(w, value[i])
  BY DEF Array
<1>2. \A i \in DOMAIN value : Reads(m, Scalar(w, value[i]))
  BY ScalarIsRead
<1> QED
  BY <1>1, <1>2 DEF ReadsArray

(* The elements of an array are read as they were written.               *)
LEMMA ArrayElements ==
    ASSUME NEW w, NEW value, value \in Seq(Nat)
    PROVE  Elements(Array(w, value)) = value
<1>1. /\ DOMAIN Array(w, value).value = DOMAIN value
      /\ \A i \in DOMAIN value : Array(w, value).value[i].value = value[i]
  BY DEF Array, Scalar
<1>2. Elements(Array(w, value)) = [i \in DOMAIN value |-> value[i]]
  BY <1>1 DEF Elements
<1> QED
  BY <1>2

(* The two classes have a member for some of the rows, each under its own*)
(* name, and members of the same name are versions of each other.        *)
ClassShape(class) ==
    /\ class \in Seq(AnyRow)
    /\ \A i \in DOMAIN class : \E j \in 1..Declared : class[i].name = MemberNames[j]
    /\ \A i, j \in DOMAIN class : class[i].name = class[j].name => i = j

Related == \A w \in MembersOf(writer), m \in MembersOf(reader) : w.name = m.name => w \in Versions(m)

ClassesDeclared ==
    /\ status \in {"declaring", "writing", "reading", "accepted", "rejected"}
    /\ ClassShape(writer) /\ ClassShape(reader) /\ Related
    /\ status = "declaring" => done \in 0..Len(MemberNames) /\ object = <<>> /\ doc = <<>>

(* The document has an entry of each member that goes, and no other:     *)
(* nothing is said of the order, of which the reader sees only the first *)
(* entry of a name.                                                      *)
Written == IF status = "writing" THEN done ELSE Len(writer)
Wrote(i) == object[writer[i].name]
EntryFor(i) == [name |-> Title(writer[i]), json |-> JsonOf(writer[i], Wrote(i))]

DocumentIsSent ==
    status # "declaring" =>
        /\ Written \in 0..Len(writer)
        /\ DOMAIN object = {writer[i].name : i \in 1..Written}
        /\ \A i \in 1..Written : Wrote(i) \in Values(writer[i])
        /\ doc \in Seq(Sendable)
        /\ \A k \in DOMAIN doc : \E i \in 1..Written : Goes(writer[i], Wrote(i)) /\ doc[k] = EntryFor(i)
        /\ \A i \in 1..Written : Goes(writer[i], Wrote(i)) => \E k \in DOMAIN doc : doc[k] = EntryFor(i)

(* The members that were read are as Understood promises, the others as in*)
(* a new object.                                                         *)
Understandable(m) == IF Sent(m) THEN object[m.name] ELSE Initial(m)

ReadSoFar ==
    status \in {"reading", "accepted", "rejected"} =>
        /\ done \in 0..Len(reader)
        /\ DOMAIN result = NamesOfMembers(MembersOf(reader))
        /\ status = "accepted" => done = Len(reader)
        /\ ~Unserved =>
             /\ \A i \in DOMAIN reader :
                   result[reader[i].name] = IF i <= done THEN Understandable(reader[i]) ELSE Initial(reader[i])
             /\ \A i \in 1..done : Needed(reader[i]) => Sent(reader[i])
             /\ status = "rejected" => \E m \in MembersOf(reader) : Needed(m) /\ ~Sent(m)

CodecInv == ClassesDeclared /\ DocumentIsSent /\ ReadSoFar

-----------------------------------------------------------------------------
(* The inductive invariant holds before anything is declared.            *)
LEMMA CodecStarts ==
    ASSUME CodecInit
    PROVE  CodecInv
<1>1. status = "declaring" /\ done = 0 /\ writer = <<>> /\ reader = <<>> /\ object = <<>> /\ doc = <<>>
  BY DEF CodecInit
<1>2. <<>> \in Seq(AnyRow) /\ DOMAIN <<>> = {}
  OBVIOUS
<1>3. Len(MemberNames) \in Nat
  BY CodecAssumption
<1>4. ClassShape(writer) /\ ClassShape(reader)
  BY <1>1, <1>2 DEF ClassShape
<1>5. Related
  BY <1>1, <1>2 DEF Related, MembersOf
<1> QED
  BY <1>1, <1>3, <1>4, <1>5 DEF CodecInv, ClassesDeclared, DocumentIsSent, ReadSoFar

(* A row more, or the class as it was.                                   *)
LEMMA ShapeExtended ==
    ASSUME CodecInv, status = "declaring", status' = "declaring", done < Len(MemberNames), done' = done + 1,
           NEW class, NEW more, ClassShape(class), NEW row \in RowsNamed(MemberNames[done + 1]),
           more = class \/ more = Append(class, row)
    PROVE  /\ more \in Seq(AnyRow)
           /\ \A i \in DOMAIN more : \E j \in 1..Declared' : more[i].name = MemberNames[j]
           /\ \A i, j \in DOMAIN more : more[i].name = more[j].name => i = j
<1>1. done \in 0..Len(MemberNames) /\ Len(MemberNames) \in Nat /\ DOMAIN MemberNames = 1..Len(MemberNames)
  BY CodecAssumption DEF CodecInv, ClassesDeclared
<1>2. Declared = done /\ Declared' = done + 1 /\ done + 1 \in DOMAIN MemberNames
  BY <1>1 DEF Declared
<1>3. row \in AnyRow /\ row.name = MemberNames[done + 1]
  BY <1>2 DEF AnyRow, RowsNamed
<1>4. /\ class \in Seq(AnyRow)
      /\ \A i \in DOMAIN class : \E j \in 1..done : class[i].name = MemberNames[j]
      /\ \A i, j \in DOMAIN class : class[i].name = class[j].name => i = j
  BY <1>2 DEF ClassShape
<1>5. CASE more = class
  <2>1. 1..done \subseteq 1..Declared'
    BY <1>1, <1>2
  <2> QED
    BY <1>4, <1>5, <2>1
<1>6. CASE more = Append(class, row)
  <2>1. more \in Seq(AnyRow) /\ DOMAIN more = DOMAIN class \union {Len(class) + 1}
        /\ more[Len(class) + 1] = row /\ \A i \in DOMAIN class : more[i] = class[i]
    BY <1>3, <1>4, <1>6
  <2>2. \A i \in DOMAIN class : more[i].name # row.name
    <3>1. TAKE i \in DOMAIN class
    <3>2. PICK j \in 1..done : class[i].name = MemberNames[j]
      BY <1>4
    <3>3. j \in DOMAIN MemberNames /\ j # done + 1
      BY <1>1
    <3> QED
      BY <1>2, <1>3, <2>1, <3>2, <3>3, CodecAssumption
  <2>3. \A i \in DOMAIN more : \E j \in 1..done + 1 : more[i].name = MemberNames[j]
    <3>1. TAKE i \in DOMAIN more
    <3>2. CASE i \in DOMAIN class
      <4>1. PICK j \in 1..done : class[i].name = MemberNames[j]
        BY <1>4, <3>2
      <4> QED
        BY <1>1, <2>1, <3>2, <4>1
    <3>3. CASE i = Len(class) + 1
      <4>1. done + 1 \in 1..done + 1
        BY <1>1
      <4> QED
        BY <1>3, <2>1, <3>3, <4>1
    <3> QED
      BY <2>1, <3>2, <3>3
  <2> QED
    BY <1>2, <1>4, <2>1, <2>2, <2>3
<1> QED
  BY <1>5, <1>6

(* No member declared so far has the name of the next row.               *)
LEMMA NextNameIsNew ==
    ASSUME CodecInv, status = "declaring", done < Len(MemberNames),
           NEW class, ClassShape(class), NEW m \in MembersOf(class)
    PROVE  m.name # MemberNames[done + 1]
<1>1. done \in 0..Len(MemberNames) /\ Len(MemberNames) \in Nat /\ DOMAIN MemberNames = 1..Len(MemberNames)
  BY CodecAssumption DEF CodecInv, ClassesDeclared
<1>2. PICK i \in DOMAIN class : m = class[i]
  BY DEF MembersOf
<1>3. PICK j \in 1..done : m.name = MemberNames[j]
  BY <1>2 DEF ClassShape, Declared
<1>4. j \in DOMAIN MemberNames /\ done + 1 \in DOMAIN MemberNames /\ j # done + 1
  BY <1>1
<1> QED
  BY <1>3, <1>4, CodecAssumption

(* The members of a class with a row more.                               *)
LEMMA MembersAppended ==
    ASSUME NEW class \in Seq(AnyRow), NEW row \in AnyRow
    PROVE  MembersOf(Append(class, row)) = MembersOf(class) \union {row}
<1>1. DOMAIN Append(class, row) = DOMAIN class \union {Len(class) + 1}
      /\ Append(class, row)[Len(class) + 1] = row /\ \A i \in DOMAIN class : Append(class, row)[i] = class[i]
  OBVIOUS
<1> QED
  BY <1>1 DEF MembersOf

(* A row is added to the classes (processArgs).                          *)
LEMMA DeclareKeeps ==
    ASSUME CodecInv, Declare
    PROVE  CodecInv'
<1>1. /\ status = "declaring" /\ status' = status /\ done < Len(MemberNames) /\ done' = done + 1
      /\ object' = object /\ doc' = doc /\ object = <<>> /\ doc = <<>>
      /\ done \in 0..Len(MemberNames) /\ Len(MemberNames) \in Nat
      /\ ClassShape(writer) /\ ClassShape(reader) /\ Related
  BY CodecAssumption DEF Declare, CodecInv, ClassesDeclared
<1>2. PICK m \in RowsNamed(MemberNames[done + 1]) :
        \/ reader' = Append(reader, m) /\ \E w \in Versions(m) : writer' = Append(writer, w)
        \/ reader' = Append(reader, m) /\ UNCHANGED writer
        \/ writer' = Append(writer, m) /\ UNCHANGED reader
  BY DEF Declare
<1>3. done + 1 \in DOMAIN MemberNames /\ m.name = MemberNames[done + 1] /\ m \in AnyRow
  <2>1. done + 1 \in DOMAIN MemberNames
    BY <1>1, CodecAssumption
  <2> QED
    BY <2>1 DEF RowsNamed, AnyRow
<1>4. \A w \in Versions(m) : w \in RowsNamed(MemberNames[done + 1]) /\ w.name = MemberNames[done + 1] /\ w \in AnyRow
  <2>1. \A w \in Versions(m) : w \in RowsNamed(MemberNames[done + 1])
    BY <1>3 DEF Versions
  <2> QED
    BY <2>1, <1>3 DEF RowsNamed, AnyRow
<1>5. ClassShape(reader)'
  <2>1. reader' = reader \/ reader' = Append(reader, m)
    BY <1>2
  <2>2. /\ reader' \in Seq(AnyRow)
        /\ \A i \in DOMAIN reader' : \E j \in 1..Declared' : reader'[i].name = MemberNames[j]
        /\ \A i, j \in DOMAIN reader' : reader'[i].name = reader'[j].name => i = j
    BY <1>1, <2>1, ShapeExtended
  <2> QED
    BY <2>2 DEF ClassShape
<1>6. ClassShape(writer)'
  <2>1. PICK row \in RowsNamed(MemberNames[done + 1]) : writer' = writer \/ writer' = Append(writer, row)
    BY <1>2, <1>4
  <2>3. /\ writer' \in Seq(AnyRow)
        /\ \A i \in DOMAIN writer' : \E j \in 1..Declared' : writer'[i].name = MemberNames[j]
        /\ \A i, j \in DOMAIN writer' : writer'[i].name = writer'[j].name => i = j
    BY <1>1, <2>1, ShapeExtended
  <2> QED
    BY <2>3 DEF ClassShape
<1>7. Related'
  <2>1. writer \in Seq(AnyRow) /\ reader \in Seq(AnyRow)
    BY <1>1 DEF ClassShape
  <2>2. /\ \A n \in MembersOf(writer) : n.name # MemberNames[done + 1]
        /\ \A n \in MembersOf(reader) : n.name # MemberNames[done + 1]
    BY <1>1, NextNameIsNew
  <2>3. CASE reader' = Append(reader, m) /\ \E w \in Versions(m) : writer' = Append(writer, w)
    <3>1. PICK w \in Versions(m) : writer' = Append(writer, w)
      BY <2>3
    <3>2. /\ MembersOf(writer)' = MembersOf(writer) \union {w}
          /\ MembersOf(reader)' = MembersOf(reader) \union {m}
      <4>1. MembersOf(Append(writer, w)) = MembersOf(writer) \union {w}
        BY <1>4, <2>1, MembersAppended
      <4>2. MembersOf(Append(reader, m)) = MembersOf(reader) \union {m}
        BY <1>3, <2>1, MembersAppended
      <4>3. MembersOf(writer)' = MembersOf(Append(writer, w)) /\ MembersOf(reader)' = MembersOf(Append(reader, m))
        BY <2>3, <3>1 DEF MembersOf
      <4> QED
        BY <4>1, <4>2, <4>3
    <3>3. w.name = MemberNames[done + 1]
      BY <1>4
    <3>4. \A a \in MembersOf(writer)', b \in MembersOf(reader)' : a.name = b.name => a \in Versions(b)
      BY <1>1, <1>3, <2>2, <3>2, <3>3 DEF Related
    <3> QED
      BY <3>4 DEF Related
  <2>4. CASE reader' = Append(reader, m) /\ UNCHANGED writer
    <3>1. MembersOf(writer)' = MembersOf(writer)
      BY <2>4 DEF MembersOf
    <3>2. MembersOf(Append(reader, m)) = MembersOf(reader) \union {m}
      BY <1>3, <2>1, MembersAppended
    <3>3. MembersOf(reader)' = MembersOf(reader) \union {m}
      BY <2>4, <3>2 DEF MembersOf
    <3>4. \A a \in MembersOf(writer)', b \in MembersOf(reader)' : a.name = b.name => a \in Versions(b)
      BY <1>1, <1>3, <2>2, <3>1, <3>3 DEF Related
    <3> QED
      BY <3>4 DEF Related
  <2>5. CASE writer' = Append(writer, m) /\ UNCHANGED reader
    <3>1. MembersOf(reader)' = MembersOf(reader)
      BY <2>5 DEF MembersOf
    <3>2. MembersOf(Append(writer, m)) = MembersOf(writer) \union {m}
      BY <1>3, <2>1, MembersAppended
    <3>3. MembersOf(writer)' = MembersOf(writer) \union {m}
      BY <2>5, <3>2 DEF MembersOf
    <3>4. \A a \in MembersOf(writer)', b \in MembersOf(reader)' : a.name = b.name => a \in Versions(b)
      BY <1>1, <1>3, <2>2, <3>1, <3>3 DEF Related
    <3> QED
      BY <3>4 DEF Related
  <2> QED
    BY <1>2, <2>3, <2>4, <2>5
<1> QED
  BY <1>1, <1>5, <1>6, <1>7 DEF CodecInv, ClassesDeclared, DocumentIsSent, ReadSoFar

(* The code is printed, if it compiles.                                  *)
LEMMA GenerateKeeps ==
    ASSUME CodecInv, Generate
    PROVE  CodecInv'
<1>1. /\ status = "declaring" /\ status' = "writing" /\ done = Len(MemberNames) /\ done' = 0
      /\ UNCHANGED <<writer, reader, object, doc>> /\ object = <<>> /\ doc = <<>>
      /\ ClassShape(writer) /\ ClassShape(reader) /\ Related
  BY DEF Generate, CodecInv, ClassesDeclared
<1>2. Declared' = Declared
  BY <1>1 DEF Declared
<1>3. ClassesDeclared'
  BY <1>1, <1>2 DEF ClassesDeclared, ClassShape, Related, MembersOf
<1>4. Written' = 0 /\ writer' = writer /\ Len(writer) \in Nat
  BY <1>1 DEF Written, ClassShape
<1>5. DocumentIsSent'
  <2>1. <<>> \in Seq(Sendable) /\ DOMAIN <<>> = {}
    OBVIOUS
  <2>2. 1..0 = {}
    OBVIOUS
  <2> QED
    BY <1>1, <1>4, <2>1, <2>2 DEF DocumentIsSent
<1> QED
  BY <1>1, <1>3, <1>5 DEF CodecInv, ReadSoFar

(* What a class's row is, where the class is declared.                   *)
LEMMA MemberIs ==
    ASSUME CodecInv
    PROVE  /\ writer \in Seq(AnyRow) /\ reader \in Seq(AnyRow)
           /\ \A w \in MembersOf(writer) : w \in AnyRow
           /\ \A m \in MembersOf(reader) : m \in AnyRow
           /\ \A i \in DOMAIN writer : writer[i] \in AnyRow /\ writer[i] \in MembersOf(writer)
           /\ \A i \in DOMAIN reader : reader[i] \in AnyRow /\ reader[i] \in MembersOf(reader)
           /\ \A i, j \in DOMAIN writer : writer[i].name = writer[j].name => i = j
           /\ \A i, j \in DOMAIN reader : reader[i].name = reader[j].name => i = j
<1>1. /\ writer \in Seq(AnyRow) /\ reader \in Seq(AnyRow)
      /\ \A i, j \in DOMAIN writer : writer[i].name = writer[j].name => i = j
      /\ \A i, j \in DOMAIN reader : reader[i].name = reader[j].name => i = j
  BY DEF CodecInv, ClassesDeclared, ClassShape
<1> QED
  BY <1>1 DEF MembersOf

(* A member is written: its entry goes behind the others.                *)
LEMMA SerializeKeeps ==
    ASSUME CodecInv, SerializeMember
    PROVE  CodecInv'
<1>0. PICK n : n = done + 1
  OBVIOUS
<1> DEFINE m == writer[n]
<1>1. /\ status = "writing" /\ status' = status /\ done < Len(writer) /\ done' = done + 1
      /\ writer' = writer /\ reader' = reader /\ result' = result
  BY DEF SerializeMember
<1>2. PICK value \in Values(m) :
         /\ object' = [name \in DOMAIN object \union {m.name} |->
                          IF name = m.name THEN value ELSE object[name]]
         /\ doc' = doc \o Serialized(m, value)
  BY <1>0 DEF SerializeMember
<1>3. /\ done \in 0..Len(writer) /\ Len(writer) \in Nat /\ Written = done /\ Written' = done + 1
      /\ DOMAIN writer = 1..Len(writer)
      /\ DOMAIN object = {writer[i].name : i \in 1..done}
      /\ \A i \in 1..done : Wrote(i) \in Values(writer[i])
      /\ doc \in Seq(Sendable)
      /\ \A k \in DOMAIN doc : \E i \in 1..done : Goes(writer[i], Wrote(i)) /\ doc[k] = EntryFor(i)
      /\ \A i \in 1..done : Goes(writer[i], Wrote(i)) => \E k \in DOMAIN doc : doc[k] = EntryFor(i)
  BY <1>1, MemberIs DEF CodecInv, DocumentIsSent, Written
<1>4. n \in Nat /\ n \in DOMAIN writer /\ m \in AnyRow /\ m.name \notin DOMAIN object
  <2>1. n \in DOMAIN writer /\ n \in Nat
    BY <1>0, <1>1, <1>3
  <2>2. m \in AnyRow
    BY <2>1, MemberIs
  <2>3. \A i \in 1..done : i \in DOMAIN writer /\ i # n
    BY <1>0, <1>1, <1>3
  <2> QED
    BY <1>3, <2>1, <2>2, <2>3, MemberIs
<1>5. DOMAIN object' = {writer'[i].name : i \in 1..n}
  <2>1. 1..n = 1..done \union {n}
    BY <1>0, <1>3
  <2> QED
    BY <1>1, <1>2, <1>3, <2>1
<1>6. Wrote(n)' = value
  BY <1>1, <1>2 DEF Wrote
<1>7. \A i \in 1..done : Wrote(i)' = Wrote(i) /\ EntryFor(i)' = EntryFor(i)
  <2>1. \A i \in 1..done : writer[i].name \in DOMAIN object
    BY <1>3
  <2>2. \A i \in 1..done : Wrote(i)' = Wrote(i)
    BY <1>1, <1>2, <1>4, <2>1 DEF Wrote
  <2> QED
    BY <1>1, <2>2 DEF EntryFor
<1>8. Serialized(m, value) = IF Goes(m, value) THEN <<EntryFor(n)'>> ELSE <<>>
  BY <1>1, <1>4, <1>6, SerializedIs DEF EntryFor
<1>9. EntryFor(n)' \in Sendable
  BY <1>1, <1>2, <1>4, <1>6 DEF Sendable, EntryFor
<1>10. /\ doc' \in Seq(Sendable)
       /\ DOMAIN doc' = DOMAIN doc \union (IF Goes(m, value) THEN {Len(doc) + 1} ELSE {})
       /\ \A k \in DOMAIN doc : doc'[k] = doc[k]
       /\ Goes(m, value) => doc'[Len(doc) + 1] = EntryFor(n)'
  <2>1. CASE Goes(m, value)
    <3>1. doc' = doc \o <<EntryFor(n)'>>
      BY <1>2, <1>8, <2>1
    <3> QED
      BY <1>3, <1>9, <2>1, <3>1
  <2>2. CASE ~Goes(m, value)
    <3>1. doc' = doc \o <<>>
      BY <1>2, <1>8, <2>2
    <3>2. doc' = doc
      BY <1>3, <3>1
    <3> QED
      BY <1>3, <2>2, <3>2
  <2> QED
    BY <2>1, <2>2
<1>11. \A i \in 1..n : i \in 1..done \/ i = n
  BY <1>0, <1>3
<1>12. \A i \in 1..n : Wrote(i)' \in Values(writer'[i])
  BY <1>1, <1>2, <1>3, <1>6, <1>7, <1>11
<1>13. \A k \in DOMAIN doc' : \E i \in 1..n : Goes(writer'[i], Wrote(i)') /\ doc'[k] = EntryFor(i)'
  <2>1. TAKE k \in DOMAIN doc'
  <2>2. CASE k \in DOMAIN doc
    <3>1. PICK i \in 1..done : Goes(writer[i], Wrote(i)) /\ doc[k] = EntryFor(i)
      BY <1>3, <2>2
    <3>2. i \in 1..n
      BY <1>0, <1>3
    <3> QED
      BY <1>1, <1>7, <1>10, <2>2, <3>1, <3>2
  <2>3. CASE k \notin DOMAIN doc
    <3>1. k = Len(doc) + 1 /\ Goes(m, value) /\ n \in 1..n
      BY <1>3, <1>4, <1>10, <2>3
    <3> QED
      BY <1>1, <1>6, <1>10, <3>1
  <2> QED
    BY <2>2, <2>3
<1>14. \A i \in 1..n : Goes(writer'[i], Wrote(i)') => \E k \in DOMAIN doc' : doc'[k] = EntryFor(i)'
  <2>1. TAKE i \in 1..n
  <2>2. HAVE Goes(writer'[i], Wrote(i)')
  <2>3. CASE i \in 1..done
    <3>1. PICK k \in DOMAIN doc : doc[k] = EntryFor(i)
      BY <1>1, <1>3, <1>7, <2>2, <2>3
    <3> QED
      BY <1>7, <1>10, <2>3, <3>1
  <2>4. CASE i = n
    BY <1>1, <1>6, <1>10, <2>2, <2>4
  <2> QED
    BY <1>11, <2>3, <2>4
<1> HIDE DEF m
<1>15. DocumentIsSent'
  <2>1. n \in 0..Len(writer') /\ Written' = n
    BY <1>0, <1>1, <1>3
  <2> QED
    BY  <1>5, <1>10, <1>12, <1>13, <1>14, <2>1 DEF DocumentIsSent
<1>16. ClassesDeclared'
  BY <1>1 DEF CodecInv, ClassesDeclared, ClassShape, Declared, Related, MembersOf
<1> QED
  BY <1>1, <1>15, <1>16 DEF CodecInv, ReadSoFar

(* Where only the variables of the reader change, what was written stands.*)
LEMMA WrittenStays ==
    ASSUME CodecInv, status # "declaring", status' \in {"reading", "accepted", "rejected"},
           status = "writing" => done = Len(writer),
           UNCHANGED <<writer, reader, object, doc>>
    PROVE  ClassesDeclared' /\ DocumentIsSent'
<1>1. Declared' = Declared /\ Written' = Written
  BY MemberIs DEF Declared, Written
<1>2. \A i : Wrote(i)' = Wrote(i) /\ EntryFor(i)' = EntryFor(i)
  BY DEF Wrote, EntryFor
<1>3. ClassesDeclared'
  BY <1>1 DEF CodecInv, ClassesDeclared, ClassShape, Related, MembersOf
<1>4. DocumentIsSent'
  BY <1>1, <1>2 DEF CodecInv, DocumentIsSent
<1> QED
  BY <1>3, <1>4

(* The reader begins with a new object.                                  *)
LEMMA DeserializeKeeps ==
    ASSUME CodecInv, Deserialize
    PROVE  CodecInv'
<1>1. /\ status = "writing" /\ done = Len(writer) /\ status' = "reading" /\ done' = 0
      /\ UNCHANGED <<writer, reader, object, doc>>
      /\ result' = [name \in NamesOfMembers(MembersOf(reader)) |->
                       Initial(CHOOSE m \in MembersOf(reader) : m.name = name)]
  BY DEF Deserialize
<1>2. ClassesDeclared' /\ DocumentIsSent'
  BY <1>1, WrittenStays
<1>3. \A i \in DOMAIN reader : result'[reader[i].name] = Initial(reader[i])
  <2>1. TAKE i \in DOMAIN reader
  <2>2. reader[i] \in MembersOf(reader) /\ reader[i].name \in NamesOfMembers(MembersOf(reader))
    BY MemberIs DEF NamesOfMembers
  <2>3. \A m \in MembersOf(reader) : m.name = reader[i].name => m = reader[i]
    BY MemberIs DEF MembersOf
  <2>4. (CHOOSE m \in MembersOf(reader) : m.name = reader[i].name) = reader[i]
    BY <2>2, <2>3
  <2> QED
    BY <1>1, <2>2, <2>4
<1>4. ReadSoFar'
  <2>1. \A i \in DOMAIN reader : ~(i <= 0)
    BY MemberIs
  <2>2. Len(reader) \in Nat /\ 1..0 = {}
    BY MemberIs
  <2>3. DOMAIN result' = NamesOfMembers(MembersOf(reader))'
    BY <1>1 DEF MembersOf, NamesOfMembers
  <2> QED
    BY <1>1, <1>3, <2>1, <2>2, <2>3 DEF ReadSoFar
<1> QED
  BY <1>2, <1>4 DEF CodecInv

-----------------------------------------------------------------------------
(* The values of a member, and whether they go into the document.        *)
LEMMA ValuesAre ==
    ASSUME NEW m \in AnyRow, NEW value \in Values(m)
    PROVE  /\ m.shape = "plain" => value = 1 \/ (value = Unset /\ m.opt = "optional")
           /\ m.shape = "array" => value \in Seq(Nat)
           /\ m.shape = "map" /\ value # <<>> =>
                /\ value = [k \in {Key} |-> value[Key]]
                /\ m.kind = "enum" => value[Key] \in Seq(Nat)
           /\ Goes(m, value) <=> /\ m.shape = "plain" => value # Unset
                                 /\ m.shape = "map" => value # <<>>
<1>1. m.shape \in {"plain", "array", "map"}
  BY RowIs
<1>2. CASE m.shape = "plain"
  <2>1. value = 1 \/ (value = Unset /\ m.opt = "optional")
    BY <1>2 DEF Values
  <2>2. Goes(m, value) <=> value # Unset
    BY <1>2, <2>1 DEF Goes, IsSent, Unset
  <2> QED
    BY <1>2, <2>1, <2>2
<1>3. CASE m.shape = "array"
  <2>1. <<>> \in Seq(Nat) /\ <<1, 0>> \in Seq(Nat)
    OBVIOUS
  <2> QED
    BY <1>3, <2>1, ShapeIs DEF Values, Goes, IsSent
<1>4. CASE m.shape = "map"
  <2>1. <<1, 0>> \in Seq(Nat)
    OBVIOUS
  <2>2. value = <<>> \/ value = [k \in {Key} |-> IF m.kind = "enum" THEN <<1, 0>> ELSE 1]
    BY <1>4 DEF Values
  <2>3. value # <<>> => value = [k \in {Key} |-> value[Key]] /\ (m.kind = "enum" => value[Key] = <<1, 0>>)
    BY <2>2
  <2>4. m.opt = "required"
    BY <1>4, ShapeIs
  <2> QED
    BY <1>4, <2>1, <2>3, <2>4 DEF Goes, IsSent
<1> QED
  BY <1>1, <1>2, <1>3, <1>4

(* The document while it is read: of every entry there is the member that*)
(* wrote it, and the other way round.                                    *)
LEMMA DocumentRead ==
    ASSUME CodecInv, status = "reading"
    PROVE  /\ \A i \in DOMAIN writer : Wrote(i) \in Values(writer[i])
           /\ DOMAIN object = NamesOfMembers(MembersOf(writer))
           /\ DOMAIN doc = 1..Len(doc) /\ Len(doc) \in Nat
           /\ \A k \in DOMAIN doc : \E i \in DOMAIN writer : Goes(writer[i], Wrote(i)) /\ doc[k] = EntryFor(i)
           /\ \A i \in DOMAIN writer : Goes(writer[i], Wrote(i)) => \E k \in DOMAIN doc : doc[k] = EntryFor(i)
<1>1. Written = Len(writer) /\ DOMAIN writer = 1..Len(writer)
  BY MemberIs DEF Written
<1>2. /\ DOMAIN object = {writer[i].name : i \in DOMAIN writer}
      /\ \A i \in DOMAIN writer : Wrote(i) \in Values(writer[i])
      /\ doc \in Seq(Sendable)
      /\ \A k \in DOMAIN doc : \E i \in DOMAIN writer : Goes(writer[i], Wrote(i)) /\ doc[k] = EntryFor(i)
      /\ \A i \in DOMAIN writer : Goes(writer[i], Wrote(i)) => \E k \in DOMAIN doc : doc[k] = EntryFor(i)
  BY <1>1 DEF CodecInv, DocumentIsSent
<1>3. DOMAIN object = NamesOfMembers(MembersOf(writer))
  BY <1>2 DEF NamesOfMembers, MembersOf
<1> QED
  BY <1>2, <1>3

(* The member of the writer's version that has the name of one of the    *)
(* reader's, and whether it was sent.                                    *)
LEMMA WriterOf ==
    ASSUME CodecInv, status = "reading", NEW m \in MembersOf(reader), NEW i \in DOMAIN writer,
           writer[i].name = m.name
    PROVE  /\ writer[i] \in AnyRow /\ m \in AnyRow /\ writer[i] \in Versions(m)
           /\ writer[i].shape = m.shape
           /\ Wrote(i) = object[m.name] /\ Wrote(i) \in Values(writer[i])
           /\ m.name \in DOMAIN object
           /\ Sent(m) <=> (m.shape = "plain" => Wrote(i) # Unset)
<1>1. writer[i] \in AnyRow /\ m \in AnyRow /\ writer[i] \in MembersOf(writer)
  BY MemberIs
<1>2. writer[i] \in Versions(m)
  BY <1>1 DEF CodecInv, ClassesDeclared, Related
<1>3. writer[i].shape = m.shape
  BY <1>1, <1>2, VersionsAre
<1>4. Wrote(i) = object[m.name] /\ Wrote(i) \in Values(writer[i])
  BY DocumentRead DEF Wrote
<1>5. m.name \in DOMAIN object
  BY <1>1, DocumentRead DEF NamesOfMembers
<1>6. \A w \in MembersOf(writer) : w.name = m.name => w = writer[i]
  BY MemberIs DEF MembersOf
<1> QED
  BY <1>1, <1>2, <1>3, <1>4, <1>5, <1>6 DEF Sent

(* A set of positions that is not empty has a first element.             *)
LEMMA FirstExists ==
    ASSUME NEW S, S \subseteq Nat, S # {}
    PROVE  \E m \in S : \A k \in S : m <= k
<1>1. PICK m \in S : \A j \in S : ~ (<<j, m>> \in OpToRel(<, Nat))
  BY NatLessThanWellFounded, WFMin
<1>2. \A j \in S : ~(j < m)
  BY <1>1 DEF OpToRel
<1> QED
  BY <1>2

(* FindMember finds what the member of that name wrote, if it was sent.  *)
LEMMA MemberIsFound ==
    ASSUME CodecInv, status = "reading", NEW m \in MembersOf(reader), m.shape # "map"
    PROVE  /\ ~Sent(m) => FindMember(m.name) = {}
           /\ \A i \in DOMAIN writer :
                writer[i].name = m.name /\ Sent(m) =>
                  FindMember(m.name) = {JsonOf(writer[i], Wrote(i))}
<1> DEFINE named == {k \in DOMAIN doc : doc[k].name = m.name}
<1>1. m \in AnyRow /\ m.name # Key
  BY MemberIs, RowIs
<1>2. \A k \in named : \E i \in DOMAIN writer :
         writer[i].name = m.name /\ Goes(writer[i], Wrote(i)) /\ doc[k].json = JsonOf(writer[i], Wrote(i))
  <2>1. TAKE k \in named
  <2>2. PICK i \in DOMAIN writer : Goes(writer[i], Wrote(i)) /\ doc[k] = EntryFor(i)
    BY <2>1, DocumentRead
  <2>3. doc[k].name = Title(writer[i]) /\ doc[k].json = JsonOf(writer[i], Wrote(i))
    BY <2>2 DEF EntryFor
  <2>4. writer[i].name = m.name
    BY <1>1, <2>1, <2>3 DEF Title
  <2> QED
    BY <2>2, <2>3, <2>4
<1>3. \A k \in named, i \in DOMAIN writer :
         writer[i].name = m.name => doc[k].json = JsonOf(writer[i], Wrote(i))
  BY <1>2, MemberIs
<1>4. named # {} => Sent(m)
  <2>1. SUFFICES ASSUME NEW k \in named PROVE Sent(m)
    OBVIOUS
  <2>2. PICK i \in DOMAIN writer : writer[i].name = m.name /\ Goes(writer[i], Wrote(i))
    BY <1>2
  <2> QED
    BY <2>2, WriterOf, ValuesAre
<1>5. FindMember(m.name) = {doc[k].json : k \in {j \in named : \A l \in 1..(j - 1) : doc[l].name # m.name}}
  BY DEF FindMember
<1>6. ~Sent(m) => FindMember(m.name) = {}
  BY <1>4, <1>5
<1>7. ASSUME NEW i \in DOMAIN writer, writer[i].name = m.name, Sent(m)
      PROVE  FindMember(m.name) = {JsonOf(writer[i], Wrote(i))}
  <2>1. Goes(writer[i], Wrote(i)) /\ writer[i].shape = m.shape
    BY <1>7, WriterOf, ValuesAre
  <2>2. PICK k \in DOMAIN doc : doc[k] = EntryFor(i)
    BY <2>1, DocumentRead
  <2>3. doc[k].name = m.name
    BY <1>7, <2>1, <2>2 DEF EntryFor, Title
  <2>4. named # {} /\ named \subseteq Nat
    BY <2>2, <2>3, DocumentRead
  <2> HIDE DEF named
  <2>5. PICK j \in named : \A l \in named : j <= l
    BY <2>4, FirstExists
  <2>6. \A l \in 1..(j - 1) : doc[l].name # m.name
    <3>1. TAKE l \in 1..(j - 1)
    <3>2. j \in 1..Len(doc) /\ Len(doc) \in Nat
      BY DocumentRead DEF named
    <3>3. l \in DOMAIN doc /\ ~(j <= l)
      BY <3>1, <3>2, DocumentRead
    <3> QED
      BY <2>5, <3>3 DEF named
  <2> QED
    BY <1>3, <1>5, <1>7, <2>5, <2>6
<1> QED
  BY <1>6, <1>7

(* A member that is no map is read as what was written, as in a new object*)
(* if it was not sent, or not at all.                                    *)
LEMMA PlainOrArrayIsRead ==
    ASSUME CodecInv, status = "reading", ~Unserved, NEW m \in MembersOf(reader), m.shape # "map",
           result[m.name] = Initial(m)
    PROVE  ReadMember(m, m.name) =
             IF Needed(m) /\ ~Sent(m) THEN {} ELSE {Understandable(m)}
<1>1. m \in AnyRow /\ m.shape \in {"plain", "array"}
  BY MemberIs, RowIs
<1>2. CASE ~Sent(m)
  <2>1. ReadMember(m, m.name) = Missing(m, m.name)
    BY <1>1, <1>2, MemberIsFound DEF ReadMember
  <2> QED
    BY <1>1, <1>2, <2>1 DEF Missing, Needed, Understandable
<1>3. CASE Sent(m)
  <2>1. PICK i \in DOMAIN writer : writer[i].name = m.name
    BY <1>3 DEF Sent, MembersOf
  <2> DEFINE w == writer[i]
             value == object[m.name]
  <2>2. /\ w \in AnyRow /\ w \in Versions(m) /\ w.shape = m.shape
        /\ Wrote(i) = value /\ value \in Values(w) /\ m.name \in DOMAIN object
    BY <2>1, WriterOf
  <2>3. FindMember(m.name) = {JsonOf(w, value)}
    BY <1>1, <1>3, <2>1, <2>2, MemberIsFound
  <2>4. Understandable(m) = value
    BY <1>3 DEF Understandable
  <2>5. CASE m.shape = "plain"
    <3>1. JsonOf(w, value) = Scalar(w, value)
      BY <2>2, <2>5 DEF JsonOf
    <3>2. Reads(m, Scalar(w, value)) /\ Scalar(w, value).value = value
      <4>1. Reads(m, Scalar(w, value))
        BY <1>1, <2>2, ScalarIsRead
      <4> QED
        BY <4>1 DEF Scalar
    <3> HIDE DEF w, value
    <3>3. ReadMember(m, m.name) = {json.value : json \in {j \in FindMember(m.name) : Reads(m, j)}}
      BY <2>3, <2>5 DEF ReadMember
    <3>4. ReadMember(m, m.name) = {value}
      BY <2>3, <3>1, <3>2, <3>3
    <3> QED
      BY <1>3, <2>4, <3>4
  <2>6. CASE m.shape = "array"
    <3>1. m.kind # "string"
      BY <2>2, <2>6 DEF Unserved
    <3>2. JsonOf(w, value) = Array(w, value)
      BY <2>2, <2>6 DEF JsonOf
    <3>3. value \in Seq(Nat)
      BY <2>2, <2>6, ValuesAre
    <3>4. ReadsArray(m, Array(w, value)) /\ Elements(Array(w, value)) = value
      <4>1. ReadsArray(m, Array(w, value))
        BY <1>1, <2>2, <3>1, ArrayIsRead
      <4>2. Elements(Array(w, value)) = value
        BY <3>3, ArrayElements
      <4> QED
        BY <4>1, <4>2
    <3>5. result[m.name] = <<>>
      BY <2>6 DEF Initial
    <3> HIDE DEF w, value
    <3>6. ReadMember(m, m.name) = {(IF m.kind = "number" THEN <<>> ELSE result[m.name]) \o Elements(json) :
                                      json \in {j \in FindMember(m.name) : ReadsArray(m, j)}}
      BY <2>3, <2>6 DEF ReadMember
    <3>7. ReadMember(m, m.name) = {<<>> \o value}
      BY <2>3, <3>2, <3>4, <3>5, <3>6
    <3>8. <<>> \o value = value
      BY <3>3
    <3> QED
      BY <1>3, <2>4, <3>7, <3>8
  <2> QED
    BY <1>1, <2>5, <2>6
<1> QED
  BY <1>2, <1>3

(* An entry that a map takes was written by the map's own member.        *)
TakenBy(m) == {k \in DOMAIN doc : m.kind = "enum" \/ Takes(m, doc[k])}

(* Otherwise the schema is one the printed code does not serve.            *)
LEMMA TakenIsOwn ==
    ASSUME CodecInv, status = "reading", ~Unserved, NEW m \in MembersOf(reader), m.shape = "map",
           NEW k \in TakenBy(m)
    PROVE  \E i \in DOMAIN writer :
             writer[i].name = m.name /\ Goes(writer[i], Wrote(i)) /\ doc[k] = EntryFor(i)
<1>1. PICK i \in DOMAIN writer : Goes(writer[i], Wrote(i)) /\ doc[k] = EntryFor(i)
  BY DocumentRead DEF TakenBy
<1> DEFINE w == writer[i]
<1>2. w \in AnyRow /\ m \in AnyRow /\ w \in MembersOf(writer)
  BY MemberIs
<1>3. m.kind \in {"number", "string", "enum"}
  BY <1>2, ShapeIs
<1>4. SUFFICES ASSUME w.name # m.name PROVE MistakenFor(m, w)
  <2>1. MistakenFor(m, w) => w.name = m.name
    BY <1>2 DEF Unserved
  <2> QED
    BY <1>1, <1>4, <2>1
<1>5. /\ doc[k].name = Title(w)
      /\ doc[k].json.is = IF w.shape = "array" \/ (w.shape = "map" /\ w.kind = "enum") THEN "array"
                          ELSE TypeSent(w)
  <2>1. doc[k].name = Title(w) /\ doc[k].json = JsonOf(w, Wrote(i))
    BY <1>1 DEF EntryFor
  <2>2. w.shape \in {"plain", "array", "map"}
    BY <1>2, RowIs
  <2> QED
    BY <2>1, <2>2 DEF JsonOf, Scalar, Array
<1>6. CASE m.kind = "enum"
  BY <1>6 DEF MistakenFor
<1>7. CASE m.kind = "number"
  <2>1. doc[k].json.is \in {"string", "name", "number", "real"}
    BY <1>7 DEF TakenBy, Takes, Reads, IsString, IsNumber
  <2> HIDE DEF w
  <2> QED
    BY <1>5, <1>7, <2>1 DEF MistakenFor
<1>8. CASE m.kind = "string"
  <2>1. doc[k].json.is \in {"string", "name"} /\ ~(Filters(m) /\ IsMember(m, doc[k].name))
    BY <1>8 DEF TakenBy, Takes, Reads, IsString
  <2>2. w.shape \in {"plain", "array", "map"} /\ w.kind \in {"number", "real", "bool", "string", "enum", "class"}
    BY <1>2, RowIs
  <2>3. w.shape = "map" => w.kind \in {"number", "string", "enum"}
    BY <1>2, ShapeIs
  <2> HIDE DEF w
  <2>4. CASE w.shape = "plain"
    BY <1>5, <1>8, <2>1, <2>4 DEF MistakenFor, Title
  <2>5. CASE w.shape = "map"
    BY <1>5, <1>8, <2>1, <2>3, <2>5 DEF MistakenFor, TypeSent
  <2> QED
    BY <1>5, <2>1, <2>2, <2>4, <2>5
<1> QED
  BY <1>3, <1>6, <1>7, <1>8

(* A map is read as the map that was written, or is empty if none was.   *)
LEMMA MapIsRead ==
    ASSUME CodecInv, status = "reading", ~Unserved, NEW m \in MembersOf(reader), m.shape = "map"
    PROVE  ReadMember(m, m.name) = {Understandable(m)}
<1> DEFINE taken == TakenBy(m)
           last(name) == CHOOSE i \in taken : doc[i].name = name
                                  /\ \A j \in taken : doc[j].name = name => j <= i
           map == [name \in {doc[i].name : i \in taken} |->
                     LET json == doc[last(name)].json
                     IN  IF m.kind = "enum" THEN Elements(json) ELSE json.value]
<1>1. ReadMember(m, m.name) =
        IF m.kind = "enum" /\ \E i \in taken : ~ReadsArray(m, doc[i].json) THEN {} ELSE {map}
  BY DEF ReadMember, ReadMap, TakenBy
<1>2. m \in AnyRow /\ m.kind \in {"number", "string", "enum"} /\ m.name # Key
  BY MemberIs, ShapeIs, RowIs
<1>3. CASE taken = {}
  <2>1. map = <<>>
    BY <1>3
  <2>2. Understandable(m) = <<>>
    <3>1. CASE ~Sent(m)
      BY <3>1 DEF Understandable, Initial
    <3>2. CASE Sent(m)
      <4>1. PICK i \in DOMAIN writer : writer[i].name = m.name
        BY <3>2 DEF Sent, MembersOf
      <4>2. Wrote(i) = object[m.name] /\ writer[i] \in AnyRow /\ writer[i] \in Versions(m)
            /\ Wrote(i) \in Values(writer[i]) /\ writer[i].shape = "map" /\ writer[i].kind = m.kind
        BY <1>2, <4>1, WriterOf, VersionsAre
      <4>3. SUFFICES ASSUME Wrote(i) # <<>> PROVE FALSE
        BY <3>2, <4>2 DEF Understandable
      <4>4. PICK k \in DOMAIN doc : doc[k] = EntryFor(i)
        BY <4>2, <4>3, ValuesAre, DocumentRead
      <4>5. k \in taken
        <5>1. CASE m.kind = "enum"
          BY <5>1 DEF TakenBy
        <5>2. CASE m.kind # "enum"
          <6>1. doc[k].json = Scalar(writer[i], Wrote(i)[Key]) /\ doc[k].name = Key
            BY <4>2, <4>4, <5>2 DEF EntryFor, JsonOf, Title
          <6>2. Reads(m, doc[k].json)
            BY <1>2, <4>2, <6>1, ScalarIsRead
          <6>3. ~IsMember(m, Key)
            BY MemberIs, RowIs DEF IsMember
          <6> QED
            BY <6>1, <6>2, <6>3 DEF TakenBy, Takes
        <5> QED
          BY <5>1, <5>2
      <4> QED
        BY <1>3, <4>5
    <3> QED
      BY <3>1, <3>2
  <2> QED
    BY <1>1, <1>3, <2>1, <2>2
<1>4. CASE taken # {}
  <2>1. PICK i \in DOMAIN writer : writer[i].name = m.name /\ Goes(writer[i], Wrote(i))
    BY <1>4, TakenIsOwn
  <2> DEFINE w == writer[i]
             value == object[m.name]
  <2>2. /\ w \in AnyRow /\ w \in Versions(m) /\ w.shape = "map"
        /\ Wrote(i) = value /\ value \in Values(w) /\ Sent(m) /\ w.kind = m.kind
    BY <1>2, <2>1, WriterOf, VersionsAre
  <2>3. \A k \in taken : doc[k].name = Key /\ doc[k].json = JsonOf(w, value)
    <3>1. TAKE k \in taken
    <3>2. PICK j \in DOMAIN writer : writer[j].name = m.name /\ doc[k] = EntryFor(j)
      BY TakenIsOwn
    <3>3. j = i
      BY <2>1, <3>2, MemberIs
    <3> QED
      BY <2>2, <3>2, <3>3 DEF EntryFor, Title
  <2>4. value = [n \in {Key} |-> value[Key]] /\ (m.kind = "enum" => value[Key] \in Seq(Nat))
    BY <2>1, <2>2, ValuesAre
  <2>5. /\ {doc[k].name : k \in taken} = {Key}
        /\ last(Key) \in taken
    <3>1. \A k \in taken : doc[k].name = Key
      BY <2>3
    <3>2. Len(doc) \in Nat /\ taken \subseteq 1..Len(doc)
      BY DocumentRead DEF TakenBy
    <3>3. PICK k \in taken : \A j \in taken : j <= k
      BY <1>4, <3>2, LastExists
    <3>4. doc[k].name = Key /\ \A j \in taken : doc[j].name = Key => j <= k
      BY <3>1, <3>3
    <3>5. last(Key) \in taken
      BY <3>4
    <3> HIDE DEF last
    <3> QED
      BY <1>4, <3>1, <3>5
  <2>6. /\ JsonOf(w, value) = IF m.kind = "enum" THEN Array(w, value[Key]) ELSE Scalar(w, value[Key])
        /\ m.kind = "enum" => ReadsArray(m, Array(w, value[Key])) /\ Elements(Array(w, value[Key])) = value[Key]
        /\ Scalar(w, value[Key]).value = value[Key]
    <3>1. JsonOf(w, value) = IF m.kind = "enum" THEN Array(w, value[Key]) ELSE Scalar(w, value[Key])
      BY <2>2 DEF JsonOf
    <3>2. m.kind = "enum" => ReadsArray(m, Array(w, value[Key]))
      BY <1>2, <2>2, ArrayIsRead
    <3>3. m.kind = "enum" => Elements(Array(w, value[Key])) = value[Key]
      BY <2>4, ArrayElements
    <3>4. Scalar(w, value[Key]).value = value[Key]
      BY DEF Scalar
    <3> QED
      BY <3>1, <3>2, <3>3, <3>4
  <2> HIDE DEF w, value, last, taken
  <2>7. map = [n \in {Key} |-> value[Key]]
    <3>1. \A n \in {Key} :
            (IF m.kind = "enum" THEN Elements(doc[last(n)].json) ELSE doc[last(n)].json.value) = value[Key]
      BY <2>3, <2>5, <2>6
    <3>2. map = [n \in {Key} |-> IF m.kind = "enum" THEN Elements(doc[last(n)].json)
                                 ELSE doc[last(n)].json.value]
      BY <2>5
    <3> QED
      BY <3>1, <3>2
  <2>8. ~(m.kind = "enum" /\ \E k \in taken : ~ReadsArray(m, doc[k].json))
    BY <2>3, <2>6
  <2>9. map = value
    BY <2>4, <2>7
  <2> HIDE DEF map
  <2>10. ReadMember(m, m.name) = {value}
    BY <1>1, <2>8, <2>9
  <2> QED
    BY <2>2, <2>10 DEF Understandable, value
<1> QED
  BY <1>3, <1>4

(* What deserializeFrom makes of a member of a class that is served.     *)
LEMMA MemberIsRead ==
    ASSUME CodecInv, status = "reading", ~Unserved, NEW m \in MembersOf(reader),
           result[m.name] = Initial(m)
    PROVE  ReadMember(m, Target(m)) =
             IF Needed(m) /\ ~Sent(m) THEN {} ELSE {Understandable(m)}
<1>1. Target(m) = m.name
  BY DEF Unserved
<1>2. CASE m.shape = "map"
  <2>1. ~Needed(m)
    BY <1>2 DEF Needed
  <2> QED
    BY <1>1, <1>2, <2>1, MapIsRead
<1>3. CASE m.shape # "map"
  BY <1>1, <1>3, PlainOrArrayIsRead
<1> QED
  BY <1>2, <1>3

(* What is asked of the two classes and of the object does not change    *)
(* while the document is read.                                           *)
LEMMA SentStays ==
    ASSUME UNCHANGED <<writer, reader, object>>
    PROVE  /\ Unserved' = Unserved
           /\ MembersOf(reader)' = MembersOf(reader)
           /\ \A m : Sent(m)' = Sent(m) /\ Understandable(m)' = Understandable(m)
<1>1. MembersOf(reader)' = MembersOf(reader) /\ MembersOf(writer)' = MembersOf(writer)
  BY DEF MembersOf
<1>2. \A m : Sent(m)' = Sent(m)
  BY <1>1 DEF Sent
<1>3. \A m : Understandable(m)' = Understandable(m)
  BY <1>2 DEF Understandable
<1>4. \A map, m : MistakenFor(map, m)' = MistakenFor(map, m)
  BY <1>1 DEF MistakenFor, Filters, IsMember
<1>5. Unserved' = Unserved
  BY <1>1, <1>4 DEF Unserved
<1> QED
  BY <1>1, <1>2, <1>3, <1>5

(* A member is read, or the document is rejected.                        *)
LEMMA DeserializeMemberKeeps ==
    ASSUME CodecInv, DeserializeMember
    PROVE  CodecInv'
<1>0. PICK n : n = done + 1
  OBVIOUS
<1> DEFINE m == reader[n]
           read == ReadMember(m, Target(m))
<1>1. /\ status = "reading" /\ done < Len(reader)
      /\ UNCHANGED <<writer, reader, object, doc>>
      /\ \/ read = {} /\ status' = "rejected" /\ UNCHANGED <<done, result>>
         \/ /\ \E value \in read : result' = [result EXCEPT ![Target(m)] = value]
            /\ done' = n /\ UNCHANGED status
  BY <1>0 DEF DeserializeMember
<1>2. /\ done \in 0..Len(reader) /\ Len(reader) \in Nat /\ DOMAIN reader = 1..Len(reader)
      /\ DOMAIN result = NamesOfMembers(MembersOf(reader))
      /\ n \in DOMAIN reader /\ n \in Nat /\ done \in Nat
      /\ \A i \in 1..n : i \in 1..done \/ i = n
  BY <1>0, <1>1, MemberIs DEF CodecInv, ReadSoFar
<1>3. m \in MembersOf(reader) /\ m \in AnyRow
  BY <1>2, MemberIs
<1>4. ClassesDeclared' /\ DocumentIsSent'
  BY <1>1, WrittenStays
<1>5. done' \in 0..Len(reader) /\ DOMAIN result' = DOMAIN result /\ status' \in {"reading", "rejected"}
  BY <1>1, <1>2
<1>6. /\ Unserved' = Unserved
      /\ MembersOf(reader)' = MembersOf(reader)
      /\ \A a : Sent(a)' = Sent(a) /\ Understandable(a)' = Understandable(a)
  BY <1>1, SentStays
<1>7. ASSUME ~Unserved
      PROVE  /\ \A i \in DOMAIN reader :
                  result'[reader[i].name] = IF i <= done' THEN Understandable(reader[i]) ELSE Initial(reader[i])
             /\ \A i \in 1..done' : Needed(reader[i]) => Sent(reader[i])
             /\ status' = "rejected" => \E a \in MembersOf(reader) : Needed(a) /\ ~Sent(a)
  <2>1. /\ \A i \in DOMAIN reader :
             result[reader[i].name] = IF i <= done THEN Understandable(reader[i]) ELSE Initial(reader[i])
        /\ \A i \in 1..done : Needed(reader[i]) => Sent(reader[i])
    BY <1>1, <1>7 DEF CodecInv, ReadSoFar
  <2>2. result[m.name] = Initial(m)
    BY <1>0, <1>2, <2>1
  <2>3. read = IF Needed(m) /\ ~Sent(m) THEN {} ELSE {Understandable(m)}
    BY <1>1, <1>3, <1>7, <2>2, MemberIsRead
  <2>4. Target(m) = m.name
    BY <1>3, <1>7 DEF Unserved
  <2>5. \A i \in DOMAIN reader : reader[i].name = m.name => i = n
    BY <1>2, MemberIs
  <2>6. \A i \in DOMAIN reader : reader[i].name \in DOMAIN result
    BY <1>2, MemberIs DEF NamesOfMembers
  <2> HIDE DEF m, read
  <2>7. CASE read = {} /\ status' = "rejected" /\ UNCHANGED <<done, result>>
    BY <1>3, <2>1, <2>3, <2>7
  <2>8. CASE /\ \E value \in read : result' = [result EXCEPT ![Target(m)] = value]
             /\ done' = n /\ UNCHANGED status
    <3>1. result' = [result EXCEPT ![m.name] = Understandable(m)] /\ (Needed(m) => Sent(m))
      BY <2>3, <2>4, <2>8
    <3>2. ASSUME NEW i \in DOMAIN reader
          PROVE  result'[reader[i].name] = IF i <= n THEN Understandable(reader[i]) ELSE Initial(reader[i])
      <4>1. CASE i = n
        BY <1>2, <2>6, <3>1, <4>1 DEF m
      <4>2. CASE i # n
        <5>1. reader[i].name # m.name
          BY <2>5, <4>2
        <5>2. result'[reader[i].name] = result[reader[i].name]
          BY <2>6, <3>1, <5>1
        <5>3. i <= n <=> i <= done
          BY <1>0, <1>2, <4>2
        <5> QED
          BY <2>1, <5>2, <5>3
      <4> QED
        BY <4>1, <4>2
    <3>3. \A i \in 1..n : Needed(reader[i]) => Sent(reader[i])
      BY <1>2, <2>1, <3>1 DEF m
    <3> QED
      BY <1>1, <2>8, <3>2, <3>3
  <2> QED
    BY <1>1, <2>7, <2>8
<1>8. ReadSoFar'
  BY <1>1, <1>2, <1>5, <1>6, <1>7 DEF ReadSoFar, Needed
<1> QED
  BY <1>4, <1>8 DEF CodecInv

(* All members are read.                                                 *)
LEMMA AcceptKeeps ==
    ASSUME CodecInv, Accept
    PROVE  CodecInv'
<1>1. /\ status = "reading" /\ done = Len(reader) /\ status' = "accepted"
      /\ UNCHANGED <<writer, reader, object, doc, done, result>>
  BY DEF Accept
<1>2. ClassesDeclared' /\ DocumentIsSent'
  BY <1>1, WrittenStays
<1>3. /\ Unserved' = Unserved
      /\ MembersOf(reader)' = MembersOf(reader)
      /\ \A m : Sent(m)' = Sent(m) /\ Understandable(m)' = Understandable(m)
  BY <1>1, SentStays
<1>4. ReadSoFar'
  BY <1>1, <1>3 DEF CodecInv, ReadSoFar, Needed, NamesOfMembers
<1> QED
  BY <1>2, <1>4 DEF CodecInv

(* Nothing happens in the code.                                          *)
LEMMA CodecStutters ==
    ASSUME CodecInv, UNCHANGED codecVars
    PROVE  CodecInv'
<1>1. UNCHANGED <<writer, reader, object, doc, done, result, status>>
  BY DEF codecVars
<1>2. Declared' = Declared /\ Written' = Written
  BY <1>1 DEF Declared, Written
<1>3. \A i : Wrote(i)' = Wrote(i) /\ EntryFor(i)' = EntryFor(i)
  BY <1>1 DEF Wrote, EntryFor
<1>4. ClassesDeclared'
  BY <1>1, <1>2 DEF CodecInv, ClassesDeclared, ClassShape, Related, MembersOf
<1>5. DocumentIsSent'
  BY <1>1, <1>2, <1>3 DEF CodecInv, DocumentIsSent
<1>6. ReadSoFar'
  BY <1>1, SentStays DEF CodecInv, ReadSoFar, Needed, NamesOfMembers
<1> QED
  BY <1>4, <1>5, <1>6 DEF CodecInv

(* Every step keeps the invariant.                                       *)
LEMMA CodecStepKeeps ==
    ASSUME CodecInv, [CodecNext]_codecVars
    PROVE  CodecInv'
<1>1. CASE Declare
  BY <1>1, DeclareKeeps
<1>2. CASE Generate
  BY <1>2, GenerateKeeps
<1>3. CASE SerializeMember
  BY <1>3, SerializeKeeps
<1>4. CASE Deserialize
  BY <1>4, DeserializeKeeps
<1>5. CASE DeserializeMember
  BY <1>5, DeserializeMemberKeeps
<1>6. CASE Accept
  BY <1>6, AcceptKeeps
<1>7. CASE UNCHANGED codecVars
  BY <1>7, CodecStutters
<1> QED
  BY <1>1, <1>2, <1>3, <1>4, <1>5, <1>6, <1>7 DEF CodecNext

(* The invariant says of a document that was read what Understood does.  *)
LEMMA InvUnderstands ==
    ASSUME CodecInv
    PROVE  Understood
<1>1. SUFFICES ASSUME status \in {"accepted", "rejected"}, ~Unserved
               PROVE  /\ status = "accepted" <=> \A m \in MembersOf(reader) : Needed(m) => Sent(m)
                      /\ status = "accepted" =>
                            \A m \in MembersOf(reader) :
                               result[m.name] = IF Sent(m) THEN object[m.name] ELSE Initial(m)
  BY DEF Understood
<1>2. /\ status = "accepted" => done = Len(reader)
      /\ \A i \in DOMAIN reader :
            result[reader[i].name] = IF i <= done THEN Understandable(reader[i]) ELSE Initial(reader[i])
      /\ \A i \in 1..done : Needed(reader[i]) => Sent(reader[i])
      /\ status = "rejected" => \E m \in MembersOf(reader) : Needed(m) /\ ~Sent(m)
  BY <1>1 DEF CodecInv, ReadSoFar
<1>3. CASE status = "rejected"
  BY <1>2, <1>3
<1>4. CASE status = "accepted"
  <2>1. DOMAIN reader = 1..done /\ \A i \in DOMAIN reader : i <= done
    BY <1>2, <1>4, MemberIs
  <2>2. \A i \in DOMAIN reader : result[reader[i].name] = Understandable(reader[i])
    BY <1>2, <2>1
  <2>3. \A m \in MembersOf(reader) :
          (Needed(m) => Sent(m)) /\ result[m.name] = IF Sent(m) THEN object[m.name] ELSE Initial(m)
    BY <1>2, <2>1, <2>2 DEF MembersOf, Understandable
  <2> QED
    BY <1>4, <2>3
<1> QED
  BY <1>1, <1>3, <1>4

(* For any names and any number of members, of both classes and in any two*)
(* versions that the reader is to take: a document is accepted if and only*)
(* if what the reader needs was sent, and each member is then what was   *)
(* written or as in a new object (Object::saveDeserialize,               *)
(* CreateDOM.cpp:811-1616).                                              *)
THEOREM UnderstoodAlways == CodecSpec => []Understood
<1>1. CodecInit => CodecInv
  BY CodecStarts
<1>2. CodecInv /\ [CodecNext]_codecVars => CodecInv'
  BY CodecStepKeeps
<1>3. CodecInv => Understood
  BY InvUnderstands
<1> QED
  BY <1>1, <1>2, <1>3, PTL DEF CodecSpec
================================================================================
