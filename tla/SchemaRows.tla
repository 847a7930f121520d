----------------------------- MODULE SchemaRows -----------------------------
(***************************************************************************)
(* CreateDOMDef: the row machine that turns CSV files into the object      *)
(* model (src/src/CreateDOM.cpp 4271-4366 and 4489-4724).                  *)
(*                                                                         *)
(* parseCSV splits the file into rows, hands each row that ends in a line  *)
(* feed to processArgs, and finishes with importComplete.  An object row   *)
(* opens mCurrentObject, the item rows that follow fill it, and it reaches *)
(* mDOM.mObjects only when the next object row or the end of the file      *)
(* arrives.  One CreateDOM may parse several files into one DOM.           *)
(***************************************************************************)
EXTENDS SchemaImport

CONSTANTS Rows,         \* the rows a file may hold, a subset of Row
          MaxRows,      \* bound: rows over all files
          MaxFiles      \* bound: calls of parseCSV

(* A row as processArgs sees it: what its first cell makes of it, and the  *)
(* cells of it that matter.  "skip" is a row that changes nothing: the     *)
(* "ObjectName" header, a row of blank cells, a setting without a value.   *)
SettingKinds == {"Filename", "Namespace", "POD", "ExportXML", "URL"}

Row ==
    [kind: {"object"}, mName: Names, mType: ObjectTypes \union {Blank},
     mInheritsFrom: Names \union {Blank}]
      \union [kind: {"item"}, mType: MemberTypes, mIsArray: BOOLEAN, mIsPointer: BOOLEAN]
      \union [kind: SettingKinds \union {"EOF", "skip"}]

ASSUME RowsAssumption ==
    /\ Rows \subseteq Row
    /\ MaxRows \in Nat
    /\ MaxFiles \in Nat

VARIABLES parsing,          \* inside parseCSV's loop
          mEndOfFile,
          mHaveObject,
          mCurrentObject,
          mObjects,         \* mDOM.mObjects
          mObjectMap,       \* mDOM.mObjectMap, name |-> pointer into mObjects
          settings,         \* which of the DOM's settings a row set
          log               \* history: the rows processArgs was given, files
                            \* separated by "end"

vars == <<parsing, mEndOfFile, mHaveObject, mCurrentObject, mObjects,
          mObjectMap, settings, log>>

(* Types; what the vector holds was opened by an object row, so it has a   *)
(* name.                                                                   *)
TypeOK ==
    /\ parsing \in BOOLEAN
    /\ mEndOfFile \in BOOLEAN
    /\ mHaveObject \in BOOLEAN
    /\ mCurrentObject \in Object
    /\ mObjects \in Seq(Object)
    /\ \A i \in DOMAIN mObjects : mObjects[i].mName \in Names
    /\ mHaveObject => mCurrentObject.mName \in Names
    /\ DOMAIN mObjectMap \subseteq Names
    /\ \A n \in DOMAIN mObjectMap : mObjectMap[n] \in DOMAIN mObjects \union {Dangling}
    /\ settings \subseteq SettingKinds
    /\ log \in Seq(Row \union {[kind |-> "end"]})

Init ==
    /\ parsing = FALSE
    /\ mEndOfFile = FALSE
    /\ mHaveObject = FALSE
    /\ mCurrentObject = EmptyObject
    /\ mObjects = <<>>
    /\ mObjectMap = [n \in {} |-> Dangling]
    /\ settings = {}
    /\ log = <<>>

-----------------------------------------------------------------------------
FilesRead == Cardinality({i \in DOMAIN log : log[i].kind = "end"})
RowsRead  == Len(log) - FilesRead

(* parseCSV opens and reads a file with something in it.  When it cannot   *)
(* open the file it returns at once and nothing changes, which is a        *)
(* stutter.                                                                *)
OpenFile ==
    /\ ~parsing
    /\ FilesRead < MaxFiles
    /\ parsing' = TRUE
    /\ mEndOfFile' = FALSE
    /\ UNCHANGED <<mHaveObject, mCurrentObject, mObjects, mObjectMap, settings, log>>

(* The loop reads another row as long as no EOF row was seen. *)
NextRow(r) ==
    /\ parsing
    /\ ~mEndOfFile
    /\ RowsRead < MaxRows
    /\ log' = Append(log, r)
    /\ UNCHANGED parsing

EOFRow(r) ==
    /\ r.kind = "EOF"
    /\ NextRow(r)
    /\ mEndOfFile' = TRUE
    /\ UNCHANGED <<mHaveObject, mCurrentObject, mObjects, mObjectMap, settings>>

SettingRow(r) ==
    /\ r.kind \in SettingKinds
    /\ NextRow(r)
    /\ settings' = settings \union {r.kind}
    /\ UNCHANGED <<mEndOfFile, mHaveObject, mCurrentObject, mObjects, mObjectMap>>

SkipRow(r) ==
    /\ r.kind = "skip"
    /\ NextRow(r)
    /\ UNCHANGED <<mEndOfFile, mHaveObject, mCurrentObject, mObjects, mObjectMap, settings>>

(* Mutant: mCurrentObject is pushed whether or not an object row opened it. *)
PushAlways == Append(mObjects, mCurrentObject)

(* The vector after mCurrentObject was pushed, if an object row opened it. *)
PushCurrent == IF mHaveObject THEN Append(mObjects, mCurrentObject) ELSE mObjects

(* A push_back may move the objects to a larger storage: all pointers into *)
(* the old one dangle.                                                     *)
Moved(table) == [n \in DOMAIN table |-> Dangling]
TableAfterPush == IF mHaveObject THEN {mObjectMap, Moved(mObjectMap)} ELSE {mObjectMap}

(* The object that stays in mCurrentObject: clear() runs only with a push. *)
Cleared == IF mHaveObject THEN EmptyObject ELSE mCurrentObject

(* Every object of the vector the new row names as its base learns of it.  *)
AddChild(objs, base, name) ==
    [i \in DOMAIN objs |->
        IF base # Blank /\ objs[i].mName = base
        THEN [objs[i] EXCEPT !.mChildren = Append(@, name)]
        ELSE objs[i]]

(* Mutant: the base is looked up before the open object is pushed. *)
ObjectRowRegistersFirst(r) ==
    /\ r.kind = "object"
    /\ NextRow(r)
    /\ mObjects' = LET known == AddChild(mObjects, r.mInheritsFrom, r.mName)
                   IN  IF mHaveObject THEN Append(known, mCurrentObject) ELSE known
    /\ mCurrentObject' = [Cleared EXCEPT !.mName = r.mName, !.mType = r.mType,
                                         !.mInheritsFrom = r.mInheritsFrom]
    /\ mObjectMap' \in TableAfterPush
    /\ mHaveObject' = TRUE
    /\ UNCHANGED <<mEndOfFile, settings>>

ObjectRow(r) ==
    /\ r.kind = "object"
    /\ NextRow(r)
    /\ mObjects' = AddChild(PushCurrent, r.mInheritsFrom, r.mName)
    /\ mCurrentObject' = [Cleared EXCEPT !.mName = r.mName, !.mType = r.mType,
                                         !.mInheritsFrom = r.mInheritsFrom]
    /\ mObjectMap' \in TableAfterPush
    /\ mHaveObject' = TRUE
    /\ UNCHANGED <<mEndOfFile, settings>>

NewMember(r) ==
    [row |-> Len(log) + 1, mType |-> r.mType, mIsArray |-> r.mIsArray,
     mIsPointer |-> r.mIsPointer, mNeedsReflection |-> FALSE]

(* An item row fills mCurrentObject whether or not an object row opened it. *)
ItemRow(r) ==
    /\ r.kind = "item"
    /\ NextRow(r)
    /\ mCurrentObject' = [mCurrentObject EXCEPT !.mItems = Append(@, NewMember(r))]
    /\ UNCHANGED <<mEndOfFile, mHaveObject, mObjects, mObjectMap, settings>>

ProcessArgs(r) == EOFRow(r) \/ SettingRow(r) \/ SkipRow(r) \/ ObjectRow(r) \/ ItemRow(r)

(* What importComplete leaves of the objects and of the lookup table. *)
Imported ==
    /\ mObjects' = ImportComplete(PushCurrent)
    /\ \E table \in TableAfterPush : mObjectMap' = LookupTable(table, PushCurrent)

(* Mutants: the end of the file pushes the open object but does not clear  *)
(* it, or clears it and leaves mHaveObject set.                            *)
EndFileNoClear ==
    /\ parsing' = FALSE
    /\ Imported
    /\ mHaveObject' = FALSE
    /\ log' = Append(log, [kind |-> "end"])
    /\ UNCHANGED <<mEndOfFile, mCurrentObject, settings>>
EndFileKeepsHave ==
    /\ parsing' = FALSE
    /\ Imported
    /\ mCurrentObject' = Cleared
    /\ log' = Append(log, [kind |-> "end"])
    /\ UNCHANGED <<mEndOfFile, mHaveObject, settings>>

(* The end of parseCSV: the open object is pushed and importComplete runs  *)
(* over all objects of the DOM, those of earlier files too.                *)
EndFile ==
    /\ parsing' = FALSE
    /\ Imported
    /\ mCurrentObject' = Cleared
    /\ mHaveObject' = FALSE
    /\ log' = Append(log, [kind |-> "end"])
    /\ UNCHANGED <<mEndOfFile, settings>>

(* The file ended, or an EOF row stopped the loop, or the file ends inside *)
(* a row: then the row was split into cells, but processArgs is called     *)
(* only at a line feed, and the row changes nothing.                       *)
FinishFile ==
    /\ parsing
    /\ EndFile

(* A file of no bytes, or one that cannot be read, has no loop. *)
EmptyFile ==
    /\ ~parsing
    /\ FilesRead < MaxFiles
    /\ EndFile

Next ==
    \/ OpenFile
    \/ \E r \in Rows : ProcessArgs(r)
    \/ FinishFile
    \/ EmptyFile

Spec == Init /\ [][Next]_vars
-----------------------------------------------------------------------------
(* mDOM.mObjects and, behind it, the object still being read. *)
Documents == Append(mObjects, mCurrentObject)

(* The members of all documents, by document and position. *)
Members == UNION {{<<d, k>> : k \in DOMAIN Documents[d].mItems} : d \in DOMAIN Documents}
MemberAt(p) == Documents[p[1]].mItems[p[2]]

(* No member is lost, invented or read twice: the members of the documents *)
(* are the item rows read so far, each once, with the type its row gave.   *)
(* What could break it is a push, a clear or an append too many or too few *)
(* at a file or object boundary (lines 4356-4361, 4546-4550, 4717).        *)
ItemsConserved ==
    /\ \A p \in Members : /\ MemberAt(p).row \in DOMAIN log
                          /\ log[MemberAt(p).row].kind = "item"
                          /\ log[MemberAt(p).row].mType = MemberAt(p).mType
    /\ \A i \in DOMAIN log : log[i].kind = "item" => \E p \in Members : MemberAt(p).row = i
    /\ \A p, q \in Members : MemberAt(p).row = MemberAt(q).row => p = q

(* The last object row at or before row i of the same file, if any. *)
OpenedBy(i) ==
    {h \in 1 .. i : /\ log[h].kind = "object"
                    /\ \A g \in h + 1 .. i : log[g].kind \notin {"object", "end"}}

(* The number of object rows up to row h is the place of its object. *)
PlaceOf(h) == Cardinality({g \in 1 .. h : log[g].kind = "object"})

(* Object rows and objects correspond one to one and in order, and each    *)
(* object keeps the name and base of its own row.                          *)
ObjectsInOrder ==
    LET rows == {h \in DOMAIN log : log[h].kind = "object"}
    IN  /\ Len(mObjects) + (IF mHaveObject THEN 1 ELSE 0) = Cardinality(rows)
        /\ \A h \in rows :
             /\ Documents[PlaceOf(h)].mName = log[h].mName
             /\ Documents[PlaceOf(h)].mInheritsFrom = log[h].mInheritsFrom

(* An item row belongs to the object row above it in its own file.  With   *)
(* ObjectsInOrder: no later row, file boundary or import moves a member to *)
(* another object or an attribute to another row's object (4271-4366,      *)
(* 4544-4564, 4717).                                                       *)
ItemsOwned ==
    /\ ObjectsInOrder
    /\ \A p \in Members : \A h \in OpenedBy(MemberAt(p).row) : p[1] = PlaceOf(h)

(* The documents that name the i-th as their base, wherever they stand. *)
Inheriting(docs, i) ==
    {d \in DOMAIN docs : /\ docs[i].mName # Blank
                         /\ docs[d].mInheritsFrom = docs[i].mName}

(* mChildren holds "classes which inherit from this class" (3686): nothing *)
(* else, ever, and all of them, each once and in the order of the input,   *)
(* if none of their rows comes before the base's own, however many rows    *)
(* and files lie between (4555-4563, after the push of 4546-4550).         *)
ChildrenInherit ==
    \A i \in DOMAIN mObjects :
        /\ \A k \in DOMAIN mObjects[i].mChildren :
             \E d \in Inheriting(Documents, i) :
                mObjects[i].mChildren[k] = Documents[d].mName
        /\ (\A d \in Inheriting(Documents, i) : i < d) =>
             /\ Len(mObjects[i].mChildren) = Cardinality(Inheriting(Documents, i))
             /\ \A d \in Inheriting(Documents, i) :
                  mObjects[i].mChildren[Cardinality({e \in Inheriting(Documents, i) : e <= d})]
                      = Documents[d].mName

(* The comment on mChildren (3686), "Classes which inherit from this       *)
(* class": violated by a class whose row comes before its base's, since a  *)
(* row registers only with the objects already in the vector (4557-4563).  *)
InheritingAreChildren ==
    ~parsing => \A i \in DOMAIN mObjects : \A d \in Inheriting(mObjects, i) :
        \E k \in DOMAIN mObjects[i].mChildren : mObjects[i].mChildren[k] = mObjects[d].mName

(* Between calls every name of an object is in the lookup table and leads  *)
(* to the latest object of that name where it is now: no entry of an       *)
(* earlier file was left behind when the vector moved (3744-3748, 4359,    *)
(* 4546).                                                                  *)
LookupCurrent ==
    ~parsing =>
        /\ DOMAIN mObjectMap = ObjectNames(mObjects)
        /\ \A n \in DOMAIN mObjectMap :
             /\ mObjectMap[n] # Dangling
             /\ mObjects[mObjectMap[n]].mName = n
             /\ \A i \in DOMAIN mObjects : mObjects[i].mName = n => i <= mObjectMap[n]

(* Between calls a member is marked for the deep treatment whenever a      *)
(* class of its type's name was itself marked, and an object whose base    *)
(* has a base knows a base of that base, wherever in the input the objects *)
(* stand: the order of rows and files does not matter to importComplete.   *)
ReflectionOrderFree ==
    \A i, j \in DOMAIN mObjects : \A k \in DOMAIN mObjects[i].mItems :
        /\ mObjects[j].mNeedsReflection
        /\ mObjects[i].mItems[k].mType = mObjects[j].mName
        => mObjects[i].mItems[k].mNeedsReflection
GrandBaseFound ==
    \A i, j \in DOMAIN mObjects :
        /\ mObjects[i].mInheritsFrom = mObjects[j].mName
        /\ mObjects[j].mInheritsFrom # Blank
        => \E g \in DOMAIN mObjects :
             /\ mObjects[g].mName = mObjects[i].mInheritsFrom
             /\ mObjects[i].mMultipleInherticance = mObjects[g].mInheritsFrom
ImportOrderFree == ~parsing => ReflectionOrderFree /\ GrandBaseFound
=============================================================================
