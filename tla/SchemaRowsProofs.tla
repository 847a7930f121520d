-------------------------- MODULE SchemaRowsProofs --------------------------
(***************************************************************************)
(* Proofs about the row machine, for every set of names and rows and every *)
(* number of files: the types are right; no member is lost, invented or    *)
(* read twice, and each stays with its object row; the lookup map, the     *)
(* marks of importComplete and the children of a base are those of the     *)
(* whole input, wherever its rows stand.                                   *)
(***************************************************************************)
EXTENDS SchemaRows, DataLemmas, FiniteSetTheorems

(* The base of a base is a name an object row gave. *)
LEMMA MultipleInheritanceType ==
    ASSUME NEW objs \in Seq(Object), NEW i \in DOMAIN objs
    PROVE  MultipleInheritance(objs, i) \in Names \union {Blank}
<1> DEFINE bases == {j \in DOMAIN objs : /\ objs[i].mInheritsFrom # Blank
                                         /\ objs[j].mName = objs[i].mInheritsFrom
                                         /\ objs[j].mInheritsFrom # Blank}
<1>1. \A j \in DOMAIN objs : objs[j] \in Object
  BY ElementOfSeq, LenProperties
<1>2. \A j \in DOMAIN objs : /\ objs[j].mInheritsFrom \in Names \union {Blank}
                             /\ objs[j].mMultipleInherticance \in Names \union {Blank}
  BY <1>1 DEF Object
<1>3. CASE bases = {}
  BY <1>2, <1>3 DEF MultipleInheritance
<1>4. CASE bases # {}
  <2>1. \E j \in bases : \A k \in bases : k <= j
    <3>1. bases \subseteq 1 .. Len(objs) /\ Len(objs) \in Nat
      BY LenProperties
    <3> QED
      BY <1>4, <3>1, LastExists
  <2>2. (CHOOSE j \in bases : \A k \in bases : k <= j) \in DOMAIN objs
    BY <2>1
  <2> QED
    BY <1>2, <1>4, <2>2 DEF MultipleInheritance
<1> QED
  BY <1>3, <1>4

(* A pass over one member writes its mark and nothing else. *)
LEMMA MemberKept ==
    ASSUME NEW m \in MemberVariable, NEW classes
    PROVE  /\ MemberNeedsReflection(m, classes) \in MemberVariable
           /\ MemberNeedsReflection(m, classes).row = m.row
           /\ MemberNeedsReflection(m, classes).mType = m.mType
<1>1. (m.mIsPointer \/ m.mType = "string" \/ m.mType \in classes) \in BOOLEAN
  OBVIOUS
<1> HIDE DEF MemberVariable
<1>2. MemberNeedsReflection(m, classes) =
        [row |-> m.row, mType |-> m.mType, mIsArray |-> m.mIsArray,
         mIsPointer |-> m.mIsPointer,
         mNeedsReflection |-> (m.mIsPointer \/ m.mType = "string" \/ m.mType \in classes)]
  BY DEF MemberNeedsReflection, MemberVariable
<1> QED
  BY <1>1, <1>2 DEF MemberVariable

(* Writing the marks of an object leaves an object. *)
LEMMA MarksKeepObject ==
    ASSUME NEW o \in Object, NEW reflects \in BOOLEAN, NEW items \in Seq(MemberVariable),
           NEW base \in Names \union {Blank}
    PROVE  /\ Marked(o, reflects, items, base) \in Object
           /\ Marked(o, reflects, items, base).mItems = items
           /\ Marked(o, reflects, items, base).mName = o.mName
<1> DEFINE e == IsNowEnum(o)
           c == IsNowClass(o)
<1>1. e \in BOOLEAN /\ c \in BOOLEAN
  BY DEF IsNowEnum, IsNowClass
<1>2. Marked(o, reflects, items, base) =
        [o EXCEPT !.mNeedsReflection = reflects, !.mItems = items,
                  !.mMultipleInherticance = base, !.mIsEnum = e, !.mIsClass = c]
  BY DEF Marked
<1> HIDE DEF e, c
<1> QED
  BY <1>1, <1>2 DEF Object

(* importComplete keeps the objects and, of each object, the name, the     *)
(* base and the members: what it writes are marks.                         *)
LEMMA ImportKeeps ==
    ASSUME NEW objs \in Seq(Object)
    PROVE  /\ ImportComplete(objs) \in Seq(Object)
           /\ Len(ImportComplete(objs)) = Len(objs)
           /\ DOMAIN ImportComplete(objs) = DOMAIN objs
           /\ \A i \in DOMAIN objs :
                /\ ImportComplete(objs)[i].mName = objs[i].mName
                /\ DOMAIN ImportComplete(objs)[i].mItems = DOMAIN objs[i].mItems
                /\ \A k \in DOMAIN objs[i].mItems :
                     /\ ImportComplete(objs)[i].mItems[k].row = objs[i].mItems[k].row
                     /\ ImportComplete(objs)[i].mItems[k].mType = objs[i].mItems[k].mType
<1> DEFINE classes == NeedsReflectionClasses(objs)
           items(i) == [k \in DOMAIN objs[i].mItems |->
                            MemberNeedsReflection(objs[i].mItems[k], classes)]
           new(i) == Marked(objs[i], ComputeNeedsReflection(objs[i]), items(i),
                            MultipleInheritance(objs, i))
<1>1. ImportComplete(objs) = [i \in DOMAIN objs |-> new(i)]
  BY DEF ImportComplete
<1>2. \A i \in DOMAIN objs : objs[i] \in Object
  BY ElementOfSeq, LenProperties
<1>3. \A i \in DOMAIN objs : objs[i].mItems \in Seq(MemberVariable)
  BY <1>2 DEF Object
<1>4. \A i \in DOMAIN objs : \A k \in DOMAIN objs[i].mItems : objs[i].mItems[k] \in MemberVariable
  BY <1>3, ElementOfSeq, LenProperties
<1> HIDE DEF classes
<1>5. \A i \in DOMAIN objs : \A k \in DOMAIN objs[i].mItems :
         /\ items(i)[k] \in MemberVariable
         /\ items(i)[k].row = objs[i].mItems[k].row
         /\ items(i)[k].mType = objs[i].mItems[k].mType
  BY <1>4, MemberKept
<1>6. \A i \in DOMAIN objs :
         items(i) \in Seq(MemberVariable) /\ DOMAIN items(i) = DOMAIN objs[i].mItems
  <2>1. TAKE i \in DOMAIN objs
  <2>2. items(i) \in [DOMAIN objs[i].mItems -> MemberVariable]
    BY <1>5
  <2>3. objs[i].mItems \in Seq(MemberVariable)
    BY <1>3
  <2> HIDE DEF items
  <2> QED
    BY <2>2, <2>3, MapIsSeq
<1>7. \A i \in DOMAIN objs : /\ new(i) \in Object
                             /\ new(i).mItems = items(i)
                             /\ new(i).mName = objs[i].mName
  <2>1. TAKE i \in DOMAIN objs
  <2>2. items(i) \in Seq(MemberVariable)
    BY <1>6
  <2>3. MultipleInheritance(objs, i) \in Names \union {Blank}
    BY MultipleInheritanceType
  <2>4. ComputeNeedsReflection(objs[i]) \in BOOLEAN
    BY DEF ComputeNeedsReflection
  <2>5. objs[i] \in Object
    BY <1>2
  <2> HIDE DEF items
  <2> QED
    BY <2>2, <2>3, <2>4, <2>5, MarksKeepObject
<1> HIDE DEF new
<1>8. ImportComplete(objs) \in [DOMAIN objs -> Object]
  BY <1>1, <1>7
<1>9. /\ ImportComplete(objs) \in Seq(Object)
      /\ Len(ImportComplete(objs)) = Len(objs)
      /\ DOMAIN ImportComplete(objs) = DOMAIN objs
  BY <1>8, MapIsSeq
<1>10. \A i \in DOMAIN objs : /\ ImportComplete(objs)[i].mItems = items(i)
                              /\ ImportComplete(objs)[i].mName = objs[i].mName
  BY <1>1, <1>7
<1> HIDE DEF items
<1>11. ASSUME NEW i \in DOMAIN objs
       PROVE  /\ ImportComplete(objs)[i].mName = objs[i].mName
              /\ DOMAIN ImportComplete(objs)[i].mItems = DOMAIN objs[i].mItems
              /\ \A k \in DOMAIN objs[i].mItems :
                   /\ ImportComplete(objs)[i].mItems[k].row = objs[i].mItems[k].row
                   /\ ImportComplete(objs)[i].mItems[k].mType = objs[i].mItems[k].mType
  BY <1>5, <1>6, <1>10
<1> QED
  BY <1>9, <1>11

-----------------------------------------------------------------------------
(* mCurrentObject and the vector are well typed around a push. *)
LEMMA PushType ==
    ASSUME TypeOK
    PROVE  /\ PushCurrent \in Seq(Object)
           /\ Cleared \in Object
           /\ EmptyObject \in Object
<1>1. EmptyObject \in Object
  BY EmptySeq DEF EmptyObject, Object, ObjectTypes
<1> QED
  BY <1>1, AppendProperties DEF TypeOK, PushCurrent, Cleared

(* Registering a derived class changes children only. *)
LEMMA AddChildKeeps ==
    ASSUME NEW objs \in Seq(Object), NEW base, NEW name \in Names
    PROVE  /\ AddChild(objs, base, name) \in Seq(Object)
           /\ Len(AddChild(objs, base, name)) = Len(objs)
           /\ DOMAIN AddChild(objs, base, name) = DOMAIN objs
           /\ \A i \in DOMAIN objs : AddChild(objs, base, name)[i].mItems = objs[i].mItems
<1>1. \A i \in DOMAIN objs : objs[i] \in Object
  BY ElementOfSeq, LenProperties
<1>2. ASSUME NEW i \in DOMAIN objs
      PROVE  /\ [objs[i] EXCEPT !.mChildren = Append(@, name)] \in Object
             /\ [objs[i] EXCEPT !.mChildren = Append(@, name)].mItems = objs[i].mItems
  <2>1. Append(objs[i].mChildren, name) \in Seq(Names)
    BY <1>1, AppendProperties DEF Object
  <2> QED
    BY <1>1, <2>1 DEF Object
<1>3. AddChild(objs, base, name) \in [DOMAIN objs -> Object]
  BY <1>1, <1>2 DEF AddChild
<1>4. \A i \in DOMAIN objs : AddChild(objs, base, name)[i].mItems = objs[i].mItems
  BY <1>2 DEF AddChild
<1> QED
  BY <1>3, <1>4, MapIsSeq

(* The last object of a name. *)
LEMMA LastNamedIs ==
    ASSUME NEW objs \in Seq(Object), NEW n \in ObjectNames(objs)
    PROVE  /\ LastNamed(objs, n) \in DOMAIN objs
           /\ objs[LastNamed(objs, n)].mName = n
           /\ \A j \in DOMAIN objs : objs[j].mName = n => j <= LastNamed(objs, n)
<1> DEFINE S == {i \in DOMAIN objs : objs[i].mName = n}
           P(i) == /\ objs[i].mName = n
                   /\ \A j \in DOMAIN objs : objs[j].mName = n => j <= i
<1>1. S \subseteq 1 .. Len(objs) /\ S # {} /\ Len(objs) \in Nat
  BY LenProperties DEF ObjectNames
<1>2. \E m \in S : \A k \in S : k <= m
  BY <1>1, LastExists
<1>3. \E i \in DOMAIN objs : P(i)
  BY <1>2
<1>4. LastNamed(objs, n) = CHOOSE i \in DOMAIN objs : P(i)
  BY DEF LastNamed
<1>5. (CHOOSE i \in DOMAIN objs : P(i)) \in DOMAIN objs /\ P(CHOOSE i \in DOMAIN objs : P(i))
  BY <1>3
<1> QED
  BY <1>4, <1>5

(* What a push leaves of the lookup table: its names, and pointers into    *)
(* the vector or to nowhere.                                               *)
LEMMA TableAfterPushType ==
    ASSUME TypeOK, NEW table \in TableAfterPush
    PROVE  /\ DOMAIN table = DOMAIN mObjectMap
           /\ \A n \in DOMAIN table : table[n] \in DOMAIN PushCurrent \union {Dangling}
<1>1. DOMAIN mObjects \subseteq DOMAIN PushCurrent
  BY AppendProperties, LenProperties DEF PushCurrent, TypeOK
<1>2. table = mObjectMap \/ table = Moved(mObjectMap)
  BY DEF TableAfterPush
<1> QED
  BY <1>1, <1>2 DEF TypeOK, Moved

-----------------------------------------------------------------------------
(* A row of the file, by its kind. *)
LEMMA RowFields ==
    ASSUME NEW r \in Rows
    PROVE  /\ r \in Row
           /\ r.kind = "object" => /\ r.mName \in Names
                                   /\ r.mType \in ObjectTypes \union {Blank}
                                   /\ r.mInheritsFrom \in Names \union {Blank}
           /\ r.kind = "item" => /\ r.mType \in MemberTypes
                                 /\ r.mIsArray \in BOOLEAN
                                 /\ r.mIsPointer \in BOOLEAN
BY RowsAssumption DEF Row, SettingKinds

(* The variables keep their types under every sequence of rows and files:  *)
(* whatever a file leaves behind or begins with, only objects that an      *)
(* object row opened reach the vector, so all of them carry a name (4356,  *)
(* 4544-4551), and each row and pass writes values of the right type.      *)
THEOREM TypeCorrect == Spec => []TypeOK
<1>1. Init => TypeOK
  <2>1. EmptyObject \in Object
    BY EmptySeq DEF EmptyObject, Object, ObjectTypes
  <2>2. <<>> \in Seq(Object) /\ <<>> \in Seq(Row \union {[kind |-> "end"]})
    BY EmptySeq
  <2>3. DOMAIN [n \in {} |-> Dangling] = {} /\ DOMAIN <<>> = {}
    OBVIOUS
  <2> QED
    BY <2>1, <2>2, <2>3 DEF Init, TypeOK
<1>2. TypeOK /\ [Next]_vars => TypeOK'
  <2> SUFFICES ASSUME TypeOK, [Next]_vars
               PROVE  TypeOK'
    OBVIOUS
  <2>0. /\ PushCurrent \in Seq(Object) /\ Cleared \in Object
        /\ \A i \in DOMAIN PushCurrent : PushCurrent[i].mName \in Names
    BY PushType, AppendProperties, LenProperties DEF PushCurrent, TypeOK
  <2>1. CASE OpenFile
    BY <2>1 DEF OpenFile, TypeOK
  <2>2. ASSUME NEW r \in Rows, NextRow(r)
        PROVE  parsing' \in BOOLEAN /\ log' \in Seq(Row \union {[kind |-> "end"]})
    BY <2>2, RowFields, AppendProperties DEF TypeOK, NextRow
  <2>3. ASSUME NEW r \in Rows, EOFRow(r) \/ SkipRow(r) \/ SettingRow(r)
        PROVE  TypeOK'
    <3>1. NextRow(r) /\ UNCHANGED <<mHaveObject, mCurrentObject, mObjects, mObjectMap>>
      BY <2>3 DEF EOFRow, SkipRow, SettingRow
    <3>2. mEndOfFile' \in BOOLEAN /\ settings' \subseteq SettingKinds
      BY <2>3 DEF EOFRow, SkipRow, SettingRow, TypeOK
    <3> QED
      BY <2>2, <3>1, <3>2 DEF TypeOK
  <2>4. ASSUME NEW r \in Rows, ObjectRow(r)
        PROVE  TypeOK'
    <3> DEFINE pushed == PushCurrent
               linked == AddChild(pushed, r.mInheritsFrom, r.mName)
    <3>1. r.kind = "object" /\ NextRow(r) /\ mObjectMap' \in TableAfterPush
      BY <2>4 DEF ObjectRow
    <3>2. mObjects' = linked
      BY <2>4 DEF ObjectRow
    <3>3. mCurrentObject' \in Object /\ mCurrentObject'.mName \in Names
      BY <2>0, <2>4, <3>1, RowFields DEF ObjectRow, Object
    <3>4. /\ DOMAIN mObjectMap' = DOMAIN mObjectMap
          /\ \A n \in DOMAIN mObjectMap' : mObjectMap'[n] \in DOMAIN pushed \union {Dangling}
      BY <3>1, TableAfterPushType
    <3>5. pushed \in Seq(Object) /\ \A i \in DOMAIN pushed : pushed[i].mName \in Names
      BY <2>0
    <3> HIDE DEF pushed
    <3>6. linked \in Seq(Object) /\ DOMAIN linked = DOMAIN pushed
      BY <3>1, <3>5, RowFields, AddChildKeeps
    <3>7. \A i \in DOMAIN pushed : linked[i].mName = pushed[i].mName
      <4>1. \A i \in DOMAIN pushed : pushed[i] \in Object
        BY <3>5, ElementOfSeq, LenProperties
      <4> QED
        BY <4>1 DEF AddChild, Object
    <3> HIDE DEF linked
    <3>8. mEndOfFile' \in BOOLEAN /\ mHaveObject' \in BOOLEAN /\ settings' \subseteq SettingKinds
      BY <2>4 DEF ObjectRow, TypeOK
    <3>9. DOMAIN mObjectMap' \subseteq Names
      BY <3>4 DEF TypeOK
    <3> QED
      BY <2>2, <3>1, <3>2, <3>3, <3>4, <3>5, <3>6, <3>7, <3>8, <3>9 DEF TypeOK
  <2>5. ASSUME NEW r \in Rows, ItemRow(r)
        PROVE  TypeOK'
    <3>1. r.kind = "item" /\ NextRow(r)
      BY <2>5 DEF ItemRow
    <3>2. NewMember(r) \in MemberVariable
      <4>1. Len(log) + 1 \in Nat \ {0}
        BY LenProperties DEF TypeOK
      <4> QED
        BY <3>1, <4>1, RowFields DEF NewMember, MemberVariable
    <3>3. Append(mCurrentObject.mItems, NewMember(r)) \in Seq(MemberVariable)
      BY <3>2, AppendProperties DEF TypeOK, Object
    <3>4. mCurrentObject' \in Object /\ mCurrentObject'.mName = mCurrentObject.mName
      BY <2>5, <3>3 DEF ItemRow, TypeOK, Object
    <3> QED
      BY <2>2, <2>5, <3>1, <3>4 DEF ItemRow, TypeOK
  <2>6. CASE EndFile
    <3> DEFINE pushed == PushCurrent
    <3>1. /\ pushed \in Seq(Object)
          /\ \A i \in DOMAIN pushed : pushed[i].mName \in Names
      BY <2>0
    <3>2. PICK table \in TableAfterPush : mObjectMap' = LookupTable(table, pushed)
      BY <2>6 DEF EndFile, Imported
    <3>3. /\ DOMAIN table = DOMAIN mObjectMap
          /\ \A n \in DOMAIN table : table[n] \in DOMAIN pushed \union {Dangling}
      BY TableAfterPushType
    <3>4. /\ mObjects' = ImportComplete(pushed)
          /\ mCurrentObject' = Cleared
          /\ mHaveObject' = FALSE
          /\ parsing' = FALSE
          /\ UNCHANGED <<mEndOfFile, settings>>
      BY <2>6 DEF EndFile, Imported
    <3> HIDE DEF pushed
    <3>5. /\ ImportComplete(pushed) \in Seq(Object)
          /\ DOMAIN ImportComplete(pushed) = DOMAIN pushed
          /\ \A i \in DOMAIN pushed : ImportComplete(pushed)[i].mName = pushed[i].mName
      BY <3>1, ImportKeeps
    <3>6. \A n \in ObjectNames(pushed) : LastNamed(pushed, n) \in DOMAIN pushed
      BY <3>1, LastNamedIs
    <3>7. /\ DOMAIN mObjectMap' = DOMAIN mObjectMap \union ObjectNames(pushed)
          /\ \A n \in DOMAIN mObjectMap' : mObjectMap'[n] \in DOMAIN pushed \union {Dangling}
      BY <3>2, <3>3, <3>6 DEF LookupTable
    <3>8. DOMAIN mObjectMap' \subseteq Names
      BY <3>1, <3>7 DEF TypeOK, ObjectNames
    <3>9. log' \in Seq(Row \union {[kind |-> "end"]})
      BY <2>6, AppendProperties DEF EndFile, TypeOK
    <3> QED
      BY <2>0, <3>1, <3>4, <3>5, <3>7, <3>8, <3>9 DEF TypeOK
  <2>7. CASE UNCHANGED vars
    BY <2>7 DEF vars, TypeOK
  <2> QED
    BY <2>1, <2>3, <2>4, <2>5, <2>6, <2>7 DEF Next, ProcessArgs, FinishFile, EmptyFile
<1> QED
  BY <1>1, <1>2, PTL DEF Spec

-----------------------------------------------------------------------------
(* The documents are the vector followed by the open object. *)
LEMMA DocumentsType ==
    ASSUME TypeOK
    PROVE  /\ Documents \in Seq(Object)
           /\ DOMAIN Documents = 1 .. Len(mObjects) + 1
           /\ Len(mObjects) \in Nat
           /\ DOMAIN mObjects = 1 .. Len(mObjects)
           /\ \A d \in DOMAIN mObjects : Documents[d] = mObjects[d]
           /\ Documents[Len(mObjects) + 1] = mCurrentObject
BY AppendProperties, LenProperties DEF TypeOK, Documents

(* A step that leaves the members where they are, with their rows and      *)
(* types, and records a row that is not an item row, conserves them.       *)
LEMMA MembersStay ==
    ASSUME TypeOK, ItemsConserved,
           NEW r, r.kind # "item", log' = Append(log, r),
           Members' = Members,
           \A p \in Members : /\ MemberAt(p)'.row = MemberAt(p).row
                              /\ MemberAt(p)'.mType = MemberAt(p).mType
    PROVE  ItemsConserved'
<1>1. /\ DOMAIN log' = DOMAIN log \union {Len(log) + 1}
      /\ \A i \in DOMAIN log : log'[i] = log[i]
      /\ log'[Len(log) + 1] = r
      /\ DOMAIN log = 1 .. Len(log) /\ Len(log) \in Nat
  BY AppendProperties, LenProperties DEF TypeOK
<1> HIDE DEF Members, MemberAt
<1>2. ASSUME NEW p \in Members'
      PROVE  /\ (MemberAt(p).row)' \in DOMAIN log'
             /\ log'[(MemberAt(p).row)'].kind = "item"
             /\ log'[(MemberAt(p).row)'].mType = (MemberAt(p).mType)'
  BY <1>1 DEF ItemsConserved
<1>3. ASSUME NEW i \in DOMAIN log', log'[i].kind = "item"
      PROVE  \E p \in Members' : (MemberAt(p).row)' = i
  <2>1. i \in DOMAIN log /\ log[i].kind = "item"
    BY <1>1, <1>3
  <2> QED
    BY <2>1 DEF ItemsConserved
<1>4. ASSUME NEW p \in Members', NEW q \in Members', (MemberAt(p).row)' = (MemberAt(q).row)'
      PROVE  p = q
  BY <1>4 DEF ItemsConserved
<1> QED
  BY <1>2, <1>3, <1>4 DEF ItemsConserved

(* Documents that keep their members, followed by documents without any,   *)
(* have the same members.                                                  *)
LEMMA SameDocumentsSameMembers ==
    ASSUME DOMAIN Documents \subseteq DOMAIN Documents',
           \A d \in DOMAIN Documents :
                /\ DOMAIN Documents'[d].mItems = DOMAIN Documents[d].mItems
                /\ \A k \in DOMAIN Documents[d].mItems :
                     /\ Documents'[d].mItems[k].row = Documents[d].mItems[k].row
                     /\ Documents'[d].mItems[k].mType = Documents[d].mItems[k].mType,
           \A d \in DOMAIN Documents' \ DOMAIN Documents : DOMAIN Documents'[d].mItems = {}
    PROVE  /\ Members' = Members
           /\ \A p \in Members : /\ MemberAt(p)'.row = MemberAt(p).row
                                 /\ MemberAt(p)'.mType = MemberAt(p).mType
<1>1. Members' = Members
  BY DEF Members
<1>2. ASSUME NEW p \in Members
      PROVE  /\ MemberAt(p)'.row = MemberAt(p).row
             /\ MemberAt(p)'.mType = MemberAt(p).mType
  <2>1. p[1] \in DOMAIN Documents /\ p[2] \in DOMAIN Documents[p[1]].mItems
    BY DEF Members
  <2> QED
    BY <2>1 DEF MemberAt
<1> QED
  BY <1>1, <1>2

(* The documents after a push are the documents before it, followed, when  *)
(* an object was open, by one without members.                             *)
LEMMA PushKeepsDocuments ==
    ASSUME TypeOK, NEW objs \in Seq(Object), NEW current \in Object,
           Len(objs) = Len(PushCurrent),
           \A i \in DOMAIN PushCurrent :
                /\ DOMAIN objs[i].mItems = DOMAIN PushCurrent[i].mItems
                /\ \A k \in DOMAIN objs[i].mItems :
                     /\ objs[i].mItems[k].row = PushCurrent[i].mItems[k].row
                     /\ objs[i].mItems[k].mType = PushCurrent[i].mItems[k].mType,
           current.mItems = Cleared.mItems,
           mObjects' = objs, mCurrentObject' = current
    PROVE  /\ Members' = Members
           /\ \A p \in Members : /\ MemberAt(p)'.row = MemberAt(p).row
                                 /\ MemberAt(p)'.mType = MemberAt(p).mType
<1>1. /\ Documents' = Append(objs, current)
      /\ DOMAIN Documents' = 1 .. Len(objs) + 1
      /\ \A d \in 1 .. Len(objs) : Documents'[d] = objs[d]
      /\ Documents'[Len(objs) + 1] = current
  BY AppendProperties, LenProperties DEF Documents
<1>2. /\ PushCurrent \in Seq(Object)
      /\ DOMAIN PushCurrent = 1 .. Len(PushCurrent)
      /\ Len(PushCurrent) \in Nat
  BY PushType, LenProperties
<1>3. CASE mHaveObject
  <2>1. PushCurrent = Documents /\ Cleared = EmptyObject
    BY <1>3 DEF PushCurrent, Documents, Cleared
  <2>2. DOMAIN current.mItems = {}
    BY <2>1 DEF EmptyObject
  <2> HIDE DEF Documents
  <2>3. /\ DOMAIN Documents \subseteq DOMAIN Documents'
        /\ \A d \in DOMAIN Documents : d \in 1 .. Len(objs)
        /\ \A d \in DOMAIN Documents' \ DOMAIN Documents : d = Len(objs) + 1
    BY <1>1, <1>2, <2>1
  <2> QED
    BY <1>1, <2>1, <2>2, <2>3, SameDocumentsSameMembers
<1>4. CASE ~mHaveObject
  <2>1. PushCurrent = mObjects /\ Cleared = mCurrentObject
    BY <1>4 DEF PushCurrent, Cleared
  <2>2. /\ DOMAIN Documents = DOMAIN Documents'
        /\ \A d \in 1 .. Len(objs) : Documents[d] = PushCurrent[d]
        /\ Documents[Len(objs) + 1] = mCurrentObject
    BY <1>1, <2>1, DocumentsType
  <2> HIDE DEF Documents
  <2>3. \A d \in DOMAIN Documents : d \in 1 .. Len(objs) \/ d = Len(objs) + 1
    BY <1>1, <1>2, <2>2
  <2>4. ASSUME NEW d \in DOMAIN Documents
        PROVE  /\ DOMAIN Documents'[d].mItems = DOMAIN Documents[d].mItems
               /\ \A k \in DOMAIN Documents[d].mItems :
                    /\ Documents'[d].mItems[k].row = Documents[d].mItems[k].row
                    /\ Documents'[d].mItems[k].mType = Documents[d].mItems[k].mType
    <3>1. CASE d \in 1 .. Len(objs)
      BY <1>1, <1>2, <2>2, <3>1
    <3>2. CASE d = Len(objs) + 1
      BY <1>1, <2>1, <2>2, <3>2
    <3> QED
      BY <2>3, <3>1, <3>2
  <2> QED
    BY <2>2, <2>4, SameDocumentsSameMembers
<1> QED
  BY <1>3, <1>4

(* An item row adds one member, of its own row, at the end of the open     *)
(* object, and moves no other.                                             *)
LEMMA ItemRowAddsMember ==
    ASSUME TypeOK, NEW r \in Rows, ItemRow(r)
    PROVE  \E new : /\ new[1] = Len(mObjects) + 1
                    /\ Members' = Members \union {new}
                    /\ new \notin Members
                    /\ MemberAt(new)' = NewMember(r)
                    /\ \A p \in Members : MemberAt(p)' = MemberAt(p)
<1>0. PICK here, place : here = Len(mObjects) + 1 /\ place = Len(mCurrentObject.mItems) + 1
  OBVIOUS
<1> DEFINE new == <<here, place>>
<1>1. /\ mObjects' = mObjects
      /\ mCurrentObject' = [mCurrentObject EXCEPT !.mItems = Append(@, NewMember(r))]
  BY DEF ItemRow
<1>3. /\ mCurrentObject \in Object /\ mCurrentObject.mItems \in Seq(MemberVariable)
      /\ mCurrentObject'.mItems = Append(mCurrentObject.mItems, NewMember(r))
  BY <1>1 DEF TypeOK, Object
<1>4. /\ DOMAIN mCurrentObject.mItems = 1 .. Len(mCurrentObject.mItems)
      /\ Len(mCurrentObject.mItems) \in Nat
      /\ DOMAIN mCurrentObject'.mItems = DOMAIN mCurrentObject.mItems \union {place}
      /\ \A k \in DOMAIN mCurrentObject.mItems :
            mCurrentObject'.mItems[k] = mCurrentObject.mItems[k]
      /\ mCurrentObject'.mItems[place] = NewMember(r)
  <2> DEFINE items == mCurrentObject.mItems
  <2>1. items \in Seq(MemberVariable) /\ mCurrentObject'.mItems = Append(items, NewMember(r))
    BY <1>3
  <2> HIDE DEF items
  <2>2. /\ DOMAIN items = 1 .. Len(items)
        /\ Len(items) \in Nat
        /\ DOMAIN Append(items, NewMember(r)) = DOMAIN items \union {Len(items) + 1}
        /\ \A k \in DOMAIN items : Append(items, NewMember(r))[k] = items[k]
        /\ Append(items, NewMember(r))[Len(items) + 1] = NewMember(r)
    BY <2>1
  <2> QED
    BY <1>0, <2>1, <2>2 DEF items
<1>5. /\ DOMAIN Documents' = DOMAIN Documents
      /\ here \in DOMAIN Documents
      /\ \A d \in DOMAIN Documents \ {here} : Documents'[d] = Documents[d]
      /\ Documents[here] = mCurrentObject
      /\ Documents'[here] = mCurrentObject'
  <2>1. /\ DOMAIN Documents = 1 .. here
        /\ Len(mObjects) \in Nat
        /\ \A d \in 1 .. Len(mObjects) : Documents[d] = mObjects[d]
        /\ Documents[here] = mCurrentObject
    BY <1>0, DocumentsType
  <2>2. /\ DOMAIN Documents' = 1 .. here
        /\ \A d \in 1 .. Len(mObjects) : Documents'[d] = mObjects[d]
        /\ Documents'[here] = mCurrentObject'
    BY <1>0, <1>1, AppendProperties, LenProperties DEF Documents, TypeOK
  <2> HIDE DEF Documents
  <2>3. \A d \in 1 .. here : d # here => d \in 1 .. Len(mObjects)
    BY <1>0, <2>1
  <2> QED
    BY <1>0, <2>1, <2>2, <2>3
<1> HIDE DEF Documents
<1>6. Members' = Members \union {new}
  <2>1. ASSUME NEW d, NEW k
        PROVE  <<d, k>> \in Members' <=> <<d, k>> \in Members \/ <<d, k>> = new
    <3>1. CASE d = here
      BY <1>4, <1>5, <3>1 DEF Members
    <3>2. CASE d # here
      BY <1>5, <3>2 DEF Members
    <3> QED
      BY <3>1, <3>2
  <2>2. \A p \in Members' \union Members \union {new} : \E d, k : p = <<d, k>>
    BY DEF Members
  <2> HIDE DEF Members, new
  <2> QED
    BY <2>1, <2>2
<1>7. new \notin Members /\ MemberAt(new)' = NewMember(r)
  <2>1. place \notin DOMAIN mCurrentObject.mItems
    BY <1>0, <1>4
  <2> QED
    BY <1>4, <1>5, <2>1 DEF Members, MemberAt
<1>8. \A p \in Members : MemberAt(p)' = MemberAt(p)
  <2>1. TAKE p \in Members
  <2>2. p[1] \in DOMAIN Documents /\ p[2] \in DOMAIN Documents[p[1]].mItems
    BY DEF Members
  <2>3. CASE p[1] = here
    BY <1>4, <1>5, <2>2, <2>3 DEF MemberAt
  <2>4. CASE p[1] # here
    BY <1>5, <2>2, <2>4 DEF MemberAt
  <2> QED
    BY <2>3, <2>4
<1> HIDE DEF Members, MemberAt
<1>9. new[1] = Len(mObjects) + 1
  BY <1>0
<1> HIDE DEF new
<1> QED
  BY <1>6, <1>7, <1>8, <1>9

(* So an item row conserves the members. *)
LEMMA ItemRowConserves ==
    ASSUME TypeOK, ItemsConserved, NEW r \in Rows, ItemRow(r)
    PROVE  ItemsConserved'
<1>1. /\ r.kind = "item"
      /\ log' = Append(log, r)
  BY DEF ItemRow, NextRow
<1>2. /\ DOMAIN log' = DOMAIN log \union {Len(log) + 1}
      /\ \A i \in DOMAIN log : log'[i] = log[i]
      /\ log'[Len(log) + 1] = r
      /\ DOMAIN log = 1 .. Len(log) /\ Len(log) \in Nat
  BY <1>1, AppendProperties, LenProperties DEF TypeOK
<1>3. PICK new : /\ Members' = Members \union {new}
                 /\ new \notin Members
                 /\ MemberAt(new)' = NewMember(r)
                 /\ \A p \in Members : MemberAt(p)' = MemberAt(p)
  BY ItemRowAddsMember
<1>4. NewMember(r).row = Len(log) + 1 /\ NewMember(r).mType = r.mType
  BY DEF NewMember
<1> HIDE DEF Members, MemberAt
<1>5. \A p \in Members : MemberAt(p).row # Len(log) + 1
  BY <1>2 DEF ItemsConserved
<1>6. ASSUME NEW p \in Members'
       PROVE  /\ (MemberAt(p).row)' \in DOMAIN log'
              /\ log'[(MemberAt(p).row)'].kind = "item"
              /\ log'[(MemberAt(p).row)'].mType = (MemberAt(p).mType)'
  <2>1. CASE p \in Members
    BY <1>2, <1>3, <2>1 DEF ItemsConserved
  <2>2. CASE p = new
    BY <1>1, <1>2, <1>3, <1>4, <2>2
  <2> QED
    BY <1>3, <2>1, <2>2
<1>7. ASSUME NEW i \in DOMAIN log', log'[i].kind = "item"
       PROVE  \E p \in Members' : (MemberAt(p).row)' = i
  <2>1. CASE i \in DOMAIN log
    BY <1>2, <1>3, <1>7, <2>1 DEF ItemsConserved
  <2>2. CASE i = Len(log) + 1
    BY <1>3, <1>4, <2>2
  <2> QED
    BY <1>2, <2>1, <2>2
<1>8. ASSUME NEW p \in Members', NEW q \in Members',
              (MemberAt(p).row)' = (MemberAt(q).row)'
       PROVE  p = q
  <2>1. CASE p \in Members /\ q \in Members
    BY <1>3, <1>8, <2>1 DEF ItemsConserved
  <2>2. CASE p = new \/ q = new
    BY <1>3, <1>4, <1>5, <1>8, <2>2
  <2> QED
    BY <1>3, <2>1, <2>2
<1> QED
  BY <1>6, <1>7, <1>8 DEF ItemsConserved

(* Every other step leaves the members where they are: what it pushes,     *)
(* clears, links or marks carries them along.                              *)
LEMMA OtherStepsKeepMembers ==
    ASSUME TypeOK, [Next]_vars, \A r \in Rows : ~ItemRow(r)
    PROVE  /\ Members' = Members
           /\ \A p \in Members : /\ MemberAt(p)'.row = MemberAt(p).row
                                 /\ MemberAt(p)'.mType = MemberAt(p).mType
<1>1. CASE UNCHANGED <<mObjects, mCurrentObject>>
  BY <1>1 DEF Members, MemberAt, Documents
<1>2. CASE OpenFile \/ UNCHANGED vars
  BY <1>1, <1>2 DEF OpenFile, vars
<1>3. ASSUME NEW r \in Rows, EOFRow(r) \/ SkipRow(r) \/ SettingRow(r)
      PROVE  UNCHANGED <<mObjects, mCurrentObject>>
  BY <1>3 DEF EOFRow, SkipRow, SettingRow
<1>4. ASSUME NEW r \in Rows, ObjectRow(r)
      PROVE  /\ Members' = Members
             /\ \A p \in Members : /\ MemberAt(p)'.row = MemberAt(p).row
                                   /\ MemberAt(p)'.mType = MemberAt(p).mType
  <2> DEFINE objs == AddChild(PushCurrent, r.mInheritsFrom, r.mName)
  <2>1. /\ r.kind = "object"
        /\ mObjects' = objs
        /\ mCurrentObject' = [Cleared EXCEPT !.mName = r.mName, !.mType = r.mType,
                                             !.mInheritsFrom = r.mInheritsFrom]
    BY <1>4 DEF ObjectRow
  <2>2. mCurrentObject' \in Object /\ mCurrentObject'.mItems = Cleared.mItems
    BY <2>1, PushType, RowFields DEF TypeOK, Object
  <2>3. /\ objs \in Seq(Object) /\ Len(objs) = Len(PushCurrent)
        /\ \A i \in DOMAIN PushCurrent : objs[i].mItems = PushCurrent[i].mItems
    BY <2>1, PushType, RowFields, AddChildKeeps
  <2> HIDE DEF objs
  <2> QED
    BY <2>1, <2>2, <2>3, PushKeepsDocuments
<1>5. CASE EndFile
  <2> DEFINE objs == ImportComplete(PushCurrent)
  <2>1. mObjects' = objs /\ mCurrentObject' = Cleared
    BY <1>5 DEF EndFile, Imported
  <2>2. /\ objs \in Seq(Object) /\ Len(objs) = Len(PushCurrent)
        /\ DOMAIN objs = DOMAIN PushCurrent
        /\ \A i \in DOMAIN PushCurrent :
              /\ DOMAIN objs[i].mItems = DOMAIN PushCurrent[i].mItems
              /\ \A k \in DOMAIN objs[i].mItems :
                   /\ objs[i].mItems[k].row = PushCurrent[i].mItems[k].row
                   /\ objs[i].mItems[k].mType = PushCurrent[i].mItems[k].mType
    BY PushType, ImportKeeps
  <2>3. Cleared \in Object
    BY PushType
  <2> HIDE DEF objs
  <2> QED
    BY <2>1, <2>2, <2>3, PushKeepsDocuments
<1> QED
  BY <1>1, <1>2, <1>3, <1>4, <1>5 DEF Next, ProcessArgs, FinishFile, EmptyFile

(* What a step adds to the rows read: nothing, a row, or the end of a file. *)
LEMMA LogSteps ==
    ASSUME [Next]_vars
    PROVE  \/ log' = log /\ UNCHANGED <<mObjects, mCurrentObject, mHaveObject>>
           \/ \E r \in Rows : ProcessArgs(r) /\ log' = Append(log, r)
           \/ EndFile /\ log' = Append(log, [kind |-> "end"])
<1>1. CASE OpenFile \/ UNCHANGED vars
  BY <1>1 DEF OpenFile, vars
<1>2. ASSUME NEW r \in Rows, ProcessArgs(r)
      PROVE  log' = Append(log, r)
  BY <1>2 DEF ProcessArgs, EOFRow, SettingRow, SkipRow, ObjectRow, ItemRow, NextRow
<1>3. CASE EndFile
  BY <1>3 DEF EndFile
<1> QED
  BY <1>1, <1>2, <1>3 DEF Next, FinishFile, EmptyFile

(* No row of any kind, no push, no clear, no end of a file and no import   *)
(* loses, invents or duplicates a member: the members of the documents are *)
(* at all times the item rows read so far, each once, with its own type.   *)
THEOREM MembersConserved == Spec => []ItemsConserved
<1>1. Init => ItemsConserved
  <2> SUFFICES ASSUME Init PROVE ItemsConserved
    OBVIOUS
  <2>1. Documents = <<EmptyObject>> /\ log = <<>>
    BY DEF Init, Documents
  <2>2. Members = {}
    BY <2>1 DEF Members, EmptyObject
  <2> QED
    BY <2>1, <2>2 DEF ItemsConserved
<1>2. TypeOK /\ ItemsConserved /\ [Next]_vars => ItemsConserved'
  <2> SUFFICES ASSUME TypeOK, ItemsConserved, [Next]_vars
               PROVE  ItemsConserved'
    OBVIOUS
  <2>0. TypeOK
    BY DEF TypeOK
  <2>1. ASSUME NEW r \in Rows, ItemRow(r)
        PROVE  ItemsConserved'
    BY <2>0, <2>1, ItemRowConserves
  <2>2. CASE \A r \in Rows : ~ItemRow(r)
    <3>1. /\ Members' = Members
          /\ \A p \in Members : /\ MemberAt(p)'.row = MemberAt(p).row
                                /\ MemberAt(p)'.mType = MemberAt(p).mType
      BY <2>0, <2>2, OtherStepsKeepMembers
    <3>2. CASE log' = log
      <4> HIDE DEF Members, MemberAt
      <4> QED
        BY <3>1, <3>2 DEF ItemsConserved
    <3>3. ASSUME NEW r \in Rows, ProcessArgs(r), log' = Append(log, r)
          PROVE  ItemsConserved'
      <4>1. r.kind # "item"
        BY <2>2, <3>3 DEF ProcessArgs, EOFRow, SettingRow, SettingKinds, SkipRow, ObjectRow
      <4> QED
        BY <2>0, <3>1, <3>3, <4>1, MembersStay
    <3>4. CASE log' = Append(log, [kind |-> "end"])
      <4>1. PICK r : r = [kind |-> "end"]
        OBVIOUS
      <4>2. r.kind # "item"
        BY <4>1
      <4> QED
        BY <2>0, <3>1, <3>4, <4>1, <4>2, MembersStay
    <3> QED
      BY <3>2, <3>3, <3>4, LogSteps
  <2> QED
    BY <2>1, <2>2
<1> QED
  BY <1>1, <1>2, TypeCorrect, PTL DEF Spec

-----------------------------------------------------------------------------
(* The marks that importComplete writes to object i of the vector. *)
LEMMA ImportWrites ==
    ASSUME NEW objs \in Seq(Object), NEW i \in DOMAIN objs
    PROVE  /\ ImportComplete(objs)[i].mNeedsReflection = ComputeNeedsReflection(objs[i])
           /\ ImportComplete(objs)[i].mInheritsFrom = objs[i].mInheritsFrom
           /\ ImportComplete(objs)[i].mChildren = objs[i].mChildren
           /\ ImportComplete(objs)[i].mMultipleInherticance = MultipleInheritance(objs, i)
           /\ \A k \in DOMAIN objs[i].mItems :
                ImportComplete(objs)[i].mItems[k].mNeedsReflection =
                    (objs[i].mItems[k].mIsPointer \/ objs[i].mItems[k].mType = "string"
                        \/ objs[i].mItems[k].mType \in NeedsReflectionClasses(objs))
<1> DEFINE classes == NeedsReflectionClasses(objs)
           items == [k \in DOMAIN objs[i].mItems |->
                         MemberNeedsReflection(objs[i].mItems[k], classes)]
           o == objs[i]
           reflects == ComputeNeedsReflection(o)
           base == MultipleInheritance(objs, i)
<1>1. ImportComplete(objs)[i] = Marked(o, reflects, items, base)
  BY DEF ImportComplete
<1>2. o \in Object
  BY ElementOfSeq, LenProperties
<1>3. \A k \in DOMAIN o.mItems : o.mItems[k] \in MemberVariable
  <2>1. o.mItems \in Seq(MemberVariable)
    BY <1>2 DEF Object
  <2> HIDE DEF o
  <2> QED
    BY <2>1, ElementOfSeq, LenProperties
<1>4. ASSUME NEW k \in DOMAIN o.mItems
      PROVE  items[k].mNeedsReflection = (o.mItems[k].mIsPointer
                \/ o.mItems[k].mType = "string" \/ o.mItems[k].mType \in classes)
  <2>1. PICK m \in MemberVariable : m = o.mItems[k]
    BY <1>3
  <2>2. items[k] = MemberNeedsReflection(m, classes)
    BY <2>1
  <2> HIDE DEF items, classes, o
  <2>3. MemberNeedsReflection(m, classes).mNeedsReflection =
            (m.mIsPointer \/ m.mType = "string" \/ m.mType \in classes)
    BY DEF MemberNeedsReflection, MemberVariable
  <2> QED
    BY <2>1, <2>2, <2>3
<1> HIDE DEF items, reflects, base
<1>5. /\ Marked(o, reflects, items, base).mNeedsReflection = reflects
      /\ Marked(o, reflects, items, base).mInheritsFrom = o.mInheritsFrom
      /\ Marked(o, reflects, items, base).mChildren = o.mChildren
      /\ Marked(o, reflects, items, base).mMultipleInherticance = base
      /\ Marked(o, reflects, items, base).mItems = items
  <2> DEFINE e == IsNowEnum(o)
             c == IsNowClass(o)
  <2>1. Marked(o, reflects, items, base) =
          [o EXCEPT !.mNeedsReflection = reflects, !.mItems = items,
                    !.mMultipleInherticance = base, !.mIsEnum = e, !.mIsClass = c]
    BY DEF Marked
  <2> HIDE DEF e, c, o
  <2> QED
    BY <1>2, <2>1 DEF Object
<1>6. \A k \in DOMAIN o.mItems : ImportComplete(objs)[i].mItems[k] = items[k]
  BY <1>1, <1>5
<1> QED
  BY <1>1, <1>4, <1>5, <1>6 DEF reflects, base

(* The base of a base that importComplete writes is the base of some       *)
(* object of the base's name, wherever that object stands.                 *)
LEMMA MultipleInheritanceFound ==
    ASSUME NEW objs \in Seq(Object), \A i \in DOMAIN objs : objs[i].mName \in Names,
           NEW i \in DOMAIN objs, NEW j \in DOMAIN objs,
           objs[i].mInheritsFrom = objs[j].mName, objs[j].mInheritsFrom # Blank
    PROVE  \E g \in DOMAIN objs : /\ objs[g].mName = objs[i].mInheritsFrom
                                  /\ MultipleInheritance(objs, i) = objs[g].mInheritsFrom
<1> DEFINE bases == {h \in DOMAIN objs : /\ objs[i].mInheritsFrom # Blank
                                         /\ objs[h].mName = objs[i].mInheritsFrom
                                         /\ objs[h].mInheritsFrom # Blank}
<1>1. j \in bases
  BY BlankAssumption
<1>2. \E g \in bases : \A h \in bases : h <= g
  <2>1. bases \subseteq 1 .. Len(objs) /\ Len(objs) \in Nat
    BY LenProperties
  <2> QED
    BY <1>1, <2>1, LastExists
<1>3. (CHOOSE g \in bases : \A h \in bases : h <= g) \in bases
  BY <1>2
<1>4. MultipleInheritance(objs, i)
        = objs[CHOOSE g \in bases : \A h \in bases : h <= g].mInheritsFrom
  BY <1>1 DEF MultipleInheritance
<1> QED
  BY <1>3, <1>4

(* A table whose names are all names of objects keeps none of its old      *)
(* entries: each name leads to the last object that carries it.            *)
LEMMA LookupTableWritten ==
    ASSUME NEW objs \in Seq(Object), NEW table, DOMAIN table \subseteq ObjectNames(objs)
    PROVE  /\ DOMAIN LookupTable(table, objs) = ObjectNames(objs)
           /\ \A n \in ObjectNames(objs) : LookupTable(table, objs)[n] = LastNamed(objs, n)
BY DEF LookupTable

(* The end of a file, the only step that leaves the loop, runs the passes  *)
(* over the pushed vector, whose objects all have names.                   *)
LEMMA AfterEndFile ==
    ASSUME TypeOK, EndFile
    PROVE  /\ PushCurrent \in Seq(Object)
           /\ \A i \in DOMAIN PushCurrent : PushCurrent[i].mName \in Names
           /\ mObjects' = ImportComplete(PushCurrent)
           /\ \E table \in TableAfterPush : mObjectMap' = LookupTable(table, PushCurrent)
<1>1. \A i \in DOMAIN PushCurrent : PushCurrent[i].mName \in Names
  BY AppendProperties, LenProperties DEF PushCurrent, TypeOK
<1> QED
  BY <1>1, PushType DEF EndFile, Imported

(* Inside the loop nothing is promised; outside it no other step acts.     *)
LEMMA OnlyEndFileLeaves ==
    ASSUME [Next]_vars, ~EndFile, ~parsing'
    PROVE  UNCHANGED <<mObjects, mObjectMap, parsing>>
<1>1. CASE OpenFile
  BY <1>1 DEF OpenFile
<1>2. ASSUME NEW r \in Rows, ProcessArgs(r)
      PROVE  FALSE
  <2>1. NextRow(r)
    BY <1>2 DEF ProcessArgs, EOFRow, SettingRow, SkipRow, ObjectRow, ItemRow
  <2>2. parsing /\ parsing' = parsing
    BY <2>1, Zenon DEF NextRow
  <2> QED
    BY <2>2, Zenon
<1>3. CASE UNCHANGED vars
  BY <1>3 DEF vars
<1> QED
  BY <1>1, <1>2, <1>3 DEF Next, FinishFile, EmptyFile

(* The names of the vector: a push or a link loses none. *)
LEMMA PushKeepsNames ==
    ASSUME TypeOK
    PROVE  ObjectNames(mObjects) \subseteq ObjectNames(PushCurrent)
<1>1. /\ DOMAIN mObjects \subseteq DOMAIN PushCurrent
      /\ \A i \in DOMAIN mObjects : PushCurrent[i] = mObjects[i]
  BY AppendProperties, LenProperties DEF PushCurrent, TypeOK
<1> QED
  BY <1>1 DEF ObjectNames

(* No object loses its name, so the table has no name that is not written  *)
(* again at the end of the next file.                                      *)
TableNamesObjects == DOMAIN mObjectMap \subseteq ObjectNames(mObjects)

LEMMA TableNamesStay ==
    ASSUME TypeOK, TableNamesObjects, [Next]_vars
    PROVE  TableNamesObjects'
<1>1. CASE UNCHANGED <<mObjects, mObjectMap>>
  BY <1>1 DEF TableNamesObjects
<1>2. ASSUME NEW r \in Rows, ProcessArgs(r), ~ObjectRow(r)
      PROVE  UNCHANGED <<mObjects, mObjectMap>>
  BY <1>2 DEF ProcessArgs, EOFRow, SettingRow, SkipRow, ItemRow
<1>3. ASSUME NEW r \in Rows, ObjectRow(r)
      PROVE  TableNamesObjects'
  <2>1. /\ r.kind = "object"
        /\ mObjects' = AddChild(PushCurrent, r.mInheritsFrom, r.mName)
        /\ mObjectMap' \in TableAfterPush
    BY <1>3 DEF ObjectRow
  <2>2. PICK X \in Seq(Object) : X = PushCurrent
    BY PushType
  <2>3. /\ DOMAIN mObjects' = DOMAIN X
        /\ \A i \in DOMAIN X : mObjects'[i].mName = X[i].mName
    <3>1. \A i \in DOMAIN X : X[i] \in Object
      BY ElementOfSeq, LenProperties
    <3> QED
      BY <2>1, <2>2, <3>1 DEF AddChild, Object
  <2>4. ObjectNames(mObjects') = ObjectNames(X)
    BY <2>3 DEF ObjectNames
  <2>5. DOMAIN mObjectMap' = DOMAIN mObjectMap
    BY <2>1, TableAfterPushType
  <2> QED
    BY <2>2, <2>4, <2>5, PushKeepsNames DEF TableNamesObjects
<1>4. CASE EndFile
  <2>1. PICK X \in Seq(Object) : X = PushCurrent /\ mObjects' = ImportComplete(X)
    BY <1>4, AfterEndFile
  <2>2. PICK table \in TableAfterPush : mObjectMap' = LookupTable(table, X)
    BY <1>4, <2>1, AfterEndFile
  <2>3. ObjectNames(mObjects') = ObjectNames(X)
    BY <2>1, ImportKeeps DEF ObjectNames
  <2>4. DOMAIN table \subseteq ObjectNames(X)
    BY <2>1, TableAfterPushType, PushKeepsNames DEF TableNamesObjects
  <2> QED
    BY <2>2, <2>3, <2>4, LookupTableWritten DEF TableNamesObjects
<1>5. CASE OpenFile \/ UNCHANGED vars
  BY <1>1, <1>5 DEF OpenFile, vars
<1> QED
  BY <1>1, <1>2, <1>3, <1>4, <1>5 DEF Next, FinishFile, EmptyFile

(* Between calls every entry of the lookup table points to an object where *)
(* it is now, the latest of its name, and every object's name has one:     *)
(* whatever push of this or an earlier file moved the objects and left the *)
(* entries dangling, none of them outlives importComplete (CreateDOM.cpp   *)
(* 3744-3748, 4359, 4546), since no name is ever lost.                     *)
THEOREM LookupCurrentAlways == Spec => []LookupCurrent
<1>1. Init => LookupCurrent /\ TableNamesObjects
  <2> SUFFICES ASSUME Init PROVE LookupCurrent /\ TableNamesObjects
    OBVIOUS
  <2>1. mObjects = <<>> /\ DOMAIN mObjects = {} /\ DOMAIN mObjectMap = {}
    BY DEF Init
  <2> QED
    BY <2>1 DEF LookupCurrent, TableNamesObjects, ObjectNames
<1>2. TypeOK /\ TableNamesObjects /\ [Next]_vars => TableNamesObjects'
  BY TableNamesStay
<1>3. TypeOK /\ TableNamesObjects /\ LookupCurrent /\ [Next]_vars => LookupCurrent'
  <2> SUFFICES ASSUME TypeOK, TableNamesObjects, LookupCurrent, [Next]_vars, ~parsing'
               PROVE  LookupCurrent'
    BY DEF LookupCurrent
  <2>1. CASE EndFile
    <3>1. PICK X \in Seq(Object) : X = PushCurrent /\ mObjects' = ImportComplete(X)
      BY <2>1, AfterEndFile
    <3>2. PICK table \in TableAfterPush : mObjectMap' = LookupTable(table, X)
      BY <2>1, <3>1, AfterEndFile
    <3>3. /\ DOMAIN mObjects' = DOMAIN X
          /\ \A i \in DOMAIN X : mObjects'[i].mName = X[i].mName
      BY <3>1, ImportKeeps
    <3>4. DOMAIN table \subseteq ObjectNames(X)
      BY <3>1, TableAfterPushType, PushKeepsNames DEF TableNamesObjects
    <3>5. /\ DOMAIN mObjectMap' = ObjectNames(X)
          /\ \A n \in ObjectNames(X) : mObjectMap'[n] = LastNamed(X, n)
      BY <3>2, <3>4, LookupTableWritten
    <3>6. ObjectNames(mObjects') = ObjectNames(X)
      BY <3>3 DEF ObjectNames
    <3>7. ASSUME NEW n \in ObjectNames(X)
          PROVE  /\ mObjectMap'[n] # Dangling
                 /\ mObjects'[mObjectMap'[n]].mName = n
                 /\ \A i \in DOMAIN mObjects' : mObjects'[i].mName = n => i <= mObjectMap'[n]
      <4>1. PICK m \in DOMAIN X : m = mObjectMap'[n]
        BY <3>5, LastNamedIs
      <4>2. X[m].mName = n /\ \A j \in DOMAIN X : X[j].mName = n => j <= m
        BY <3>5, <4>1, LastNamedIs
      <4>3. m # Dangling
        BY <4>1, LenProperties DEF Dangling
      <4> QED
        BY <3>3, <4>1, <4>2, <4>3
    <3> QED
      BY <3>5, <3>6, <3>7 DEF LookupCurrent
  <2>2. CASE ~EndFile
    BY <2>2, OnlyEndFileLeaves DEF LookupCurrent, ObjectNames
  <2> QED
    BY <2>1, <2>2
<1> QED
  BY <1>1, <1>2, <1>3, TypeCorrect, PTL DEF Spec

(* Between calls the marks for the deep treatment and the bases of bases   *)
(* do not depend on where in the input an object stands: the passes see    *)
(* the whole vector (importComplete, CreateDOM.cpp 3702-3736).             *)
THEOREM ImportOrderFreeAlways == Spec => []ImportOrderFree
<1>1. Init => ImportOrderFree
  <2>1. Init => DOMAIN mObjects = {}
    BY DEF Init
  <2> QED
    BY <2>1 DEF ImportOrderFree, ReflectionOrderFree, GrandBaseFound
<1>2. TypeOK /\ ImportOrderFree /\ [Next]_vars => ImportOrderFree'
  <2> SUFFICES ASSUME TypeOK, ImportOrderFree, [Next]_vars, ~parsing'
               PROVE  ImportOrderFree'
    BY DEF ImportOrderFree
  <2>1. CASE EndFile
    <3>1. PICK X \in Seq(Object) : X = PushCurrent /\ mObjects' = ImportComplete(X)
      BY <2>1, AfterEndFile
    <3>2. \A i \in DOMAIN X : X[i].mName \in Names
      BY <2>1, <3>1, AfterEndFile
    <3>3. /\ DOMAIN mObjects' = DOMAIN X
          /\ \A i \in DOMAIN X :
               /\ mObjects'[i].mName = X[i].mName
               /\ DOMAIN mObjects'[i].mItems = DOMAIN X[i].mItems
               /\ \A k \in DOMAIN X[i].mItems :
                    mObjects'[i].mItems[k].mType = X[i].mItems[k].mType
      BY <3>1, ImportKeeps
    <3>4. \A i \in DOMAIN X :
            /\ mObjects'[i].mNeedsReflection = ComputeNeedsReflection(X[i])
            /\ mObjects'[i].mInheritsFrom = X[i].mInheritsFrom
            /\ mObjects'[i].mMultipleInherticance = MultipleInheritance(X, i)
      BY <3>1, ImportWrites
    <3>5. ReflectionOrderFree'
      <4>1. SUFFICES ASSUME NEW i \in DOMAIN X, NEW j \in DOMAIN X,
                            NEW k \in DOMAIN X[i].mItems,
                            ComputeNeedsReflection(X[j]),
                            X[i].mItems[k].mType = X[j].mName
                     PROVE  mObjects'[i].mItems[k].mNeedsReflection
        BY <3>3, <3>4 DEF ReflectionOrderFree
      <4>2. X[i].mItems[k].mType \in NeedsReflectionClasses(X)
        BY <4>1 DEF NeedsReflectionClasses
      <4>3. mObjects'[i].mItems[k].mNeedsReflection =
                (X[i].mItems[k].mIsPointer \/ X[i].mItems[k].mType = "string"
                    \/ X[i].mItems[k].mType \in NeedsReflectionClasses(X))
        BY <3>1, ImportWrites
      <4> QED
        BY <4>2, <4>3, Zenon
    <3>6. GrandBaseFound'
      <4>1. SUFFICES ASSUME NEW i \in DOMAIN X, NEW j \in DOMAIN X,
                            X[i].mInheritsFrom = X[j].mName, X[j].mInheritsFrom # Blank
                     PROVE  \E g \in DOMAIN X :
                              /\ X[g].mName = X[i].mInheritsFrom
                              /\ MultipleInheritance(X, i) = X[g].mInheritsFrom
        BY <3>3, <3>4 DEF GrandBaseFound
      <4> QED
        BY <3>2, <4>1, MultipleInheritanceFound
    <3> QED
      BY <3>5, <3>6 DEF ImportOrderFree
  <2>2. CASE ~EndFile
    <3>1. UNCHANGED <<mObjects, parsing>>
      BY <2>2, OnlyEndFileLeaves
    <3> QED
      BY <3>1 DEF ImportOrderFree, ReflectionOrderFree, GrandBaseFound
  <2> QED
    BY <2>1, <2>2
<1> QED
  BY <1>1, <1>2, TypeCorrect, PTL DEF Spec

-----------------------------------------------------------------------------
(* The object rows among the rows read, and the type of the history. *)
ObjectRows == {h \in DOMAIN log : log[h].kind = "object"}
Log == Seq(Row \union {[kind |-> "end"]})

(* The number of object rows up to an object row is a position, and at the *)
(* last object row it is the number of all of them.                        *)
LEMMA PlaceOfRow ==
    ASSUME log \in Log
    PROVE  /\ IsFiniteSet(ObjectRows)
           /\ Cardinality(ObjectRows) \in Nat
           /\ \A h \in ObjectRows :
                /\ PlaceOf(h) \in 1 .. Cardinality(ObjectRows)
                /\ (\A g \in h + 1 .. Len(log) : log[g].kind # "object")
                       => PlaceOf(h) = Cardinality(ObjectRows)
<1> DEFINE upTo(h) == {g \in 1 .. h : log[g].kind = "object"}
<1>1. Len(log) \in Nat /\ DOMAIN log = 1 .. Len(log)
  BY LenProperties DEF Log
<1>2. IsFiniteSet(ObjectRows) /\ Cardinality(ObjectRows) \in Nat
  <2>1. IsFiniteSet(1 .. Len(log)) /\ ObjectRows \subseteq 1 .. Len(log)
    BY <1>1, FS_Interval DEF ObjectRows
  <2> QED
    BY <2>1, FS_Subset, FS_CardinalityType
<1>3. ASSUME NEW h \in ObjectRows
      PROVE  /\ PlaceOf(h) \in 1 .. Cardinality(ObjectRows)
             /\ (\A g \in h + 1 .. Len(log) : log[g].kind # "object")
                    => PlaceOf(h) = Cardinality(ObjectRows)
  <2>1. h \in 1 .. Len(log) /\ h \in upTo(h) /\ upTo(h) \subseteq ObjectRows
    BY <1>1 DEF ObjectRows
  <2>2. PlaceOf(h) = Cardinality(upTo(h))
    BY DEF PlaceOf
  <2>3. (\A g \in h + 1 .. Len(log) : log[g].kind # "object") => upTo(h) = ObjectRows
    BY <1>1, <2>1 DEF ObjectRows
  <2> HIDE DEF upTo
  <2>4. /\ IsFiniteSet(upTo(h)) /\ Cardinality(upTo(h)) \in Nat
        /\ Cardinality(upTo(h)) <= Cardinality(ObjectRows)
    BY <1>2, <2>1, FS_Subset, FS_CardinalityType
  <2>5. Cardinality(upTo(h)) # 0
    BY <2>1, <2>4, FS_EmptySet
  <2> QED
    BY <1>2, <2>2, <2>3, <2>4, <2>5
<1> QED
  BY <1>2, <1>3

(* A row at the end of the log moves no earlier object row and opens       *)
(* nothing for an earlier row; an object row is one more, any other none.  *)
LEMMA LogGrows ==
    ASSUME log \in Log, NEW r, log' = Append(log, r),
           NEW n, n = Len(log) + 1
    PROVE  /\ n - 1 \in Nat /\ DOMAIN log = 1 .. n - 1 /\ DOMAIN log' = 1 .. n
           /\ Len(log') = n
           /\ \A i \in 1 .. n - 1 : log'[i] = log[i]
           /\ log'[n] = r
           /\ \A i \in 1 .. n - 1 : PlaceOf(i)' = PlaceOf(i) /\ OpenedBy(i)' = OpenedBy(i)
           /\ r.kind # "object" => ObjectRows' = ObjectRows
           /\ r.kind = "object" =>
                /\ ObjectRows' = ObjectRows \union {n}
                /\ Cardinality(ObjectRows)' = Cardinality(ObjectRows) + 1
                /\ PlaceOf(n)' = Cardinality(ObjectRows) + 1
<1>1. /\ n - 1 \in Nat /\ Len(log) = n - 1 /\ DOMAIN log = 1 .. n - 1
      /\ Len(log') = n /\ DOMAIN log' = 1 .. n
      /\ \A i \in 1 .. n - 1 : log'[i] = log[i]
      /\ log'[n] = r
  BY AppendProperties, LenProperties DEF Log
<1>2. ASSUME NEW i \in 1 .. n - 1
      PROVE  PlaceOf(i)' = PlaceOf(i) /\ OpenedBy(i)' = OpenedBy(i)
  <2>1. \A g \in 1 .. i : log'[g] = log[g]
    BY <1>1
  <2>2. {g \in 1 .. i : log'[g].kind = "object"} = {g \in 1 .. i : log[g].kind = "object"}
    BY <2>1
  <2>3. \A h \in 1 .. i : \A g \in h + 1 .. i : log'[g] = log[g]
    BY <1>1, <2>1
  <2>4. OpenedBy(i)' = OpenedBy(i)
    BY <2>1, <2>3 DEF OpenedBy
  <2> QED
    BY <2>2, <2>4 DEF PlaceOf
<1>3. r.kind # "object" => ObjectRows' = ObjectRows
  BY <1>1 DEF ObjectRows
<1>4. ASSUME r.kind = "object"
      PROVE  /\ ObjectRows' = ObjectRows \union {n}
             /\ Cardinality(ObjectRows)' = Cardinality(ObjectRows) + 1
             /\ PlaceOf(n)' = Cardinality(ObjectRows) + 1
  <2>1. ObjectRows' = ObjectRows \union {n} /\ n \notin ObjectRows
    BY <1>1, <1>4 DEF ObjectRows
  <2>2. {g \in 1 .. n : log'[g].kind = "object"} = ObjectRows'
    BY <1>1 DEF ObjectRows
  <2>3. Cardinality(ObjectRows \union {n}) = Cardinality(ObjectRows) + 1
    BY <2>1, PlaceOfRow, FS_AddElement
  <2> QED
    BY <2>1, <2>2, <2>3 DEF PlaceOf
<1> QED
  BY <1>1, <1>2, <1>3, <1>4

(* Objects whose names and bases are those of the vector after the push    *)
(* are, behind the open object or with it, documents that keep them.       *)
LEMMA PushKeepsAttributes ==
    ASSUME TypeOK, NEW objs \in Seq(Object), NEW current \in Object,
           Len(objs) = Len(PushCurrent),
           \A i \in DOMAIN PushCurrent : /\ objs[i].mName = PushCurrent[i].mName
                                         /\ objs[i].mInheritsFrom = PushCurrent[i].mInheritsFrom,
           mObjects' = objs, mCurrentObject' = current
    PROVE  /\ Len(PushCurrent) = Len(mObjects) + (IF mHaveObject THEN 1 ELSE 0)
           /\ Len(mObjects') = Len(PushCurrent) /\ Len(PushCurrent) \in Nat
           /\ Documents'[Len(PushCurrent) + 1] = current
           /\ \A d \in 1 .. Len(PushCurrent) :
                /\ Documents'[d].mName = Documents[d].mName
                /\ Documents'[d].mInheritsFrom = Documents[d].mInheritsFrom
<1>1. /\ \A d \in 1 .. Len(objs) : Documents'[d] = objs[d]
      /\ Documents'[Len(objs) + 1] = current
  BY AppendProperties, LenProperties DEF Documents
<1>2. /\ DOMAIN PushCurrent = 1 .. Len(PushCurrent)
      /\ Len(PushCurrent) \in Nat
  BY PushType, LenProperties
<1>3. \A d \in 1 .. Len(PushCurrent) : Documents[d] = PushCurrent[d]
  BY DocumentsType DEF PushCurrent, Documents
<1>4. Len(PushCurrent) = Len(mObjects) + (IF mHaveObject THEN 1 ELSE 0)
  BY AppendProperties, DocumentsType DEF PushCurrent, TypeOK
<1> HIDE DEF Documents
<1> QED
  BY <1>1, <1>2, <1>3, <1>4

(* The order of the objects, in terms of ObjectRows. *)
LEMMA InOrder ==
    ObjectsInOrder <=>
        /\ Len(mObjects) + (IF mHaveObject THEN 1 ELSE 0) = Cardinality(ObjectRows)
        /\ \A h \in ObjectRows :
             /\ Documents[PlaceOf(h)].mName = log[h].mName
             /\ Documents[PlaceOf(h)].mInheritsFrom = log[h].mInheritsFrom
BY DEF ObjectsInOrder, ObjectRows

(* The inductive invariant: besides ItemsOwned, the last row belongs to an *)
(* object row only while an object is open, which is what lets the next    *)
(* item row go to the right place.                                         *)
MembersOwned == \A p \in Members : \A h \in OpenedBy(MemberAt(p).row) : p[1] = PlaceOf(h)
OwnedInv ==
    /\ ObjectsInOrder
    /\ MembersOwned
    /\ OpenedBy(Len(log)) # {} => mHaveObject

(* A step that leaves the members where they are, with their rows, leaves  *)
(* them with their owners.                                                 *)
LEMMA OwnersStay ==
    ASSUME log \in Log, ItemsConserved, MembersOwned,
           NEW r, log' = Append(log, r), Members' = Members,
           \A p \in Members : (MemberAt(p).row)' = MemberAt(p).row
    PROVE  MembersOwned'
<1>1. PICK n : n = Len(log) + 1
  OBVIOUS
<1>2. /\ DOMAIN log = 1 .. n - 1
      /\ \A i \in 1 .. n - 1 : PlaceOf(i)' = PlaceOf(i) /\ OpenedBy(i)' = OpenedBy(i)
  BY <1>1, LogGrows
<1>3. ASSUME NEW p \in Members, NEW h \in OpenedBy(MemberAt(p).row)'
      PROVE  p[1] = PlaceOf(h)'
  <2>1. PICK i \in 1 .. n - 1 : i = MemberAt(p).row
    BY <1>2 DEF ItemsConserved
  <2>2. (MemberAt(p).row)' = i
    BY <2>1
  <2> HIDE DEF Members, MemberAt
  <2>3. h \in OpenedBy(i)
    BY <1>2, <1>3, <2>2
  <2>4. h \in 1 .. n - 1
    BY <1>1, <1>2, <2>3, LenProperties DEF OpenedBy, Log
  <2> QED
    BY <1>2, <2>1, <2>3, <2>4 DEF MembersOwned
<1> HIDE DEF Members, MemberAt
<1> QED
  BY <1>3 DEF MembersOwned

(* An object row takes the place behind the objects there are. *)
LEMMA ObjectRowInOrder ==
    ASSUME TypeOK, OwnedInv, NEW r \in Rows, ObjectRow(r)
    PROVE  ObjectsInOrder' /\ mHaveObject'
<1> DEFINE objs == AddChild(PushCurrent, r.mInheritsFrom, r.mName)
           current == [Cleared EXCEPT !.mName = r.mName, !.mType = r.mType,
                                      !.mInheritsFrom = r.mInheritsFrom]
<1>1. /\ r.kind = "object" /\ log' = Append(log, r) /\ mHaveObject' = TRUE
      /\ mObjects' = objs /\ mCurrentObject' = current
  BY DEF ObjectRow, NextRow
<1>2. /\ current \in Object
      /\ current.mName = r.mName /\ current.mInheritsFrom = r.mInheritsFrom
  BY <1>1, PushType, RowFields DEF Object
<1>3. /\ objs \in Seq(Object) /\ Len(objs) = Len(PushCurrent)
      /\ PushCurrent \in Seq(Object)
  BY <1>1, PushType, RowFields, AddChildKeeps
<1>4. \A i \in DOMAIN PushCurrent : /\ objs[i].mName = PushCurrent[i].mName
                                    /\ objs[i].mInheritsFrom = PushCurrent[i].mInheritsFrom
  <2>1. \A i \in DOMAIN PushCurrent : PushCurrent[i] \in Object
    BY <1>3, ElementOfSeq, LenProperties
  <2> QED
    BY <2>1 DEF AddChild, Object
<1> HIDE DEF objs, current
<1>5. /\ Len(PushCurrent) = Len(mObjects) + (IF mHaveObject THEN 1 ELSE 0)
      /\ Len(mObjects') = Len(PushCurrent) /\ Len(PushCurrent) \in Nat
      /\ Documents'[Len(PushCurrent) + 1] = current
      /\ \A d \in 1 .. Len(PushCurrent) :
           /\ Documents'[d].mName = Documents[d].mName
           /\ Documents'[d].mInheritsFrom = Documents[d].mInheritsFrom
  BY <1>1, <1>2, <1>3, <1>4, PushKeepsAttributes
<1>6. PICK n, c : n = Len(log) + 1 /\ c = Len(PushCurrent)
  OBVIOUS
<1>7. log \in Log
  BY DEF TypeOK, Log
<1>8. /\ n - 1 \in Nat /\ DOMAIN log = 1 .. n - 1
      /\ log'[n] = r
      /\ \A i \in 1 .. n - 1 : log'[i] = log[i] /\ PlaceOf(i)' = PlaceOf(i)
      /\ ObjectRows' = ObjectRows \union {n}
      /\ Cardinality(ObjectRows)' = Cardinality(ObjectRows) + 1
      /\ PlaceOf(n)' = Cardinality(ObjectRows) + 1
  BY <1>1, <1>6, <1>7, LogGrows
<1>9. c = Cardinality(ObjectRows) /\ c \in Nat
  BY <1>5, <1>6, InOrder DEF OwnedInv
<1>10. ASSUME NEW h \in ObjectRows'
       PROVE  /\ Documents'[PlaceOf(h)'].mName = log'[h].mName
              /\ Documents'[PlaceOf(h)'].mInheritsFrom = log'[h].mInheritsFrom
  <2>1. CASE h = n
    BY <1>2, <1>5, <1>6, <1>8, <1>9, <2>1
  <2>2. CASE h \in ObjectRows
    <3>1. h \in 1 .. n - 1
      BY <1>8, <2>2 DEF ObjectRows
    <3>2. PICK d \in 1 .. c : d = PlaceOf(h) /\ d = PlaceOf(h)'
      BY <1>7, <1>8, <1>9, <2>2, <3>1, PlaceOfRow
    <3> HIDE DEF Documents, PlaceOf
    <3>3. Documents[d].mName = log[h].mName /\ Documents[d].mInheritsFrom = log[h].mInheritsFrom
      BY <2>2, <3>2, InOrder DEF OwnedInv
    <3> QED
      BY <1>5, <1>6, <1>8, <3>1, <3>2, <3>3
  <2> QED
    BY <1>8, <2>1, <2>2
<1>11. Len(mObjects') + (IF mHaveObject' THEN 1 ELSE 0) = Cardinality(ObjectRows)'
  BY <1>1, <1>5, <1>6, <1>8, <1>9
<1> QED
  BY <1>1, <1>10, <1>11 DEF ObjectsInOrder, ObjectRows

(* A row that is no object row keeps the order as long as the vector and   *)
(* the open object together keep their length, names and bases.            *)
LEMMA OtherRowsInOrder ==
    ASSUME TypeOK, TypeOK', OwnedInv, NEW r, r.kind # "object", log' = Append(log, r),
           Len(mObjects') + (IF mHaveObject' THEN 1 ELSE 0)
                = Len(mObjects) + (IF mHaveObject THEN 1 ELSE 0),
           \A d \in 1 .. Len(mObjects) + (IF mHaveObject THEN 1 ELSE 0) :
                /\ Documents'[d].mName = Documents[d].mName
                /\ Documents'[d].mInheritsFrom = Documents[d].mInheritsFrom
    PROVE  ObjectsInOrder'
<1>1. PICK n, c : n = Len(log) + 1 /\ c = Len(mObjects) + (IF mHaveObject THEN 1 ELSE 0)
  OBVIOUS
<1>2. log \in Log
  BY DEF TypeOK, Log
<1>3. /\ DOMAIN log = 1 .. n - 1
      /\ \A i \in 1 .. n - 1 : log'[i] = log[i] /\ PlaceOf(i)' = PlaceOf(i)
      /\ ObjectRows' = ObjectRows
  BY <1>1, <1>2, LogGrows
<1>4. c = Cardinality(ObjectRows)
  BY <1>1, InOrder DEF OwnedInv
<1>5. ASSUME NEW h \in ObjectRows
      PROVE  /\ Documents'[PlaceOf(h)'].mName = log'[h].mName
             /\ Documents'[PlaceOf(h)'].mInheritsFrom = log'[h].mInheritsFrom
  <2>1. h \in 1 .. n - 1
    BY <1>3 DEF ObjectRows
  <2>2. PICK d \in 1 .. c : d = PlaceOf(h) /\ d = PlaceOf(h)'
    BY <1>2, <1>3, <1>4, <2>1, PlaceOfRow
  <2> HIDE DEF Documents, PlaceOf
  <2>3. Documents[d].mName = log[h].mName /\ Documents[d].mInheritsFrom = log[h].mInheritsFrom
    BY <2>2, InOrder DEF OwnedInv
  <2> QED
    BY <1>1, <1>3, <2>1, <2>2, <2>3
<1>6. Len(mObjects') + (IF mHaveObject' THEN 1 ELSE 0) = Cardinality(ObjectRows')
  BY <1>1, <1>3, <1>4
<1> HIDE DEF Documents, PlaceOf
<1> QED
  BY <1>3, <1>5, <1>6 DEF ObjectsInOrder, ObjectRows

(* After a row that neither opens an object nor ends the file, the last    *)
(* row belongs to an object row only if the row before it did.             *)
LEMMA LastRowOwner ==
    ASSUME log \in Log, NEW r, log' = Append(log, r), r.kind # "object",
           NEW n, n = Len(log) + 1, NEW h \in OpenedBy(n)'
    PROVE  /\ h \in OpenedBy(Len(log))
           /\ r.kind # "end"
<1>1. /\ n - 1 \in Nat /\ DOMAIN log = 1 .. n - 1 /\ Len(log) = n - 1
      /\ \A i \in 1 .. n - 1 : log'[i] = log[i]
      /\ log'[n] = r
  BY LogGrows
<1>2. /\ h \in 1 .. n /\ log'[h].kind = "object"
      /\ \A g \in h + 1 .. n : log'[g].kind \notin {"object", "end"}
  BY DEF OpenedBy
<1>3. h \in 1 .. n - 1 /\ n \in h + 1 .. n
  BY <1>1, <1>2
<1>4. \A g \in h + 1 .. n - 1 : g \in h + 1 .. n /\ g \in 1 .. n - 1
  BY <1>1, <1>3
<1>5. h \in OpenedBy(n - 1)
  BY <1>1, <1>2, <1>3, <1>4 DEF OpenedBy
<1> QED
  BY <1>1, <1>2, <1>3, <1>5

(* An item row goes to the object whose row is the last one.               *)
LEMMA ItemRowOwned ==
    ASSUME TypeOK, ItemsConserved, OwnedInv, NEW r \in Rows, ItemRow(r)
    PROVE  MembersOwned'
<1>1. /\ r.kind = "item" /\ log' = Append(log, r) /\ log \in Log
  BY DEF ItemRow, NextRow, TypeOK, Log
<1>2. PICK n : n = Len(log) + 1
  OBVIOUS
<1>3. /\ DOMAIN log = 1 .. n - 1 /\ Len(log) = n - 1 /\ n - 1 \in Nat
      /\ \A i \in 1 .. n - 1 : /\ log'[i] = log[i]
                               /\ PlaceOf(i)' = PlaceOf(i)
                               /\ OpenedBy(i)' = OpenedBy(i)
  BY <1>1, <1>2, LogGrows
<1>4. PICK new : /\ new[1] = Len(mObjects) + 1
                 /\ Members' = Members \union {new}
                 /\ MemberAt(new)' = NewMember(r)
                 /\ \A p \in Members : MemberAt(p)' = MemberAt(p)
  BY ItemRowAddsMember
<1>5. ASSUME NEW p \in Members, NEW h \in OpenedBy(MemberAt(p).row)'
      PROVE  p[1] = PlaceOf(h)'
  <2>1. PICK i \in 1 .. n - 1 : i = MemberAt(p).row
    BY <1>3 DEF ItemsConserved
  <2>2. (MemberAt(p).row)' = i
    BY <1>4, <2>1
  <2> HIDE DEF Members, MemberAt
  <2>3. h \in OpenedBy(i)
    BY <1>3, <1>5, <2>2
  <2>4. h \in 1 .. n - 1
    BY <1>3, <2>3 DEF OpenedBy
  <2> QED
    BY <1>3, <2>1, <2>3, <2>4 DEF MembersOwned, OwnedInv
<1>6. ASSUME NEW h \in OpenedBy(MemberAt(new).row)'
      PROVE  new[1] = PlaceOf(h)'
  <2>1. (MemberAt(new).row)' = n
    BY <1>2, <1>4 DEF NewMember
  <2>2. h \in OpenedBy(n)'
    BY <1>6, <2>1
  <2>3. h \in OpenedBy(n - 1)
    BY <1>1, <1>2, <1>3, <2>2, LastRowOwner
  <2>4. mHaveObject /\ Len(mObjects) + 1 = Cardinality(ObjectRows)
    BY <1>3, <2>3, InOrder DEF OwnedInv
  <2>5. /\ h \in 1 .. n - 1 /\ log[h].kind = "object"
        /\ \A g \in h + 1 .. n - 1 : log[g].kind # "object"
    BY <2>3 DEF OpenedBy
  <2>6. PlaceOf(h) = Cardinality(ObjectRows)
    BY <1>1, <1>3, <2>5, PlaceOfRow DEF ObjectRows
  <2> QED
    BY <1>3, <1>4, <2>4, <2>5, <2>6
<1> HIDE DEF Members, MemberAt
<1> QED
  BY <1>4, <1>5, <1>6 DEF MembersOwned

(* The end of a file pushes the open object and keeps the order. *)
LEMMA EndFileInOrder ==
    ASSUME TypeOK, TypeOK', OwnedInv, EndFile
    PROVE  ObjectsInOrder' /\ log' = Append(log, [kind |-> "end"])
<1> DEFINE objs == ImportComplete(PushCurrent)
           current == Cleared
<1>1. /\ log' = Append(log, [kind |-> "end"]) /\ mHaveObject' = FALSE
      /\ mObjects' = objs /\ mCurrentObject' = current
  BY DEF EndFile, Imported
<1>2. /\ objs \in Seq(Object) /\ current \in Object
      /\ Len(objs) = Len(PushCurrent)
      /\ \A i \in DOMAIN PushCurrent : /\ objs[i].mName = PushCurrent[i].mName
                                       /\ objs[i].mInheritsFrom = PushCurrent[i].mInheritsFrom
  BY PushType, ImportKeeps, ImportWrites
<1> HIDE DEF objs, current
<1>3. /\ Len(PushCurrent) = Len(mObjects) + (IF mHaveObject THEN 1 ELSE 0)
      /\ Len(mObjects') = Len(PushCurrent) /\ Len(PushCurrent) \in Nat
      /\ \A d \in 1 .. Len(PushCurrent) :
           /\ Documents'[d].mName = Documents[d].mName
           /\ Documents'[d].mInheritsFrom = Documents[d].mInheritsFrom
  BY <1>1, <1>2, PushKeepsAttributes
<1>4. PICK r : r = [kind |-> "end"]
  OBVIOUS
<1>5. r.kind # "object"
  BY <1>4
<1>6. Len(mObjects') + (IF mHaveObject' THEN 1 ELSE 0) = Len(PushCurrent)
  BY <1>1, <1>3
<1> HIDE DEF Documents
<1> QED
  BY <1>1, <1>3, <1>4, <1>5, <1>6, OtherRowsInOrder

(* Rows that are neither object rows nor the end of a file keep the order. *)
LEMMA PlainRowInOrder ==
    ASSUME TypeOK, TypeOK', OwnedInv, NEW r \in Rows, ProcessArgs(r), ~ObjectRow(r)
    PROVE  /\ ObjectsInOrder'
           /\ r.kind \notin {"object", "end"} /\ mHaveObject' = mHaveObject
<1>1. /\ r.kind \notin {"object", "end"} /\ log' = Append(log, r)
      /\ UNCHANGED <<mObjects, mHaveObject>>
  BY DEF ProcessArgs, EOFRow, SettingRow, SettingKinds, SkipRow, ItemRow, NextRow
<1>2. /\ mCurrentObject'.mName = mCurrentObject.mName
      /\ mCurrentObject'.mInheritsFrom = mCurrentObject.mInheritsFrom
  BY DEF ProcessArgs, EOFRow, SettingRow, SkipRow, ItemRow, TypeOK, Object
<1>3. /\ Len(mObjects) \in Nat
      /\ \A d \in 1 .. Len(mObjects) :
            Documents[d] = mObjects[d] /\ Documents'[d] = mObjects[d]
      /\ Documents[Len(mObjects) + 1] = mCurrentObject
      /\ Documents'[Len(mObjects) + 1] = mCurrentObject'
  BY <1>1, AppendProperties, LenProperties DEF Documents, TypeOK
<1> HIDE DEF Documents
<1>4. \A d \in 1 .. Len(mObjects) + (IF mHaveObject THEN 1 ELSE 0) :
            d \in 1 .. Len(mObjects) \/ d = Len(mObjects) + 1
  BY <1>3
<1>5. \A d \in 1 .. Len(mObjects) + (IF mHaveObject THEN 1 ELSE 0) :
                /\ Documents'[d].mName = Documents[d].mName
                /\ Documents'[d].mInheritsFrom = Documents[d].mInheritsFrom
  BY <1>2, <1>3, <1>4
<1> QED
  BY <1>1, <1>5, OtherRowsInOrder

(* Object rows and objects correspond one to one and in order, and every   *)
(* member stays with the object row above it, for every sequence of rows   *)
(* and files (processArgs and parseCSV, CreateDOM.cpp 4271-4366, 4544-4564 *)
(* and 4717).                                                              *)
THEOREM ItemsOwnedAlways == Spec => []ItemsOwned
<1>1. Init => OwnedInv
  <2> SUFFICES ASSUME Init PROVE OwnedInv
    OBVIOUS
  <2>1. mObjects = <<>> /\ log = <<>> /\ Len(mObjects) = 0 /\ mHaveObject = FALSE
    BY EmptySeq DEF Init
  <2>2. Documents = <<EmptyObject>> /\ ObjectRows = {} /\ OpenedBy(Len(log)) = {}
    BY <2>1 DEF Init, Documents, ObjectRows, OpenedBy
  <2>3. Members = {}
    BY <2>2 DEF Members, EmptyObject
  <2>4. ObjectsInOrder
    BY <2>1, <2>2, FS_EmptySet, InOrder
  <2> QED
    BY <2>2, <2>3, <2>4 DEF OwnedInv, MembersOwned
<1>2. TypeOK /\ TypeOK' /\ ItemsConserved /\ OwnedInv /\ [Next]_vars => OwnedInv'
  <2> SUFFICES ASSUME TypeOK, TypeOK', ItemsConserved, OwnedInv, [Next]_vars
               PROVE  OwnedInv'
    OBVIOUS
  <2>0. TypeOK /\ TypeOK' /\ log \in Log /\ MembersOwned
    BY DEF TypeOK, Log, OwnedInv
  <2>1. CASE log' = log /\ UNCHANGED <<mObjects, mCurrentObject, mHaveObject>>
    <3>1. /\ ObjectRows' = ObjectRows
          /\ \A h : PlaceOf(h)' = PlaceOf(h) /\ OpenedBy(h)' = OpenedBy(h)
      BY <2>1 DEF ObjectRows, PlaceOf, OpenedBy
    <3>2. /\ Documents' = Documents /\ Members' = Members
          /\ \A p \in Members : (MemberAt(p).row)' = MemberAt(p).row
      BY <2>1 DEF Documents, Members, MemberAt
    <3>3. OpenedBy(Len(log))' = OpenedBy(Len(log))
      BY <2>1 DEF OpenedBy
    <3>4. ObjectsInOrder'
      BY <2>1 DEF OwnedInv, ObjectsInOrder, PlaceOf, Documents
    <3> HIDE DEF Documents, Members, MemberAt, PlaceOf, OpenedBy
    <3>5. MembersOwned'
      <4>1. ASSUME NEW p \in Members, NEW h \in OpenedBy(MemberAt(p).row)'
            PROVE  p[1] = PlaceOf(h)'
        <5>1. PICK i : i = MemberAt(p).row
          OBVIOUS
        <5>2. (MemberAt(p).row)' = i
          BY <3>2, <5>1
        <5>3. h \in OpenedBy(i)
          BY <3>1, <4>1, <5>2
        <5> QED
          BY <2>0, <3>1, <5>1, <5>3 DEF MembersOwned
      <4> QED
        BY <3>2, <4>1 DEF MembersOwned
    <3> QED
      BY <2>1, <3>3, <3>4, <3>5 DEF OwnedInv
  <2>2. ASSUME NEW r \in Rows, ProcessArgs(r), log' = Append(log, r)
        PROVE  OwnedInv'
    <3>1. CASE ObjectRow(r)
      <4>1. ObjectsInOrder' /\ mHaveObject'
        BY <2>0, <3>1, ObjectRowInOrder
      <4>2. \A s \in Rows : ~ItemRow(s)
        <5>1. SUFFICES ASSUME NEW s \in Rows, ItemRow(s) PROVE FALSE
          OBVIOUS
        <5>2. PICK n : n = Len(log) + 1
          OBVIOUS
        <5>3. r.kind = "object" /\ s.kind = "item" /\ log' = Append(log, s)
          BY <3>1, <5>1 DEF ObjectRow, ItemRow, NextRow
        <5>4. log'[n] = r
          BY <2>0, <2>2, <5>2, LogGrows
        <5>5. log'[n] = s
          BY <2>0, <5>2, <5>3, LogGrows
        <5> QED
          BY <5>3, <5>4, <5>5
      <4>3. MembersOwned'
        BY <2>0, <2>2, <4>2, OtherStepsKeepMembers, OwnersStay
      <4> QED
        BY <4>1, <4>3 DEF OwnedInv
    <3>2. CASE ~ObjectRow(r)
      <4>1. /\ ObjectsInOrder'
            /\ r.kind \notin {"object", "end"} /\ mHaveObject' = mHaveObject
        BY <2>0, <2>2, <3>2, PlainRowInOrder
      <4>2. MembersOwned'
        <5>1. CASE \A s \in Rows : ~ItemRow(s)
          BY <2>0, <2>2, <5>1, OtherStepsKeepMembers, OwnersStay
        <5>2. ASSUME NEW s \in Rows, ItemRow(s)
              PROVE  MembersOwned'
          BY <2>0, <5>2, ItemRowOwned
        <5> QED
          BY <5>1, <5>2
      <4>3. OpenedBy(Len(log))' # {} => mHaveObject'
        <5>1. SUFFICES ASSUME NEW h \in OpenedBy(Len(log))' PROVE mHaveObject'
          OBVIOUS
        <5>2. PICK n : n = Len(log) + 1
          OBVIOUS
        <5>3. Len(log') = n
          BY <2>0, <2>2, <5>2, LogGrows
        <5>4. h \in OpenedBy(n)'
          BY <5>1, <5>3
        <5>5. OpenedBy(Len(log)) # {}
          BY <2>0, <2>2, <4>1, <5>2, <5>4, LastRowOwner
        <5>6. mHaveObject
          BY <5>5 DEF OwnedInv
        <5> QED
          BY <4>1, <5>6
      <4> QED
        BY <4>1, <4>2, <4>3 DEF OwnedInv
    <3> QED
      BY <3>1, <3>2
  <2>3. CASE EndFile
    <3>1. PICK r, n : r = [kind |-> "end"] /\ n = Len(log) + 1
      OBVIOUS
    <3>2. ObjectsInOrder' /\ log' = Append(log, r)
      BY <2>0, <2>3, <3>1, EndFileInOrder
    <3>3. r.kind = "end" /\ r.kind # "object"
      BY <3>1
    <3>4. \A s \in Rows : ~ItemRow(s)
      BY <2>3 DEF EndFile, ItemRow, NextRow
    <3>5. MembersOwned'
      BY <2>0, <3>2, <3>4, OtherStepsKeepMembers, OwnersStay
    <3>6. OpenedBy(n)' = {}
      BY <2>0, <3>1, <3>2, <3>3, LastRowOwner
    <3>7. Len(log') = n
      BY <2>0, <3>1, <3>2, LogGrows
    <3>8. OpenedBy(Len(log))' = {}
      BY <3>6, <3>7
    <3> QED
      BY <3>2, <3>5, <3>8 DEF OwnedInv
  <2> QED
    BY <2>1, <2>2, <2>3, LogSteps
<1>3. OwnedInv => ItemsOwned
  BY DEF OwnedInv, ItemsOwned, MembersOwned
<1> QED
  BY <1>1, <1>2, <1>3, TypeCorrect, MembersConserved, PTL DEF Spec

-----------------------------------------------------------------------------
(* The documents behind the i-th that name it as their base. *)
Derived(docs, i) ==
    {d \in i + 1 .. Len(docs) : /\ docs[i].mName # Blank
                                /\ docs[d].mInheritsFrom = docs[i].mName}

(* mChildren of the i-th document is the names of those, in order, and     *)
(* nothing else: the inductive form of ChildrenInherit, which also says    *)
(* what a base learns that had derived rows before its own.                *)
ChildrenFollow(docs, i) ==
    /\ Len(docs[i].mChildren) = Cardinality(Derived(docs, i))
    /\ \A d \in Derived(docs, i) :
         docs[i].mChildren[Cardinality({e \in Derived(docs, i) : e <= d})] = docs[d].mName
    /\ \A k \in DOMAIN docs[i].mChildren :
         \E d \in Derived(docs, i) : docs[i].mChildren[k] = docs[d].mName

(* The fields of a vector that mChildren depends on. *)
SameFamily(a, b) ==
    /\ a.mName = b.mName
    /\ a.mInheritsFrom = b.mInheritsFrom
    /\ a.mChildren = b.mChildren

(* Only those fields matter. *)
LEMMA FollowSame ==
    ASSUME NEW X \in Seq(Object), NEW Y \in Seq(Object), Len(X) = Len(Y),
           \A i \in DOMAIN X : SameFamily(X[i], Y[i]),
           NEW i \in DOMAIN X, ChildrenFollow(X, i)
    PROVE  ChildrenFollow(Y, i)
<1>1. DOMAIN X = 1 .. Len(X) /\ Len(X) \in Nat
  BY LenProperties
<1>2. \A d \in i + 1 .. Len(X) : d \in DOMAIN X
  BY <1>1
<1>3. Derived(Y, i) = Derived(X, i)
  BY <1>1, <1>2 DEF Derived, SameFamily
<1>4. \A d \in Derived(X, i) : d \in DOMAIN X
  BY <1>2 DEF Derived
<1> QED
  BY <1>3, <1>4 DEF ChildrenFollow, SameFamily

(* A document without a base behind the others is nobody's child. *)
LEMMA FollowPlain ==
    ASSUME NEW X \in Seq(Object), NEW o \in Object, o.mInheritsFrom = Blank,
           NEW i \in DOMAIN X
    PROVE  ChildrenFollow(Append(X, o), i) <=> ChildrenFollow(X, i)
<1>1. PICK Y : Y = Append(X, o)
  OBVIOUS
<1>2. /\ DOMAIN X = 1 .. Len(X) /\ Len(X) \in Nat /\ Len(Y) = Len(X) + 1
      /\ \A d \in 1 .. Len(X) : Y[d] = X[d]
      /\ Y[Len(X) + 1] = o
  BY <1>1, AppendProperties, LenProperties
<1>3. Derived(Y, i) = Derived(X, i)
  <2>1. ASSUME NEW d
        PROVE  d \in Derived(Y, i) <=> d \in Derived(X, i)
    <3>1. CASE d \in i + 1 .. Len(X)
      BY <1>2, <3>1 DEF Derived
    <3>2. CASE d = Len(X) + 1
      BY <1>2, <3>2 DEF Derived
    <3>3. d \in i + 1 .. Len(Y) => d \in i + 1 .. Len(X) \/ d = Len(X) + 1
      BY <1>2
    <3> QED
      BY <3>1, <3>2, <3>3 DEF Derived
  <2> QED
    BY <2>1
<1>4. Y[i] = X[i]
  BY <1>2
<1>5. \A d \in Derived(X, i) : Y[d] = X[d]
  BY <1>2 DEF Derived
<1>6. ChildrenFollow(Y, i) <=> ChildrenFollow(X, i)
  <2>1. PICK D, c : D = Derived(X, i) /\ c = X[i].mChildren
    OBVIOUS
  <2>2. D = Derived(Y, i) /\ c = Y[i].mChildren /\ \A d \in D : Y[d].mName = X[d].mName
    BY <1>3, <1>4, <1>5, <2>1
  <2>3. ChildrenFollow(X, i) <=>
           /\ Len(c) = Cardinality(D)
           /\ \A d \in D : c[Cardinality({e \in D : e <= d})] = X[d].mName
           /\ \A k \in DOMAIN c : \E d \in D : c[k] = X[d].mName
    BY <2>1, Zenon DEF ChildrenFollow
  <2>4. ChildrenFollow(Y, i) <=>
           /\ Len(c) = Cardinality(D)
           /\ \A d \in D : c[Cardinality({e \in D : e <= d})] = Y[d].mName
           /\ \A k \in DOMAIN c : \E d \in D : c[k] = Y[d].mName
    BY <2>2, Zenon DEF ChildrenFollow
  <2> QED
    BY <2>2, <2>3, <2>4, ZenonT(40)
<1> QED
  BY <1>1, <1>6

(* The last document has no children. *)
LEMMA FollowLast ==
    ASSUME NEW X \in Seq(Object), NEW i, i = Len(X), i # 0, X[i].mChildren = <<>>
    PROVE  ChildrenFollow(X, i)
<1>1. Derived(X, i) = {}
  BY LenProperties DEF Derived
<1>2. Cardinality({}) = 0 /\ Len(<<>>) = 0
  BY FS_EmptySet
<1> QED
  BY <1>1, <1>2 DEF ChildrenFollow

(* A new document that names a base is registered with the objects of that *)
(* name, and with no others, behind the children they have.                *)
LEMMA FollowLinked ==
    ASSUME NEW X \in Seq(Object), \A j \in DOMAIN X : X[j].mName \in Names,
           NEW o \in Object, o.mName \in Names,
           NEW i \in DOMAIN X, ChildrenFollow(X, i)
    PROVE  ChildrenFollow(Append(AddChild(X, o.mInheritsFrom, o.mName), o), i)
<1> DEFINE L == AddChild(X, o.mInheritsFrom, o.mName)
<1>0. PICK n : n = Len(X) + 1
  OBVIOUS
<1>1. /\ L \in Seq(Object) /\ DOMAIN L = DOMAIN X /\ Len(L) = n - 1
      /\ DOMAIN X = 1 .. n - 1 /\ Len(X) = n - 1 /\ n - 1 \in Nat /\ n \in Nat
  BY <1>0, AddChildKeeps, LenProperties
<1>2. \A j \in DOMAIN X : X[j] \in Object
  BY ElementOfSeq, LenProperties
<1>3. \A j \in DOMAIN X :
         L[j] = IF o.mInheritsFrom # Blank /\ X[j].mName = o.mInheritsFrom
                THEN [X[j] EXCEPT !.mChildren = Append(@, o.mName)] ELSE X[j]
  BY DEF AddChild
<1> HIDE DEF L
<1>4. \A j \in DOMAIN X : /\ L[j].mName = X[j].mName
                          /\ L[j].mInheritsFrom = X[j].mInheritsFrom
  BY <1>2, <1>3 DEF Object
<1>5. PICK Y : Y = Append(L, o)
  OBVIOUS
<1>6. /\ Len(Y) = n /\ Y[n] = o
      /\ \A d \in 1 .. n - 1 : Y[d] = L[d]
  <2>1. /\ Len(Y) = Len(L) + 1 /\ Y[Len(L) + 1] = o
        /\ \A d \in 1 .. Len(L) : Y[d] = L[d]
    BY <1>1, <1>5, AppendProperties, LenProperties
  <2>2. Len(L) = n - 1 /\ Len(L) + 1 = n
    BY <1>0, <1>1
  <2> QED
    BY <2>1, <2>2
<1>7. /\ Derived(X, i) \subseteq 1 .. n - 1
      /\ IsFiniteSet(Derived(X, i)) /\ Cardinality(Derived(X, i)) \in Nat
  <2>1. Derived(X, i) \subseteq 1 .. n - 1
    BY <1>1 DEF Derived
  <2>2. IsFiniteSet(1 .. n - 1)
    BY <1>1, FS_Interval
  <2> QED
    BY <2>1, <2>2, FS_Subset, FS_CardinalityType
<1>8. \A d \in 1 .. n - 1 : d \in Derived(Y, i) <=> d \in Derived(X, i)
  <2>1. i \in 1 .. n - 1 /\ \A d \in 1 .. n - 1 : d \in i + 1 .. n <=> d \in i + 1 .. n - 1
    BY <1>1
  <2>2. \A d \in 1 .. n - 1 : Y[d].mInheritsFrom = X[d].mInheritsFrom
    BY <1>1, <1>4, <1>6
  <2>3. Y[i].mName = X[i].mName
    BY <1>1, <1>4, <1>6
  <2> QED
    BY <1>1, <1>6, <2>1, <2>2, <2>3 DEF Derived
<1>9. Derived(Y, i) \subseteq Derived(X, i) \union {n}
  BY <1>1, <1>6, <1>8 DEF Derived
<1>10. n \in Derived(Y, i) <=> X[i].mName = o.mInheritsFrom
  BY <1>1, <1>4, <1>6, BlankAssumption DEF Derived
<1>11. \A d \in Derived(X, i) : /\ {e \in Derived(Y, i) : e <= d} = {e \in Derived(X, i) : e <= d}
                                /\ Y[d].mName = X[d].mName
  BY <1>1, <1>4, <1>6, <1>7, <1>8, <1>9
<1>12. CASE X[i].mName # o.mInheritsFrom
  <2>1. Derived(Y, i) = Derived(X, i) /\ Y[i] = X[i]
    BY <1>1, <1>3, <1>6, <1>7, <1>8, <1>9, <1>10, <1>12
  <2>2. \A d \in Derived(X, i) : Y[d].mName = X[d].mName
    BY <1>11
  <2>3. ChildrenFollow(Y, i)
    BY <2>1, <2>2, ZenonT(40) DEF ChildrenFollow
  <2> QED
    BY <1>5, <2>3 DEF L
<1>13. CASE X[i].mName = o.mInheritsFrom
  <2> DEFINE old == X[i].mChildren
             c == Cardinality(Derived(X, i))
  <2>1. Derived(Y, i) = Derived(X, i) \union {n} /\ n \notin Derived(X, i)
    BY <1>1, <1>7, <1>8, <1>9, <1>10, <1>13
  <2>2. Cardinality(Derived(Y, i)) = c + 1
    BY <1>7, <2>1, FS_AddElement
  <2>3. old \in Seq(Names) /\ Len(old) = c
    BY <1>2 DEF ChildrenFollow, Object
  <2>4. Y[i].mChildren = Append(old, o.mName)
    <3>1. Y[i] = [X[i] EXCEPT !.mChildren = Append(@, o.mName)]
      BY <1>1, <1>3, <1>6, <1>13, BlankAssumption, ZenonT(40)
    <3> QED
      BY <1>2, <3>1 DEF Object
  <2> HIDE DEF old
  <2>5. /\ Len(Append(old, o.mName)) = c + 1
        /\ \A k \in 1 .. c : Append(old, o.mName)[k] = old[k]
        /\ Append(old, o.mName)[c + 1] = o.mName
    BY <2>3, AppendProperties
  <2>6. {e \in Derived(Y, i) : e <= n} = Derived(Y, i)
    <3>1. \A e \in Derived(X, i) : e <= n
      BY <1>1, <1>7
    <3>2. \A e \in Derived(Y, i) : e <= n
      BY <1>0, <1>1, <2>1, <3>1
    <3> QED
      BY <3>2
  <2>7. ASSUME NEW d \in Derived(X, i)
        PROVE  Cardinality({e \in Derived(X, i) : e <= d}) \in 1 .. c
    <3> DEFINE S == {e \in Derived(X, i) : e <= d}
    <3>1. S \subseteq Derived(X, i) /\ d \in S
      BY <1>1, <1>7
    <3> HIDE DEF S
    <3>2. IsFiniteSet(S) /\ Cardinality(S) \in Nat /\ Cardinality(S) <= c
      BY <1>7, <3>1, FS_Subset, FS_CardinalityType
    <3>3. Cardinality(S) # 0
      BY <3>1, <3>2, FS_EmptySet
    <3>4. Cardinality(S) \in 1 .. c
      BY <1>7, <3>2, <3>3
    <3> QED
      BY <3>4 DEF S
  <2>8. ASSUME NEW d \in Derived(Y, i)
        PROVE  Y[i].mChildren[Cardinality({e \in Derived(Y, i) : e <= d})] = Y[d].mName
    <3>1. CASE d = n
      BY <1>6, <2>2, <2>4, <2>5, <2>6, <3>1
    <3>2. CASE d \in Derived(X, i)
      <4>1. PICK k \in 1 .. c : k = Cardinality({e \in Derived(X, i) : e <= d})
        BY <2>7, <3>2
      <4>2. old[k] = X[d].mName
        BY <3>2, <4>1 DEF ChildrenFollow, old
      <4> QED
        BY <1>11, <2>4, <2>5, <3>2, <4>1, <4>2
    <3> QED
      BY <2>1, <3>1, <3>2
  <2>9. Len(Y[i].mChildren) = Cardinality(Derived(Y, i))
    BY <2>2, <2>4, <2>5
  <2>10. ASSUME NEW k \in DOMAIN Y[i].mChildren
         PROVE  \E d \in Derived(Y, i) : Y[i].mChildren[k] = Y[d].mName
    <3>1. k \in 1 .. c \/ k = c + 1
      BY <1>7, <2>3, <2>4, <2>5, LenProperties, AppendProperties
    <3>2. CASE k = c + 1
      BY <1>6, <2>1, <2>4, <2>5, <3>2
    <3>3. CASE k \in 1 .. c
      <4>1. k \in DOMAIN old /\ Y[i].mChildren[k] = old[k]
        BY <2>3, <2>4, <2>5, <3>3, LenProperties
      <4>2. PICK d \in Derived(X, i) : old[k] = X[d].mName
        BY <4>1 DEF ChildrenFollow, old
      <4> QED
        BY <1>11, <2>1, <4>1, <4>2
    <3> QED
      BY <3>1, <3>2, <3>3
  <2> QED
    BY <1>5, <2>8, <2>9, <2>10 DEF ChildrenFollow, L
<1> QED
  BY <1>12, <1>13

(* The children of every document are right, those of the open object too, *)
(* which has none yet; and an object that no row opened names no base.     *)
ChildInv ==
    /\ \A i \in DOMAIN Documents : ChildrenFollow(Documents, i)
    /\ mCurrentObject.mChildren = <<>>
    /\ ~mHaveObject => mCurrentObject.mInheritsFrom = Blank

(* The vector after the push has the right children. *)
LEMMA PushFollows ==
    ASSUME TypeOK, ChildInv
    PROVE  /\ PushCurrent \in Seq(Object) /\ Cleared \in Object
           /\ \A i \in DOMAIN PushCurrent : PushCurrent[i].mName \in Names
           /\ \A i \in DOMAIN PushCurrent : ChildrenFollow(PushCurrent, i)
           /\ Cleared.mChildren = <<>> /\ Cleared.mInheritsFrom = Blank
<1>1. \A i \in DOMAIN PushCurrent : PushCurrent[i].mName \in Names
  BY AppendProperties, LenProperties DEF PushCurrent, TypeOK
<1>2. Cleared.mChildren = <<>> /\ Cleared.mInheritsFrom = Blank
  BY DEF Cleared, EmptyObject, ChildInv
<1>3. \A i \in DOMAIN PushCurrent : ChildrenFollow(PushCurrent, i)
  <2>1. CASE mHaveObject
    BY <2>1 DEF PushCurrent, Documents, ChildInv
  <2>2. CASE ~mHaveObject
    <3>1. /\ mObjects \in Seq(Object) /\ mCurrentObject \in Object
          /\ mCurrentObject.mInheritsFrom = Blank
          /\ \A i \in DOMAIN mObjects : ChildrenFollow(Append(mObjects, mCurrentObject), i)
      BY <2>2, AppendProperties, LenProperties DEF TypeOK, ChildInv, Documents
    <3> QED
      BY <2>2, <3>1, FollowPlain DEF PushCurrent
  <2> QED
    BY <2>1, <2>2
<1> QED
  BY <1>1, <1>2, <1>3, PushType

(* An object row is registered with its bases, after the push; the new     *)
(* open object has no children yet.                                        *)
LEMMA ObjectRowFollows ==
    ASSUME TypeOK, ChildInv, NEW r \in Rows, ObjectRow(r)
    PROVE  ChildInv'
<1>1. PICK X, o : /\ X = PushCurrent
                  /\ o = [Cleared EXCEPT !.mName = r.mName, !.mType = r.mType,
                                         !.mInheritsFrom = r.mInheritsFrom]
  OBVIOUS
<1>2. /\ r.kind = "object" /\ mHaveObject'
      /\ mObjects' = AddChild(X, r.mInheritsFrom, r.mName) /\ mCurrentObject' = o
  BY <1>1 DEF ObjectRow
<1>3. /\ X \in Seq(Object) /\ \A i \in DOMAIN X : X[i].mName \in Names
      /\ \A i \in DOMAIN X : ChildrenFollow(X, i)
  BY <1>1, PushFollows
<1>4. /\ o \in Object /\ o.mChildren = <<>>
      /\ o.mName = r.mName /\ o.mInheritsFrom = r.mInheritsFrom /\ o.mName \in Names
  BY <1>1, <1>2, PushFollows, RowFields DEF Object
<1>5. PICK L : L = AddChild(X, o.mInheritsFrom, o.mName)
  OBVIOUS
<1>6. L \in Seq(Object) /\ DOMAIN L = DOMAIN X /\ Len(L) = Len(X)
  BY <1>3, <1>4, <1>5, AddChildKeeps
<1>7. PICK Y : Y = Append(L, o)
  OBVIOUS
<1>8. /\ Y \in Seq(Object) /\ Len(Y) = Len(L) + 1 /\ Y[Len(L) + 1] = o /\ Len(L) \in Nat
      /\ DOMAIN Y = 1 .. Len(L) + 1 /\ DOMAIN L = 1 .. Len(L)
  BY <1>4, <1>6, <1>7, AppendProperties, LenProperties
<1>9. \A i \in DOMAIN X : ChildrenFollow(Y, i)
  BY <1>3, <1>4, <1>5, <1>7, FollowLinked
<1>10. ChildrenFollow(Y, Len(Y))
  BY <1>4, <1>8, FollowLast
<1>11. \A i \in DOMAIN Y : i \in DOMAIN X \/ i = Len(Y)
  BY <1>6, <1>8
<1>12. Documents' = Y
  BY <1>2, <1>4, <1>5, <1>7 DEF Documents
<1> QED
  BY <1>2, <1>4, <1>9, <1>10, <1>11, <1>12 DEF ChildInv

(* The end of a file leaves names, bases and children as they are.         *)
LEMMA EndFileFollows ==
    ASSUME TypeOK, ChildInv, EndFile
    PROVE  ChildInv'
<1>1. PICK X, o : X = PushCurrent /\ o = Cleared
  OBVIOUS
<1>2. /\ X \in Seq(Object) /\ o \in Object
      /\ \A i \in DOMAIN X : ChildrenFollow(X, i)
      /\ o.mChildren = <<>> /\ o.mInheritsFrom = Blank
  BY <1>1, PushFollows
<1>3. PICK L : L = ImportComplete(X)
  OBVIOUS
<1>4. /\ L \in Seq(Object) /\ DOMAIN L = DOMAIN X /\ Len(L) = Len(X)
      /\ \A i \in DOMAIN X : SameFamily(X[i], L[i])
  BY <1>2, <1>3, ImportKeeps, ImportWrites DEF SameFamily
<1>5. \A i \in DOMAIN L : ChildrenFollow(L, i)
  BY <1>2, <1>4, FollowSame
<1>6. PICK Y : Y = Append(L, o)
  OBVIOUS
<1>7. /\ Y \in Seq(Object) /\ Len(Y) = Len(L) + 1 /\ Y[Len(L) + 1] = o /\ Len(L) \in Nat
      /\ DOMAIN Y = 1 .. Len(L) + 1 /\ DOMAIN L = 1 .. Len(L)
  BY <1>2, <1>4, <1>6, AppendProperties, LenProperties
<1>8. \A i \in DOMAIN L : ChildrenFollow(Y, i)
  BY <1>2, <1>4, <1>5, <1>6, FollowPlain
<1>9. ChildrenFollow(Y, Len(Y))
  BY <1>2, <1>7, FollowLast
<1>10. \A i \in DOMAIN Y : i \in DOMAIN L \/ i = Len(Y)
  BY <1>7
<1>11. mObjects' = L /\ mCurrentObject' = o
  BY <1>1, <1>3 DEF EndFile, Imported
<1>12. Documents' = Y
  BY <1>6, <1>11 DEF Documents
<1> QED
  BY <1>2, <1>8, <1>9, <1>10, <1>11, <1>12 DEF ChildInv

(* An item row changes nothing of this. *)
LEMMA ItemRowFollows ==
    ASSUME TypeOK, ChildInv, NEW r \in Rows, ItemRow(r), TypeOK'
    PROVE  ChildInv'
<1>1. PICK X, Y : X = Documents /\ Y = Documents'
  OBVIOUS
<1>2. /\ SameFamily(mCurrentObject, mCurrentObject')
      /\ mObjects' = mObjects /\ mHaveObject' = mHaveObject
  BY DEF ItemRow, SameFamily, TypeOK, Object
<1>3. mObjects \in Seq(Object) /\ mCurrentObject \in Object /\ mCurrentObject' \in Object
  BY DEF TypeOK
<1>4. /\ X \in Seq(Object) /\ Y \in Seq(Object) /\ Len(X) = Len(Y)
      /\ Len(X) = Len(mObjects) + 1 /\ Len(mObjects) \in Nat
      /\ DOMAIN X = 1 .. Len(X) /\ DOMAIN Y = 1 .. Len(X)
      /\ \A i \in 1 .. Len(mObjects) : X[i] = Y[i]
      /\ X[Len(X)] = mCurrentObject /\ Y[Len(X)] = mCurrentObject'
  BY <1>1, <1>2, <1>3, AppendProperties, LenProperties DEF Documents
<1>5. \A i \in DOMAIN X : SameFamily(X[i], Y[i])
  <2>1. TAKE i \in DOMAIN X
  <2>2. CASE i \in 1 .. Len(mObjects)
    BY <1>4, <2>2 DEF SameFamily
  <2>3. CASE i = Len(X)
    BY <1>2, <1>4, <2>3
  <2> QED
    BY <1>4, <2>2, <2>3
<1>6. \A i \in DOMAIN X : ChildrenFollow(X, i)
  BY <1>1 DEF ChildInv
<1>7. \A i \in DOMAIN Y : ChildrenFollow(Y, i)
  BY <1>4, <1>5, <1>6, FollowSame
<1> HIDE DEF Documents
<1> QED
  BY <1>1, <1>2, <1>7 DEF ChildInv, SameFamily

(* The children of a base are exactly the classes that inherit from it,    *)
(* each once and in the order of the input, when the base's row comes      *)
(* before all of theirs, and never anything else, for every sequence of    *)
(* rows and files: neither a push nor an import mixes up whom it learned   *)
(* of (CreateDOM.cpp 3686, 4546-4563).                                     *)
THEOREM ChildrenAlways == Spec => []ChildrenInherit
<1>1. Init => ChildInv
  <2> SUFFICES ASSUME Init PROVE ChildInv
    OBVIOUS
  <2>1. /\ mCurrentObject = EmptyObject /\ Documents = <<EmptyObject>>
        /\ EmptyObject.mChildren = <<>> /\ EmptyObject.mInheritsFrom = Blank
    BY DEF Init, Documents, EmptyObject
  <2>2. EmptyObject \in Object
    BY EmptySeq DEF EmptyObject, Object, ObjectTypes
  <2>3. /\ <<EmptyObject>> \in Seq(Object) /\ Len(<<EmptyObject>>) = 1
        /\ DOMAIN <<EmptyObject>> = {1} /\ <<EmptyObject>>[1] = EmptyObject
    BY <2>2
  <2>4. ChildrenFollow(<<EmptyObject>>, 1)
    <3>1. PICK X : X = <<EmptyObject>>
      OBVIOUS
    <3>2. X \in Seq(Object) /\ 1 = Len(X) /\ 1 # 0 /\ X[1].mChildren = <<>>
      BY <2>1, <2>3, <3>1
    <3>3. ChildrenFollow(X, 1)
      BY <3>2, FollowLast
    <3> QED
      BY <3>1, <3>3
  <2> QED
    BY <2>1, <2>3, <2>4 DEF ChildInv
<1>2. TypeOK /\ TypeOK' /\ ChildInv /\ [Next]_vars => ChildInv'
  <2> SUFFICES ASSUME TypeOK, TypeOK', ChildInv, [Next]_vars
               PROVE  ChildInv'
    OBVIOUS
  <2>1. CASE UNCHANGED <<mObjects, mCurrentObject, mHaveObject>>
    BY <2>1 DEF ChildInv, Documents
  <2>2. ASSUME NEW r \in Rows, ProcessArgs(r), ~ObjectRow(r), ~ItemRow(r)
        PROVE  UNCHANGED <<mObjects, mCurrentObject, mHaveObject>>
    BY <2>2 DEF ProcessArgs, EOFRow, SettingRow, SkipRow
  <2>3. OpenFile \/ UNCHANGED vars => UNCHANGED <<mObjects, mCurrentObject, mHaveObject>>
    BY DEF OpenFile, vars
  <2>4. ASSUME NEW r \in Rows, ProcessArgs(r)
        PROVE  ChildInv'
    BY <2>1, <2>2, <2>4, ObjectRowFollows, ItemRowFollows
  <2> QED
    BY <2>1, <2>3, <2>4, EndFileFollows DEF Next, FinishFile, EmptyFile
<1>3. TypeOK /\ ChildInv => ChildrenInherit
  <2> SUFFICES ASSUME TypeOK, ChildInv, NEW i \in DOMAIN mObjects
               PROVE  /\ \A k \in DOMAIN mObjects[i].mChildren :
                           \E d \in Inheriting(Documents, i) :
                              mObjects[i].mChildren[k] = Documents[d].mName
                      /\ (\A d \in Inheriting(Documents, i) : i < d) =>
                           /\ Len(mObjects[i].mChildren) = Cardinality(Inheriting(Documents, i))
                           /\ \A d \in Inheriting(Documents, i) :
                                mObjects[i].mChildren[
                                    Cardinality({e \in Inheriting(Documents, i) : e <= d})]
                                        = Documents[d].mName
    BY DEF ChildrenInherit
  <2>1. PICK X \in Seq(Object) : X = Documents
    BY DocumentsType
  <2>2. /\ i \in DOMAIN X /\ X[i] = mObjects[i]
        /\ DOMAIN X = 1 .. Len(X) /\ Len(X) \in Nat
    BY <2>1, DocumentsType, LenProperties
  <2>3. ChildrenFollow(X, i)
    BY <2>1, <2>2 DEF ChildInv
  <2>4. Derived(X, i) \subseteq Inheriting(X, i)
    BY <2>2 DEF Derived, Inheriting
  <2>5. (\A d \in Inheriting(X, i) : i < d) => Derived(X, i) = Inheriting(X, i)
    BY <2>2, <2>4 DEF Derived, Inheriting
  <2>6. PICK I, c : I = Inheriting(X, i) /\ c = X[i].mChildren
    OBVIOUS
  <2>7. \A k \in DOMAIN c : \E d \in I : c[k] = X[d].mName
    BY <2>3, <2>4, <2>6 DEF ChildrenFollow
  <2>8. ASSUME \A d \in I : i < d
        PROVE  /\ Len(c) = Cardinality(I)
               /\ \A d \in I : c[Cardinality({e \in I : e <= d})] = X[d].mName
    <3>1. Derived(X, i) = I
      BY <2>5, <2>6, <2>8
    <3> QED
      BY <2>3, <2>6, <3>1, Zenon DEF ChildrenFollow
  <2> HIDE DEF Documents
  <2>9. I = Inheriting(Documents, i) /\ c = mObjects[i].mChildren
    BY <2>1, <2>2, <2>6
  <2> QED
    BY <2>1, <2>7, <2>8, <2>9, Zenon
<1> QED
  BY <1>1, <1>2, <1>3, TypeCorrect, PTL DEF Spec
=============================================================================
