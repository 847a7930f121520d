---------------------------- MODULE SchemaImport ----------------------------
(***************************************************************************)
(* The passes DOM::importComplete runs over the parsed objects at the end  *)
(* of every CreateDOMDef::parseCSV (src/src/CreateDOM.cpp 3702-3749).      *)
(*                                                                         *)
(* A name is an uninterpreted value; Blank stands for the empty string.    *)
(* The columns of a row that no pass reads (descriptions, ranges, default  *)
(* values, aliases, the clone flags) are left out.                         *)
(***************************************************************************)
EXTENDS Naturals, Sequences, FiniteSets

CONSTANTS Names,        \* the names an object row can carry
          Scalars,      \* the built-in member types other than "string"
          Blank         \* the empty cell

ASSUME BlankAssumption ==
    /\ Blank \notin Names
    /\ Names \cap (Scalars \union {"string"}) = {}

MemberTypes == Names \union Scalars \union {"string"}
ObjectTypes == {"Class", "Enum"}

(* The fields of MemberVariable that the passes read or write.  row is the *)
(* position of the row the member came from: the model's name for it.      *)
MemberVariable ==
    [row: Nat \ {0}, mType: MemberTypes, mIsArray: BOOLEAN,
     mIsPointer: BOOLEAN, mNeedsReflection: BOOLEAN]

Object ==
    [mName: Names \union {Blank}, mType: ObjectTypes \union {Blank},
     mInheritsFrom: Names \union {Blank},
     mMultipleInherticance: Names \union {Blank}, mChildren: Seq(Names),
     mNeedsReflection: BOOLEAN, mIsEnum: BOOLEAN, mIsClass: BOOLEAN,
     mItems: Seq(MemberVariable)]

(* A default constructed Object, the value Object::clear leaves. *)
EmptyObject ==
    [mName |-> Blank, mType |-> Blank, mInheritsFrom |-> Blank,
     mMultipleInherticance |-> Blank, mChildren |-> <<>>,
     mNeedsReflection |-> FALSE, mIsEnum |-> FALSE, mIsClass |-> FALSE,
     mItems |-> <<>>]

(* MemberVariable::needsReflection *)
ItemNeedsReflection(m) == m.mIsArray \/ m.mIsPointer \/ m.mType = "string"

(* Object::computeNeedsReflection: the members' declared shapes decide, the *)
(* members' own classes do not.                                             *)
ComputeNeedsReflection(o) ==
    \E k \in DOMAIN o.mItems : ItemNeedsReflection(o.mItems[k])

(* The list the first pass collects. *)
NeedsReflectionClasses(objs) ==
    {objs[i].mName : i \in {j \in DOMAIN objs : ComputeNeedsReflection(objs[j])}}

(* MemberVariable::memberNeedsReflection.  Unlike needsReflection it does  *)
(* not look at mIsArray.                                                   *)
MemberNeedsReflection(m, classes) ==
    [m EXCEPT !.mNeedsReflection =
        m.mIsPointer \/ m.mType = "string" \/ m.mType \in classes]

(* The bases of the objects the i-th object names as its base: the third   *)
(* pass lets the last such object with a base of its own win and keeps the *)
(* earlier value when there is none.                                       *)
MultipleInheritance(objs, i) ==
    LET bases == {j \in DOMAIN objs : /\ objs[i].mInheritsFrom # Blank
                                      /\ objs[j].mName = objs[i].mInheritsFrom
                                      /\ objs[j].mInheritsFrom # Blank}
    IN  IF bases = {} THEN objs[i].mMultipleInherticance
        ELSE objs[CHOOSE j \in bases : \A k \in bases : k <= j].mInheritsFrom

(* The type flags are set, never reset. *)
IsNowEnum(o)  == o.mIsEnum \/ o.mType = "Enum"
IsNowClass(o) == o.mIsClass \/ o.mType = "Class"

(* What the passes write to one object. *)
Marked(o, reflects, items, base) ==
    [o EXCEPT !.mNeedsReflection = reflects, !.mItems = items,
              !.mMultipleInherticance = base,
              !.mIsEnum = IsNowEnum(o), !.mIsClass = IsNowClass(o)]

(* Mutant: the two reflection passes merged into one loop, so a member     *)
(* sees only the classes of the objects up to its own.                     *)
ImportCompleteOnePass(objs) ==
    [i \in DOMAIN objs |->
        LET classes == NeedsReflectionClasses(SubSeq(objs, 1, i))
        IN  Marked(objs[i], ComputeNeedsReflection(objs[i]),
                   [k \in DOMAIN objs[i].mItems |->
                        MemberNeedsReflection(objs[i].mItems[k], classes)],
                   MultipleInheritance(objs, i))]

(* All the passes over the object vector. *)
ImportComplete(objs) ==
    LET classes == NeedsReflectionClasses(objs)
    IN  [i \in DOMAIN objs |->
            Marked(objs[i], ComputeNeedsReflection(objs[i]),
                   [k \in DOMAIN objs[i].mItems |->
                        MemberNeedsReflection(objs[i].mItems[k], classes)],
                   MultipleInheritance(objs, i))]

(* An Object* into the vector is the position of its object, or leads      *)
(* nowhere any more.                                                       *)
Dangling == 0

ObjectNames(objs) == {objs[i].mName : i \in DOMAIN objs}
FirstNamed(objs, n) ==
    CHOOSE i \in DOMAIN objs : /\ objs[i].mName = n
                               /\ \A j \in DOMAIN objs : objs[j].mName = n => i <= j
LastNamed(objs, n) ==
    CHOOSE i \in DOMAIN objs : /\ objs[i].mName = n
                               /\ \A j \in DOMAIN objs : objs[j].mName = n => j <= i

(* Mutant: mObjectMap.insert, which leaves an entry that is there alone. *)
LookupTableInserts(table, objs) ==
    [n \in DOMAIN table \union ObjectNames(objs) |->
        IF n \in DOMAIN table THEN table[n] ELSE FirstNamed(objs, n)]

(* The last pass: every object in turn puts its address under its name, in *)
(* a table that still holds the entries of the passes before.              *)
LookupTable(table, objs) ==
    [n \in DOMAIN table \union ObjectNames(objs) |->
        IF n \in ObjectNames(objs) THEN LastNamed(objs, n) ELSE table[n]]
=============================================================================
