---------------------------- MODULE MCSchemaRows ----------------------------
(* Small instances of SchemaRows for TLC. *)
EXTENDS SchemaRows, TLC

CONSTANTS A, B

ObjectRows(names, bases) ==
    [kind: {"object"}, mName: names, mType: {"Class"}, mInheritsFrom: bases]
ItemRows(types, shapes) ==
    [kind: {"item"}, mType: types, mIsArray: shapes, mIsPointer: {FALSE}]

(* Two names in every order, with and without bases, members of both       *)
(* classes, a member with an array shape, and the rows that end or         *)
(* punctuate a file.                                                       *)
MCRows ==
    ObjectRows({A, B}, {A, B, Blank})
        \union ItemRows({A, B}, {FALSE}) \union ItemRows({"u32"}, {TRUE})
        \union [kind: {"EOF", "Namespace", "skip"}]

(* A class and its base. *)
FamilyRows == ObjectRows({A}, {B}) \union ObjectRows({B}, {Blank})

NameSymmetry == Permutations({A, B})
=============================================================================
