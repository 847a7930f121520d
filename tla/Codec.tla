---------------------------------- MODULE Codec ----------------------------------
(***************************************************************************)
(* The code that CreateDOM prints for JSON (src/src/CreateDOM.cpp): what   *)
(* deserializeFrom makes of a document that serializeTo wrote, when it was *)
(* printed from the same schema or from another version of it.             *)
(*                                                                         *)
(* The schema is a class and its base class. A member is the row that      *)
(* declares it, reduced to what the printers ask. Only schemas are taken   *)
(* for which they print code that compiles. A document is the list of its  *)
(* members in order, which rapidjson keeps, as it keeps duplicates.        *)
(***************************************************************************)
EXTENDS Integers, Sequences

CONSTANTS Kinds,    \* "number" (32 and 64 bits), "real", "bool", "string", "enum", "class"
          MemberNames     \* the names of the members, in the order of their rows

Key == "k"                              \* a key of a map, which no member has as name

ASSUME CodecAssumption ==
    /\ Kinds \subseteq {"number", "real", "bool", "string", "enum", "class"}
    /\ MemberNames \in Seq(STRING)
    /\ \A i, j \in DOMAIN MemberNames : MemberNames[i] = MemberNames[j] => i = j
    /\ \A i \in DOMAIN MemberNames : MemberNames[i] # Key

VARIABLES writer,   \* the members the serializer was printed for, the base class's first
          reader,   \* those the deserializer was printed for
          object,   \* the values that are written
          doc,      \* the document
          done,     \* how many members serializeTo or deserializeFrom has dealt with
          result,   \* r in deserializeFrom
          status    \* "writing", "reading", "accepted" or "rejected"

codecVars == <<writer, reader, object, doc, done, result, status>>

Unset == -1                             \* an optional without value
MembersOf(class) == {class[i] : i \in DOMAIN class}
NamesOfMembers(ms)    == {m.name : m \in ms}

-----------------------------------------------------------------------------
(* Rows. opt is mIsOptional ("later" for optional_deserialize), byInt is   *)
(* mSerializeEnumAsInteger, unset says that an optional has no default.    *)

Shapes(kind) == {"plain"} \union (IF kind \in {"number", "string", "enum", "class"} THEN {"array"} ELSE {})
                          \union (IF kind \in {"number", "string", "enum"} THEN {"map"} ELSE {})

Options(shape) == IF shape = "plain" THEN {"required", "optional", "later"}
                  ELSE IF shape = "array" THEN {"required", "later"} ELSE {"required"}

RowsNamed(name) ==
    {m \in [name : {name}, kind : Kinds, shape : {"plain", "array", "map"}, opt : {"required", "optional", "later"},
            byInt : BOOLEAN, unset : BOOLEAN, base : BOOLEAN] :
        /\ m.shape \in Shapes(m.kind) /\ m.opt \in Options(m.shape)
        /\ m.byInt => m.kind = "enum" /\ m.shape = "plain"
        /\ m.unset => m.opt = "optional"}

Initial(m) == IF m.shape # "plain" THEN <<>> ELSE IF m.unset THEN Unset ELSE 0

(* What a program may have in a member. *)
Values(m) ==
    IF m.shape = "plain" THEN {1} \union (IF m.opt = "optional" THEN {Unset} ELSE {})
    ELSE IF m.shape = "array" THEN {<<>>, <<1, 0>>}
    ELSE {<<>>, [k \in {Key} |-> IF m.kind = "enum" THEN <<1, 0>> ELSE 1]}

(* An array of enums is read into a member acl, which the class must have, *)
(* and a map of numbers goes with no other members (assert).               *)
Compiles(class) ==
    \A m \in MembersOf(class) :
        LET visible == {n \in MembersOf(class) : n.base \/ ~m.base}
        IN  /\ m.kind = "enum" /\ m.shape = "array" =>
                 \E n \in visible : n.name = "acl" /\ n.kind = "enum" /\ n.shape = "array"
            /\ m.kind = "number" /\ m.shape = "map" =>
                 \A n \in MembersOf(class) : n.base = m.base => n.shape = "map"

(* What a member may have been in the writer's version, for the reader     *)
(* still to take it: a number was text, a real a number, an enum was sent  *)
(* by name and is now sent by number; or it was optional, or not.          *)
Versions(m) ==
    {w \in RowsNamed(m.name) :
        /\ w.shape = m.shape /\ w.base = m.base /\ ~w.unset /\ w.opt # "later"
        /\ w.byInt => m.byInt
        /\ \/ w.kind = m.kind
           \/ w.shape = "plain" /\ <<w.kind, m.kind>> \in {<<"string", "number">>, <<"number", "real">>}}

(* The next row: in both versions of the schema, or in one. The members of *)
(* the base class are dealt with first.                                    *)
Declare ==
    /\ status = "declaring" /\ done < Len(MemberNames)
    /\ \E m \in RowsNamed(MemberNames[done + 1]) :
         /\ m.base => \A n \in MembersOf(writer \o reader) : n.base
         /\ \/ reader' = Append(reader, m) /\ \E w \in Versions(m) : writer' = Append(writer, w)
            \/ reader' = Append(reader, m) /\ UNCHANGED writer
            \/ ~m.unset /\ m.opt # "later" /\ writer' = Append(writer, m) /\ UNCHANGED reader
    /\ done' = done + 1
    /\ UNCHANGED <<object, doc, result, status>>

Generate ==
    /\ status = "declaring" /\ done = Len(MemberNames)
    /\ Compiles(writer) /\ Compiles(reader)
    /\ status' = "writing" /\ done' = 0
    /\ UNCHANGED <<writer, reader, object, doc, result>>

-----------------------------------------------------------------------------
(* serializeTo *)

(* An enum is sent by its name, which no other string of the model is.     *)
TypeSent(m) ==
    IF m.kind = "enum" THEN (IF m.byInt THEN "number" ELSE "name")
    ELSE IF m.kind = "class" THEN "object" ELSE m.kind

Scalar(m, value) == [is |-> TypeSent(m), value |-> value]
Array(m, values) == [is |-> "array", value |-> [i \in DOMAIN values |-> Scalar(m, values[i])]]
Entry(name, json) == <<[name |-> name, json |-> json]>>

IsSent(m, value) == m.opt = "optional" => value # Unset

Serialized(m, value) ==
    IF ~IsSent(m, value) THEN <<>>
    ELSE IF m.shape = "plain" THEN Entry(m.name, Scalar(m, value))
    ELSE IF m.shape = "array" THEN Entry(m.name, Array(m, value))
    ELSE IF value = <<>> THEN <<>>
    ELSE Entry(Key, IF m.kind = "enum" THEN Array(m, value[Key]) ELSE Scalar(m, value[Key]))

SerializeMember ==
    /\ status = "writing" /\ done < Len(writer)
    /\ LET m == writer[done + 1]
       IN  \E value \in Values(m) :
              /\ object' = [name \in DOMAIN object \union {m.name} |->
                               IF name = m.name THEN value ELSE object[name]]
              /\ doc' = doc \o Serialized(m, value)
    /\ done' = done + 1
    /\ UNCHANGED <<writer, reader, result, status>>

(* deserialize *)
Deserialize ==
    /\ status = "writing" /\ done = Len(writer)
    /\ status' = "reading" /\ done' = 0
    /\ result' = [name \in NamesOfMembers(MembersOf(reader)) |->
                     Initial(CHOOSE m \in MembersOf(reader) : m.name = name)]
    /\ UNCHANGED <<writer, reader, object, doc>>

-----------------------------------------------------------------------------
(* deserializeFrom. A member is read as a set: empty for "return false".   *)

IsString(json) == json.is \in {"string", "name"}
IsNumber(json) == json.is \in {"number", "real"}      \* an integer's getter asserts for a real

(* isMember of m's class, which knows its base class *)
IsMember(m, name) ==
    \E n \in MembersOf(reader) : n.name = name /\ n.shape # "map" /\ (n.base \/ ~m.base)

Reads(m, json) ==
    \/ m.kind = "number" /\ (IsString(json) \/ IsNumber(json))
    \/ m.kind = "real"   /\ IsNumber(json)
    \/ m.kind = "bool"   /\ json.is = "bool"
    \/ m.kind = "string" /\ IsString(json)
    \/ m.kind = "enum"   /\ (json.is = "name" \/ (m.byInt /\ IsNumber(json)))
    \/ m.kind = "class"  /\ json.is = "object"

(* FindMember returns the first. *)
FindMember(name) == {doc[i].json : i \in {j \in DOMAIN doc : doc[j].name = name
                                            /\ \A k \in 1..(j - 1) : doc[k].name # name}}

ReadsArray(m, json) ==
    /\ json.is = "array" /\ m.kind # "string"      \* IsString is asked of the array itself
    /\ \A i \in DOMAIN json.value : Reads(m, json.value[i])
Elements(json) == [i \in DOMAIN json.value |-> json.value[i].value]

(* Mutant: the map takes the members that have names, too. *)
TakesEverything(m, e) == Reads(m, e.json)

(* A map of strings leaves members with names out only if m's own class    *)
(* has some: those of the base class are not asked for (nonMapItems).      *)
Filters(m) == \E n \in MembersOf(reader) : n.shape # "map" /\ n.base = m.base

(* Which members of the document go into a map *)
Takes(m, e) == Reads(m, e.json) /\ ~(m.kind = "string" /\ Filters(m) /\ IsMember(m, e.name))

ReadMap(m) ==
    LET taken == {i \in DOMAIN doc : m.kind = "enum" \/ Takes(m, doc[i])}
        last(name) == CHOOSE i \in taken : doc[i].name = name
                                              /\ \A j \in taken : doc[j].name = name => j <= i
        map == [name \in {doc[i].name : i \in taken} |->
                   LET json == doc[last(name)].json
                   IN  IF m.kind = "enum" THEN Elements(json) ELSE json.value]
    IN  IF m.kind = "enum" /\ \E i \in taken : ~ReadsArray(m, doc[i].json) THEN {} ELSE {map}

(* A member that is not there; of an enum it is never asked. *)
Missing(m, target) ==
    IF m.opt = "required" /\ ~(m.kind = "enum" /\ m.shape = "plain") THEN {} ELSE {result[target]}

ReadMember(m, target) ==
    LET found == FindMember(m.name)
    IN  IF m.shape = "map" THEN ReadMap(m)
        ELSE IF found = {} THEN Missing(m, target)
        ELSE IF m.shape = "plain" THEN {json.value : json \in {j \in found : Reads(m, j)}}
        ELSE {(IF m.kind = "number" THEN <<>> ELSE result[target]) \o Elements(json) :
                json \in {j \in found : ReadsArray(m, j)}}

Target(m) == IF m.kind = "enum" /\ m.shape = "array" THEN "acl" ELSE m.name

DeserializeMember ==
    /\ status = "reading" /\ done < Len(reader)
    /\ LET m    == reader[done + 1]
           read == ReadMember(m, Target(m))
       IN  \/ /\ read = {} /\ status' = "rejected"
              /\ UNCHANGED <<done, result>>
           \/ /\ \E value \in read : result' = [result EXCEPT ![Target(m)] = value]
              /\ done' = done + 1 /\ UNCHANGED status
    /\ UNCHANGED <<writer, reader, object, doc>>

Accept ==
    /\ status = "reading" /\ done = Len(reader)
    /\ status' = "accepted"
    /\ UNCHANGED <<writer, reader, object, doc, done, result>>

-----------------------------------------------------------------------------
CodecInit ==
    /\ writer = <<>> /\ reader = <<>> /\ object = <<>> /\ doc = <<>>
    /\ done = 0 /\ result = <<>> /\ status = "declaring"

CodecNext == Declare \/ Generate \/ SerializeMember \/ Deserialize \/ DeserializeMember \/ Accept

CodecSpec == CodecInit /\ [][CodecNext]_codecVars

-----------------------------------------------------------------------------
(* Schemas the printed code is known not to serve (see the README): an     *)
(* array of strings is never accepted; an array of enums goes to acl,      *)
(* whatever its name; and a map takes what looks like an entry among the   *)
(* members its class does not know, and among those of its base class when *)
(* it has none of its own; a map of enums rejects what does not.           *)
MistakenFor(map, m) ==
    \/ map.kind = "enum"
    \/ /\ map.kind = "number" /\ m.shape # "array" /\ ~(m.shape = "map" /\ m.kind = "enum")
       /\ TypeSent(m) \in {"number", "real", "string", "name"}
    \/ /\ map.kind = "string"
       /\ \/ m.shape = "map" /\ m.kind = "string"
          \/ /\ m.shape = "plain" /\ TypeSent(m) \in {"string", "name"}
             /\ ~(Filters(map) /\ IsMember(map, m.name))
Unserved ==
    \/ \E m \in MembersOf(reader) : m.kind = "string" /\ m.shape = "array" /\ m.name \in DOMAIN object
    \/ \E m \in MembersOf(reader) : Target(m) # m.name
    \/ \E map \in MembersOf(reader), m \in MembersOf(writer) :
          map.shape = "map" /\ m.name # map.name /\ MistakenFor(map, m)

(* A document is accepted if and only if it has every member that must be  *)
(* there, and each member then is what was written, or else as in a new    *)
(* object: whatever the class a member is in, and whether the writer's     *)
(* version of the schema had fewer members, more, or older types.          *)
Sent(m)  == \E w \in MembersOf(writer) : w.name = m.name /\ (w.shape = "plain" => object[m.name] # Unset)
Needed(m) == m.opt = "required" /\ m.shape # "map" /\ ~(m.kind = "enum" /\ m.shape = "plain")
Understood ==
    status \in {"accepted", "rejected"} /\ ~Unserved =>
        /\ status = "accepted" <=> \A m \in MembersOf(reader) : Needed(m) => Sent(m)
        /\ status = "accepted" =>
              \A m \in MembersOf(reader) :
                  result[m.name] = IF Sent(m) THEN object[m.name] ELSE Initial(m)

(* "Skip keys which we already deserialize explicitly by name": what the   *)
(* printed comment says of the loop that fills a map of strings. The key   *)
(* of a member of the class or of its base class is no key of the map.     *)
KeysSkipped ==
    status = "accepted" =>
        \A map, m \in MembersOf(reader) :
            map.shape = "map" /\ map.kind = "string" /\ m.shape # "map" /\ (m.base \/ ~map.base)
                => m.name \notin DOMAIN result[map.name]
=============================================================================
