------------------------------ MODULE LogFormat ------------------------------
(***************************************************************************)
(* The format of write-ahead logs and of MANIFEST files (src/src/leveldb/  *)
(* db/log_writer.cc, log_reader.cc): records are cut into fragments, each  *)
(* behind a header, and no fragment crosses a block boundary.              *)
(*                                                                         *)
(* A file is a sequence of cells, one for each unit of space: a cell of a  *)
(* header, a cell of data, or Zero.  All cells of a header carry what the  *)
(* header says, the type and, for its length and its checksum, the data it *)
(* was computed from.  A record is a sequence of data cells.               *)
(***************************************************************************)
EXTENDS Integers, Sequences, SequencesExt, FiniteSetsExt

CONSTANTS BlockSize,        \* kBlockSize
          HeaderSize        \* kHeaderSize

ASSUME FormatAssumption == HeaderSize \in Nat \ {0, 1} /\ BlockSize \in Nat
                           /\ BlockSize > HeaderSize

Zero == <<"zero">>

(* The data cells of what is written as one record of some size. *)
Record(what, size) == [i \in 1..size |-> <<"data", what, i>>]

Header(type, data) == [i \in 1..HeaderSize |-> <<"header", i, type, data>>]

-----------------------------------------------------------------------------
(* Writer::AddRecord at block_offset_ = from: the fragments it emits, each *)
(* with the zeros that fill a block too short for a header before it, and  *)
(* with block_offset_ after it.                                            *)
Type(begin, end) == IF begin THEN (IF end THEN "full" ELSE "first")
                    ELSE IF end THEN "last" ELSE "middle"

(* begin holds in the first turn of its loop only, also when that one has  *)
(* no room for data. *)
FragmentAt(data, turn, done, offset) ==
    LET leftover == BlockSize - offset
        start    == IF leftover < HeaderSize THEN 0 ELSE offset
        room     == BlockSize - start - HeaderSize
        length   == IF Len(data) - done < room THEN Len(data) - done ELSE room
    IN  [pad   |-> IF leftover < HeaderSize THEN leftover ELSE 0,
         type  |-> Type(turn = 0, done + length = Len(data)),
         data  |-> SubSeq(data, done + 1, done + length),
         done  |-> done + length,
         after |-> start + HeaderSize + length]

(* Mutant: the rest of a block is not filled. *)
CellsNoTrailer(f) == Header(f.type, f.data) \o f.data

Cells(f) == [i \in 1..f.pad |-> Zero] \o Header(f.type, f.data) \o f.data

(* Only the first fragment can be without data, so that there is one more  *)
(* than the record has cells at most.                                      *)
Fragments(data, from) ==
    LET turns[n \in 0..Len(data)] ==
          IF n = 0 THEN <<FragmentAt(data, 0, 0, from)>>
          ELSE LET last == turns[n - 1][Len(turns[n - 1])]
               IN  IF last.done = Len(data) THEN turns[n - 1]
                   ELSE Append(turns[n - 1], FragmentAt(data, n, last.done, last.after))
    IN  turns[Len(data)]

Emitted(fragments) ==
    LET written[n \in 0..Len(fragments)] ==
          IF n = 0 THEN <<>> ELSE written[n - 1] \o Cells(fragments[n])
    IN  written[Len(fragments)]

-----------------------------------------------------------------------------
(* Reader::ReadPhysicalRecord at a position: the fragment there and the    *)
(* position after it, or why the rest of the block is dropped.  Cells that *)
(* are no intact header are read as a header that fails its checksum,      *)
(* unless all are zero.  Only a block cut short is known to be the last.   *)
BlockEnd(pos)       == (pos \div BlockSize + 1) * BlockSize
Dropped(why, to)    == [type |-> why, data |-> <<>>, next |-> to]

ReadPhysicalRecord(file, pos, checksum) ==
    LET end    == IF Len(file) < BlockEnd(pos) THEN Len(file) ELSE BlockEnd(pos)
        eof    == Len(file) < BlockEnd(pos)
        header == SubSeq(file, pos + 1, pos + HeaderSize)
        intact == header[1][1] = "header" /\ header = Header(header[1][3], header[1][4])
        length == Len(header[1][4])
        data   == SubSeq(file, pos + HeaderSize + 1, pos + HeaderSize + length)
    IN  IF end - pos < HeaderSize THEN Dropped(IF eof THEN "eof" ELSE "trailer", end)
        ELSE IF \A i \in DOMAIN header : header[i] = Zero THEN Dropped("zero", end)
        ELSE IF ~intact THEN Dropped("bad", end)
        ELSE IF pos + HeaderSize + length > end THEN Dropped(IF eof THEN "eof" ELSE "bad", end)
        ELSE IF checksum /\ data # header[1][4] THEN Dropped("bad", end)
        ELSE [type |-> header[1][3], data |-> data, next |-> pos + HeaderSize + length]

(* What ReadRecord makes of one fragment, over its repeated calls: the     *)
(* records returned so far, the scratch of the record under way, and       *)
(* whether corruption was reported.                                        *)
AfterFragment(r, f) ==
    LET lost == r.open /\ r.scratch # <<>>
    IN  IF f.type = "full"
        THEN [r EXCEPT !.records = Append(@, f.data), !.scratch = <<>>,
                       !.open = FALSE, !.corrupt = @ \/ lost]
        ELSE IF f.type = "first"
        THEN [r EXCEPT !.scratch = f.data, !.open = TRUE, !.corrupt = @ \/ lost]
        ELSE IF f.type \in {"middle", "last"} /\ ~r.open THEN [r EXCEPT !.corrupt = TRUE]
        ELSE IF f.type = "middle" THEN [r EXCEPT !.scratch = @ \o f.data]
        ELSE IF f.type = "last"
        THEN [r EXCEPT !.records = Append(@, r.scratch \o f.data), !.scratch = <<>>,
                       !.open = FALSE]
        ELSE IF f.type \in {"zero", "bad"}
        THEN [r EXCEPT !.scratch = <<>>, !.open = FALSE,
                       !.corrupt = @ \/ f.type = "bad" \/ r.open]
        ELSE r

(* All calls of ReadRecord until it returns false; torn if the file does   *)
(* not end behind a fragment that can be read.                             *)
Nothing == [records |-> <<>>, scratch |-> <<>>, open |-> FALSE, corrupt |-> FALSE]

ReadAll(file, checksum) ==
    LET after[n \in 0..Len(file)] ==
          IF n = 0 THEN [r |-> Nothing, pos |-> 0, torn |-> FALSE]
          ELSE LET p == after[n - 1]
                   f == ReadPhysicalRecord(file, p.pos, checksum)
               IN  IF p.pos = Len(file) THEN p
                   ELSE [r |-> AfterFragment(p.r, f), pos |-> f.next,
                         torn |-> f.type \in {"eof", "zero", "bad"}]
        end == after[Len(file)]
    IN  [records |-> end.r.records, corrupt |-> end.r.corrupt, torn |-> end.torn]
=============================================================================
