------------------------------- MODULE OutputFiles -------------------------------
(***************************************************************************)
(* The files CreateDOMDef::saveCPP leaves (src/src/CreateDOM.cpp). Each is *)
(* printed into a buffer and written by CodePrinter::finalize, unless the  *)
(* file already has that content, so that what depends on it is not built  *)
(* again. The tool reports no failure to its caller; what brings the files *)
(* into order again is to run it again.                                    *)
(*                                                                         *)
(* A text is the schema it was printed from and how much of it is there.   *)
(***************************************************************************)
EXTENDS Integers, Sequences, TLC

CONSTANTS Schemas,      \* versions of the schema; their texts have the same size
          MaxRuns       \* bound on runs of the tool

Header == ".h"
Code   == ".cpp"
Script == ".ts"
Files  == {Header, Code, Script}

VARIABLES
    disk,       \* the text of each file that exists
    schema,     \* the schema of the run under way, or of the last one
    left,       \* files that are still to be finalized, in order
    at,         \* "comparing", "opening" or "writing" Head(left); "idle" between runs
    failed,     \* history: a call failed in this run, or it was interrupted
    saved,      \* history: the files of this run
    runs

outVars == <<disk, schema, left, at, failed, saved, runs>>

Full == 2
NoText == [of |-> "nobody", size |-> -1]        \* of a file that does not exist
Text(s, size) == [of |-> IF size = 0 THEN "nobody" ELSE s, size |-> size]

Finalized(more) == left' = more /\ at' = IF more = <<>> THEN "idle" ELSE "comparing"

(* saveCPP: plain old data has no implementation file, since the name of   *)
(* the printer for it stays empty; the script is optional.                 *)
SaveCPP(s, plainOldData, typeScript) ==
    /\ at = "idle" /\ runs < MaxRuns
    /\ left' = IF plainOldData THEN <<Header>>
               ELSE (IF typeScript THEN <<Script>> ELSE <<>>) \o <<Header, Code>>
    /\ saved' = {left'[i] : i \in DOMAIN left'}
    /\ schema' = s /\ at' = "comparing" /\ failed' = FALSE /\ runs' = runs + 1
    /\ UNCHANGED disk

-----------------------------------------------------------------------------
(* CodePrinter::finalize *)

(* Mutant: a file of the same size is taken for the same. *)
HasNotChangedBySize(text, output) == text.size = output.size

HasNotChanged(text, output) == text.size = output.size /\ text.of = output.of

(* The old file may differ, not open, or not be read.                      *)
Compare ==
    /\ at = "comparing"
    /\ \/ /\ HasNotChanged(disk[Head(left)], Text(schema, Full))
          /\ Finalized(Tail(left))
       \/ at' = "opening" /\ UNCHANGED left
    /\ UNCHANGED <<disk, schema, failed, saved, runs>>

OpenFails ==
    /\ at = "opening"
    /\ failed' = TRUE
    /\ Finalized(Tail(left))
    /\ UNCHANGED <<disk, schema, saved, runs>>

Truncate ==
    /\ at = "opening"
    /\ disk' = [disk EXCEPT ![Head(left)] = Text(schema, 0)]
    /\ at' = "writing"
    /\ UNCHANGED <<schema, left, failed, saved, runs>>

(* The result of fwrite is not looked at. *)
Write(size) ==
    /\ at = "writing"
    /\ disk' = [disk EXCEPT ![Head(left)] = Text(schema, size)]
    /\ failed' = (failed \/ size < Full)
    /\ Finalized(Tail(left))
    /\ UNCHANGED <<schema, saved, runs>>

-----------------------------------------------------------------------------
(* What else happens *)

Interrupted ==
    /\ at # "idle"
    /\ at' = "idle" /\ left' = <<>> /\ failed' = TRUE
    /\ UNCHANGED <<disk, schema, saved, runs>>

(* Somebody edits or removes a file between two runs. *)
Edit(f) ==
    /\ at = "idle" /\ runs < MaxRuns
    /\ \E text \in {NoText, [of |-> "edited", size |-> Full], [of |-> "edited", size |-> 1]} :
         disk' = [disk EXCEPT ![f] = text]
    /\ saved' = {}
    /\ UNCHANGED <<schema, left, at, failed, runs>>

OutInit ==
    /\ disk = [f \in Files |-> NoText] /\ schema \in Schemas
    /\ left = <<>> /\ at = "idle" /\ failed = FALSE /\ saved = {} /\ runs = 0

OutNext ==
    \/ \E s \in Schemas, plainOldData, typeScript \in BOOLEAN : SaveCPP(s, plainOldData, typeScript)
    \/ Compare \/ OpenFails \/ Truncate
    \/ \E size \in 0..Full : Write(size)
    \/ Interrupted
    \/ \E f \in Files : Edit(f)

OutSpec == OutInit /\ [][OutNext]_outVars

-----------------------------------------------------------------------------
(* A run in which nothing failed leaves in each of its files what it       *)
(* printed, whatever earlier runs, interrupted or of other schemas, and    *)
(* editing have left there (CreateDOM.cpp:385-446).                        *)
RunRepairs ==
    at = "idle" /\ ~failed => \A f \in saved : disk[f] = Text(schema, Full)
=============================================================================
