------------------------------ MODULE MCDBImpl ------------------------------
(* Small instances of DBImpl for TLC. *)
EXTENDS DBImpl, TLC

CONSTANTS T1, T2, T3

(* A batch of two updates that is not synced, one of one update that is,   *)
(* and a forced flush.                                                     *)
SmallWrite == [op |-> "write", updates |-> 1, sync |-> FALSE]
PairWrite  == [op |-> "write", updates |-> 2, sync |-> FALSE]
SyncWrite  == [op |-> "write", updates |-> 1, sync |-> TRUE]
Flush      == [op |-> "flush", updates |-> 0, sync |-> FALSE]

Writes        == {PairWrite, SyncWrite}
WritesFlush   == {PairWrite, Flush}
SmallFlush    == {SmallWrite, Flush}

ThreadSymmetry == Permutations(Threads)
=============================================================================
