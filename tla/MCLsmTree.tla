------------------------------ MODULE MCLsmTree ------------------------------
(* Small instances of LsmTree for TLC. *)
EXTENDS LsmTree

WholeRange == {<<1, NumKeys>>}
TwoRanges  == WholeRange \union {<<1, 2>>}

(* Values for every key; and deletions of the first one. *)
Values    == {[key |-> k, kind |-> "value"] : k \in Keys}
Deletion  == [key |-> 1, kind |-> "deletion"]
Deletions == Values \union {Deletion}
=============================================================================
