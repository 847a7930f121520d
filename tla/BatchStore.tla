----------------------------- MODULE BatchStore -----------------------------
(***************************************************************************)
(* What DBImpl::Write promises to its callers, without its queue, groups,  *)
(* logs and memtables: a batch becomes visible to readers as a whole, at   *)
(* one instant between the call and its return, if and only if the call    *)
(* returns OK.                                                             *)
(***************************************************************************)
EXTENDS Naturals, Sequences

VARIABLES empty,        \* the calls without a batch (a null WriteBatch)
          results,      \* the result of each call: "pending", "ok", "error"
          visible       \* the calls whose updates a new reader sees

vars == <<empty, results, visible>>

Init ==
    /\ empty = {}
    /\ results = <<>>
    /\ visible = {}

Pending == {c \in DOMAIN results : results[c] = "pending"}

Call ==
    /\ results' = Append(results, "pending")
    /\ empty' \in {empty, empty \union {Len(results) + 1}}
    /\ UNCHANGED visible

(* Several batches may become visible at once, never part of one. *)
Apply ==
    /\ \E S \in SUBSET (Pending \ empty) : visible' = visible \union S
    /\ UNCHANGED <<empty, results>>

ReturnOK ==
    \E c \in Pending :
        /\ c \in visible \union empty
        /\ results' = [results EXCEPT ![c] = "ok"]
        /\ UNCHANGED <<empty, visible>>

(* A batch whose call failed is not visible, and stays so. *)
ReturnError ==
    \E c \in Pending :
        /\ c \notin visible
        /\ results' = [results EXCEPT ![c] = "error"]
        /\ UNCHANGED <<empty, visible>>

Next == Call \/ Apply \/ ReturnOK \/ ReturnError

Spec == Init /\ [][Next]_vars
=============================================================================
