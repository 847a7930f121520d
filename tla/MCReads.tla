--------------------------------- MODULE MCReads ---------------------------------
(* The layers under a read: iterators, the memtable's skip list and the files   *)
(* of tables. They meet in what one promises the other (SearchIsAtomic is what  *)
(* lets the iterators take a search of the memtable for one step, and           *)
(* NoTableMissing what lets them take a table for granted), so each is run by   *)
(* itself: layer is the one that moves. While another moves, a layer is as its  *)
(* initial condition has it: no files, no nodes, and an iterator that has not   *)
(* been moved yet over a database of puts of one key.                           *)
EXTENDS TableFiles, SkipList, Iterators

VARIABLE layer

readVars == <<layer, iterVars, skipVars, fileVars>>

PutsOnly ==
    /\ \A i \in 1..MaxUpdates : updates[i] = [key |-> Min(Keys), deletes |-> FALSE]
    /\ ~loose /\ unreadable = {} /\ snapshot = Min(Snapshots)

ReadInit ==
    /\ layer \in {"iterators", "list", "files"}
    /\ Init /\ ListInit /\ IterInit
    /\ layer # "iterators" => PutsOnly

ReadNext ==
    /\ \/ layer = "iterators" /\ IterNext /\ UNCHANGED <<skipVars, fileVars>>
       \/ layer = "list" /\ ListNext /\ UNCHANGED <<iterVars, fileVars>>
       \/ layer = "files" /\ Next /\ UNCHANGED <<iterVars, skipVars>>
    /\ UNCHANGED layer

ReadSpec == ReadInit /\ [][ReadNext]_readVars
================================================================================
