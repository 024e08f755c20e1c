-------------------------- MODULE MCStorageWatcher --------------------------
(* StorageWatcher for TLC: two diffs of one contract. *)
EXTENDS StorageWatcher

OneContract == CHOOSE c \in Contracts : TRUE
SameContract == [d \in Diffs |-> OneContract]
=============================================================================
