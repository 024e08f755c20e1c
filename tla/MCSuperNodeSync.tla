-------------------------- MODULE MCSuperNodeSync --------------------------
(* SuperNodeSync for TLC: two interchangeable workers, a ring buffer of two *)
(* slots and enough payloads to fill it while both workers are busy.        *)
EXTENDS SuperNodeSync, TLC

WorkerSymmetry == Permutations(Workers)
=============================================================================
