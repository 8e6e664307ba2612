---------------------------- MODULE MCStorageSync ----------------------------
(* TLC instances of StorageSync. *)
EXTENDS StorageSync, TLC

CONSTANTS k1, k2, d1, d2, t1, t2

\* One entry with an original and a thumbnail; two that share an original.
TwoFiles == k1 :> {d1, d2}
SharedOriginal == k1 :> {d1} @@ k2 :> {d1, d2}
===============================================================================
