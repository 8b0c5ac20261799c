---------------------------- MODULE MCStoragePool ----------------------------
(* Small instances of StoragePool for TLC.                                  *)
EXTENDS StoragePool, TLC

Permuted == Permutations(Keys) \cup Permutations(Sources)
              \cup Permutations(Workers)
=============================================================================
