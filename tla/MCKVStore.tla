----------------------------- MODULE MCKVStore -----------------------------
(* Small instances of KVStore for TLC. *)
EXTENDS KVRecovery, TLC
CONSTANTS k1, k2, v1, v2

\* Items of two sizes, and items of one size.
MCItemLen == (v1 :> 2) @@ (v2 :> 3)
MCEvenLen == (v1 :> 2) @@ (v2 :> 2)
============================================================================
