----------------------------- MODULE MCKVGcSync -----------------------------
(* Small instances of KVGcSync for TLC; the configurations name the threads. *)
EXTENDS KVGcSync
=============================================================================
