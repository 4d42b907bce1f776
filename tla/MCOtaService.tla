---------------------------- MODULE MCOtaService ----------------------------
(* Small instances of OtaService for TLC. *)
EXTENDS OtaService, TLC
CONSTANTS full, patch

\* A whole image that ends inside a cache block, and a patch that fills two.
MCLen == (full :> 3) @@ (patch :> 4)

\* A whole image that fills the cache twice.
MCEvenLen == full :> 4
=============================================================================
