---------------------------- MODULE MCDmRequest ----------------------------
(* Instances of DmRequest for TLC. *)
EXTENDS DmRequest

CONSTANTS c1, c2
=============================================================================
