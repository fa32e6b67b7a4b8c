----------------------------- MODULE MCRemoval -----------------------------
(* Instances of Removal for TLC. *)
EXTENDS Removal, TLC
=============================================================================
