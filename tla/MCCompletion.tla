---------------------------- MODULE MCCompletion ----------------------------
(* Instances of Completion for TLC. *)
EXTENDS Completion, TLC

CONSTANTS video, note

Symmetry == Permutations(Calls)
=============================================================================
