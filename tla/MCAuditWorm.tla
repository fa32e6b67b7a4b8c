---------------------------- MODULE MCAuditWorm ----------------------------
(* Instances of AuditWorm for TLC. *)
EXTENDS AuditWorm, TLC

CONSTANTS w1, w2

\* Injective, as SHA-256 is taken to be.
MCHash(previous, payload) == <<previous, payload>>
Symmetry == Permutations({w1, w2})
=============================================================================
