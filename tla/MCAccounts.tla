----------------------------- MODULE MCAccounts -----------------------------
(* Instances of Accounts for TLC. *)
EXTENDS Accounts, TLC

\* The button of the list, and the form, which sends both; the button that activates does what
\* the form does, which sends the role on record with it.
MCBodies == {[role |-> "keep", active |-> "off"], [role |-> "admin", active |-> "on"],
             [role |-> "operador", active |-> "on"], [role |-> "operador", active |-> "off"]}

Symmetry == Permutations(Users) \cup Permutations(Requests)
=============================================================================
