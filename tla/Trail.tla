-------------------------------- MODULE Trail --------------------------------
(***************************************************************************)
(* What an audit trail promises, whoever writes it: each entry takes the   *)
(* next number and names the hash of the entry before, no entry is ever    *)
(* given other links, the last one is never lost, and each is copied once. *)
(***************************************************************************)
EXTENDS Naturals

CONSTANT Genesis   \* what the first entry names

VARIABLES
  links,    \* of the entries that are there, by number: prev and hash
  top,      \* the number of the last one
  copies    \* the numbers of those copied to the mirror

vars == <<links, top, copies>>

Init == DOMAIN links = {} /\ top = 0 /\ copies = {}

Agree(there) == \A s \in there : links'[s] = links[s]

Chain ==
  /\ top' = top + 1
  /\ DOMAIN links' = DOMAIN links \cup {top'}
  /\ Agree(DOMAIN links)
  /\ links'[top'].prev = IF top = 0 THEN Genesis ELSE links[top].hash
  /\ UNCHANGED copies

Copy ==
  /\ \E s \in copies' \ copies : s \in 1..top /\ copies' = copies \cup {s}
  /\ UNCHANGED <<links, top>>

\* Somebody removes an entry from the database.
Lose ==
  /\ \E s \in DOMAIN links \ DOMAIN links' : s # top /\ DOMAIN links' = DOMAIN links \ {s}
  /\ Agree(DOMAIN links')
  /\ UNCHANGED <<top, copies>>

Next == Chain \/ Copy \/ Lose

Spec == Init /\ [][Next]_vars
=============================================================================
