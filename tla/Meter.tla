-------------------------------- MODULE Meter --------------------------------
(***************************************************************************)
(* What a limit on use promises, whoever counts: units are sold one by     *)
(* one, each under a limit that is or has been in force, and only what was *)
(* sold is used.  The limit may change at any time, and a sale under way   *)
(* goes by the one it began with.                                          *)
(***************************************************************************)
EXTENDS Naturals

VARIABLES
  sold,    \* the counter
  used,    \* units delivered
  limits   \* every limit that has been in force; 0: none

vars == <<sold, used, limits>>

Init == sold = 0 /\ used = 0

Allows(l) == l > 0 => sold < l

Sell ==
  /\ \E l \in limits : Allows(l)
  /\ sold' = sold + 1
  /\ UNCHANGED <<used, limits>>

Use ==
  /\ used < sold
  /\ used' = used + 1
  /\ UNCHANGED <<sold, limits>>

Change ==
  /\ \E l \in limits' : limits' = limits \cup {l}
  /\ UNCHANGED <<sold, used>>

Next == Sell \/ Use \/ Change

Spec == Init /\ [][Next]_vars
=============================================================================
