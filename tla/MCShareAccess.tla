--------------------------- MODULE MCShareAccess ---------------------------
(* Instances of ShareAccess for TLC, and mutations of its definitions. *)
EXTENDS ShareAccess, TLC

CONSTANTS owner, ana, t1

AnaHasToken == (owner :> None) @@ (ana :> t1)
NobodyHasToken == (owner :> None) @@ (ana :> None)
NoChange == [expiration |-> Keep, password |-> Keep, maxViews |-> Keep, maxDownloads |-> Keep]

\* Raise the limits; lower one and lift the other.
MCLimitBodies == {[NoChange EXCEPT !.maxViews = 2, !.maxDownloads = 0],
                  [NoChange EXCEPT !.maxViews = 0, !.maxDownloads = 1]}
\* Set a password; remove it; lift both limits and move the
\* expiration.
MCPasswordBodies == {[NoChange EXCEPT !.password = 1],
                     [NoChange EXCEPT !.password = 0],
                     [NoChange EXCEPT !.maxViews = 0, !.maxDownloads = 0, !.expiration = 2]}

Symmetry == Permutations(Requests) \cup Permutations(Patches) \cup Permutations(Tokens)
=============================================================================
