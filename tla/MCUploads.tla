----------------------------- MODULE MCUploads -----------------------------
(* Instances of Uploads for TLC. *)
EXTENDS Uploads, TLC

CONSTANTS video, note

\* Two chunks, the second one shorter; and a single chunk.
MCBytes == (video :> 3) @@ (note :> 2)
=============================================================================
