----------------------------- MODULE MCCompactArena -----------------------------
(***************************************************************************)
(* CompactArena for TLC: nodes of four bytes or, for the longest request,   *)
(* of its own size; one to three regions in each; data that starts         *)
(* on and off a boundary.                                                  *)
(***************************************************************************)
EXTENDS CompactArena
=============================================================================
