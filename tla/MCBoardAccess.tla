----------------------------- MODULE MCBoardAccess -----------------------------
(***************************************************************************)
(* BoardAccess for TLC: two boards, two random passwords, and room for three *)
(* lines in a terminal, two of a command and one that was left there.       *)
(* Boards and passwords are symmetric, as only safety is checked.           *)
(***************************************************************************)
EXTENDS BoardAccess, TLC

Symmetry == Permutations(Passwords) \cup Permutations(Boards)
=============================================================================
