-------------------------- MODULE MCRuntimeAllocator --------------------------
(***************************************************************************)
(* An instance of RuntimeAllocator for TLC.  The metadata arena is four       *)
(* 8-byte units long and objects above SmallMax = 8 bytes go to it: two       *)
(* blocks can leave a hole before, between and behind them, and sizes on      *)
(* both sides of a unit boundary, of the whole arena and of the cap are       *)
(* requested.  Two guest pages grow and shrink with libc and arena objects    *)
(* around them.                                                             *)
(***************************************************************************)
EXTENDS RuntimeAllocator

ArenaSizes == {0, 8, 9, 17, 32, 33}
=============================================================================
