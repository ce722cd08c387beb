------------------------------ MODULE MCTestRunner ------------------------------
(***************************************************************************)
(* TestRunner for TLC: a reply of five bytes of which two are reserved, a   *)
(* pipe of two bytes, at most six bytes written per run ; any number of     *)
(* calls, so that one starts after a call that lost its guards and while a  *)
(* killed descendant of the last one is still dying.                        *)
(***************************************************************************)
EXTENDS TestRunner
=============================================================================
