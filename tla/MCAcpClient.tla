------------------------------ MODULE MCAcpClient ------------------------------
(***************************************************************************)
(* AcpClient for TLC: a response of two chunks, three messages besides the  *)
(* answers, a pipe of two lines, one poll, any number of runs.              *)
(***************************************************************************)
EXTENDS AcpClient
=============================================================================
