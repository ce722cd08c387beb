-------------------------------- MODULE MCFxWamr --------------------------------
(***************************************************************************)
(* fx-wamr for TLC: the life of its process, started on the modules that    *)
(* fxctl uploads (RunnerLifecycle under Deploy), and the streams of its     *)
(* native library (HttpStreams).  They share no state, so one behaviour is  *)
(* of either.                                                              *)
(*                                                                         *)
(* Process after process, on the firmware's module or on one of two that    *)
(* are loaded and run: one that replaces the other.  Two slots, three heap  *)
(* blocks (one more than the slots, so that a freed block can be reused or  *)
(* not), two responses to tell apart, and responses one byte longer than a  *)
(* buffer.  Modules, blocks and responses are symmetric: only safety is     *)
(* checked.                                                                *)
(***************************************************************************)
EXTENDS Deploy, HttpStreams, TLC

VARIABLE part   \* "process" or "streams"

Symmetric == Permutations(Modules) \cup Permutations(HeapBuffers) \cup Permutations(Tags)

FxWamrInit ==
  /\ part \in {"process", "streams"} /\ DeployInit /\ StreamsInit
  /\ part = "streams" => storage = "ram"   \* nothing is stored
FxWamrNext ==
  \/ part = "process" /\ DeployNext /\ UNCHANGED <<part, streamsVars>>
  \/ part = "streams" /\ StreamsNext /\ UNCHANGED <<part, vars, deployVars>>
FxWamrSpec == FxWamrInit /\ [][FxWamrNext]_<<part, vars, deployVars, streamsVars>>
=============================================================================
