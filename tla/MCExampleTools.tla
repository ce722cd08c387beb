----------------------------- MODULE MCExampleTools -----------------------------
(***************************************************************************)
(* The tools of the example project for TLC.  They share no state, so one   *)
(* behaviour calls either the file tools or run_tests, over and over.       *)
(*                                                                         *)
(* ProjectTools: contents that are empty, short, at the limit and above it; *)
(* room below, at and above the length of a file or a text; two process     *)
(* ids, so that a later process may or may not have the id of one that was  *)
(* killed.  TestRunner: a reply of five bytes of which two are reserved, a  *)
(* pipe of two bytes, at most six bytes written per run; a call may start   *)
(* after one that lost its guards, and while a killed descendant of the     *)
(* last one is still dying.                                                *)
(***************************************************************************)
EXTENDS ProjectTools, TestRunner

VARIABLE tool   \* which of the two is called

Sizes == [empty |-> 0, short |-> 1, full |-> 2, over |-> 3]
Originals == [p \in Paths |-> IF p = "battery.sh" THEN "short" ELSE "full"]
TextLengths == [t \in Texts |-> IF t = "denied" THEN 2 ELSE 1]

ToolsInit ==
  /\ tool \in {"files", "tests"} /\ Init /\ TestInit
  /\ tool = "tests" => call = CHOOSE c \in Calls : TRUE   \* no call of a file tool is made
ToolsNext ==
  \/ tool = "files" /\ Next /\ UNCHANGED <<tool, testVars>>
  \/ tool = "tests" /\ TestNext /\ UNCHANGED <<tool, vars>>

\* The fairness of TestFairSpec; where only files are called, none of its actions is enabled.
ToolsFairSpec ==
  /\ ToolsInit /\ [][ToolsNext]_<<tool, vars, testVars>>
  /\ WF_testVars(Runner) /\ WF_testVars(TimePasses)
  /\ WF_testVars(ChildDies) /\ WF_testVars(DescDies)
  /\ WF_testVars(ProviderAnswer)
=============================================================================
