--------------------------------- MODULE MCEinkctl ---------------------------------
(***************************************************************************)
(* Six columns, so that the first third of a line has two, and pages of two   *)
(* lines.  Every input of up to four bytes of every kind, and every input of  *)
(* up to ten letters, blanks and newlines: a full line and its neighbours.   *)
(***************************************************************************)
EXTENDS Einkctl

UpTo(n, S) == UNION {[1 .. k -> S] : k \in 0 .. n}
ThreeLines == <<"x", "\n", "x", "\n", "x">>
MCDisplayed == {ThreeLines, <<>>}
MCInputs == UpTo(4, Bytes) \cup UpTo(10, {"x", " ", "\n"})
MCFrames == {White, <<<<>>>>, <<<<"x">>, <<"x">>>>, <<<<"x">>>>}
=============================================================================
