-------------------------------- MODULE Einkctl --------------------------------
(***************************************************************************)
(* The program einkctl (runtime/einkctl.c): render, display and clear.  The   *)
(* text that is read is laid out (TextLayout); the page asked for is written  *)
(* to a file, or is the frame the panel shows (PanelDriver).  The panel goes  *)
(* on with what it was doing meanwhile.                                     *)
(***************************************************************************)
EXTENDS TextLayout, PanelDriver

CONSTANTS
  Inputs,      \* what may be read
  Displayed,   \* what may be sent to the panel
  MaxInput,    \* MAX_INPUT_BYTES
  MaxPage      \* the highest page asked for

White == <<>>
ASSUME InputsAssumption ==
  Inputs \subseteq Seq(Bytes) /\ Displayed \subseteq Inputs /\ MaxInput \in Nat /\ MaxPage \in Nat

Idle == pc = NoRun /\ phase = "none"
NoPanelStep == pc' = pc /\ UNCHANGED <<frame, opened, mine, exported, panel>>

EinkctlInit ==
  /\ Init /\ phase = "none" /\ input = <<>> /\ source = 0 /\ escape = "none"
  /\ text = <<>> /\ cursor = 0 /\ rows = <<>>

\* Bound: what is not Displayed is laid out before the first run with the panel, which it
\* does not involve.
Readable == IF frame = Unknown THEN Inputs ELSE Displayed
\* read_text: an input that fills the buffer is refused.
Read(bytes) ==
  /\ found' = exported
  /\ IF Len(bytes) < MaxInput THEN BeginLayout(bytes) /\ result' = "none"
     ELSE result' = "failed" /\ UNCHANGED layout
  /\ NoPanelStep
LayOut == (Sanitize \/ Sanitized \/ WrapLine \/ Wrapped) /\ UNCHANGED vars
InRange(page) == page < Pages
\* The page is written to a file, which may fail.
Render(page) ==
  /\ phase = "laid" /\ InRange(page) /\ NoLayout
  /\ result' \in {"rendered", "failed"} /\ found' = found /\ NoPanelStep
Display(page) ==
  /\ phase = "laid" /\ input \in Displayed /\ InRange(page) /\ Start(Frame(page)) /\ NoLayout
Clear == Idle /\ Start(White) /\ UNCHANGED layout
\* The page does not exist, or there is no memory.
Refuse ==
  /\ phase \in {"sanitize", "wrap"} \/ (phase = "laid" /\ \E page \in 0 .. MaxPage : ~InRange(page))
  /\ NoLayout /\ result' = "failed" /\ found' = found /\ NoPanelStep
Interrupted ==
  /\ phase # "none" /\ NoLayout /\ result' = "killed" /\ found' = found /\ NoPanelStep

EinkctlNext ==
  \/ Idle /\ \E bytes \in Readable : Read(bytes)
  \/ LayOut \/ (\E page \in 0 .. MaxPage : Render(page) \/ Display(page))
  \/ Clear \/ Refuse \/ Interrupted
  \/ PanelNext /\ UNCHANGED layout

EinkctlSpec == EinkctlInit /\ [][EinkctlNext]_<<layout, vars>>
-----------------------------------------------------------------------------
\* Types; a layout and a run of the panel never share the program; and the text fits in the
\* four bytes that render_text allocates for each byte of the input.
EinkctlTypeOK ==
  /\ TypeOK
  /\ phase \in {"none", "sanitize", "wrap", "laid"} /\ (phase # "none" => pc = NoRun)
  /\ source \in 0 .. Len(input) /\ escape \in {"none", "start", "csi", "osc"}
  /\ (\A i \in DOMAIN text : text[i] \in {"x", " ", "\n"}) /\ FitsBuffer
=============================================================================
