------------------------------- MODULE PanelDriver -------------------------------
(***************************************************************************)
(* panel_display of einkctl (runtime/einkctl.c) and the panel, run after    *)
(* run: opening the GPIO lines and the SPI device, the command sequence     *)
(* with its waits for the BUSY line, the failure path, and closing.         *)
(*                                                                         *)
(* A run may be killed at any step; the exported lines and the panel stay   *)
(* as they are.  The panel works on a command until it is done, if ever.    *)
(* Its BUSY line is low from the moment it has taken such a command.        *)
(***************************************************************************)
EXTENDS Naturals, Sequences, FiniteSets

CONSTANTS Frames    \* framebuffers; clear is one that is white

Lines == {"dc", "reset", "busy"}
Unknown == <<<<"unknown">>>>
NoRun == <<"run", "none">>
Failed == <<"run", "failed">>
Closing == <<"run", "closing">>

ASSUME FramesAssumption == Unknown \notin Frames

VARIABLES
  pc,        \* the step the run is at: one of Sequence, Failed or NoRun
  frame,     \* the frame this run displays
  result,    \* what the last run came to
  opened,    \* lines with a value_fd
  mine,      \* lines with exported_here
  exported,  \* lines exported in the kernel
  found,     \* the lines that were exported when the run began (history)
  power,     \* the panel is powered
  work,      \* the command it works on
  ram,       \* the frame in its memory
  shown      \* the frame it shows

vars == <<pc, frame, result, opened, mine, exported, found, power, work, ram, shown>>
lines == <<opened, mine, exported>>
panel == <<power, work, ram, shown>>
run == <<frame, found>>

OpenSteps == <<<<"open", "base">>, <<"export", "dc">>, <<"configure", "dc">>,
  <<"export", "reset">>, <<"configure", "reset">>, <<"export", "busy">>, <<"configure", "busy">>,
  <<"open", "device">>>>
\* Faulty: the panel is taken as it is.
Unreset == <<<<"transfer", "settings">>>>
InitializeSteps == <<<<"panel", "reset">>, <<"transfer", "settings">>>>
DisplaySteps == <<<<"command", "powerOn">>, <<"wait", "powerOn">>,
  <<"transfer", "oldData">>, <<"transfer", "newData">>, <<"transfer", "fast">>,
  <<"command", "refresh">>, <<"wait", "refresh">>, <<"command", "powerOff">>, <<"wait", "powerOff">>>>
\* The steps of a run that goes well: panel_open, panel_initialize, panel_display.
Sequence == OpenSteps \o InitializeSteps \o DisplaySteps \o <<Closing>>
After(step) == Sequence[CHOOSE i \in 2 .. Len(Sequence) : Sequence[i - 1] = step]

Init ==
  /\ pc = NoRun /\ result = "none" /\ frame = Unknown
  /\ opened = {} /\ mine = {} /\ exported = {} /\ found = {}
  /\ power = FALSE /\ work = "none" /\ ram = Unknown /\ shown = Unknown

Start(f) ==
  /\ pc = NoRun
  /\ pc' = Sequence[1] /\ frame' = f /\ found' = exported /\ result' = "none"
  /\ opened' = {} /\ mine' = {}
  /\ UNCHANGED <<exported, panel>>

Pass(step) == pc = step /\ pc' = After(step)
\* panel_open failed: the panel is closed.  panel_display failed: goto fail.
OpenFails(step) == pc = step /\ pc' = Closing /\ result' = "failed"
DisplayFails(step) == pc = step /\ pc' = Failed /\ result' = "failed"
-----------------------------------------------------------------------------
\* gpio_open_line: a line that is exported already (EBUSY) is used, not owned.
Owned(line) == {line} \ exported

Export(line) ==
  /\ \/ /\ Pass(<<"export", line>>)
        /\ exported' = exported \cup {line}
        /\ mine' = mine \cup Owned(line)
        /\ UNCHANGED result
     \/ OpenFails(<<"export", line>>) /\ UNCHANGED <<exported, mine>>
  /\ UNCHANGED <<run, opened, panel>>

\* The direction appears in sysfs and is set, and the value is opened; or not.
Configure(line) ==
  /\ \/ Pass(<<"configure", line>>) /\ opened' = opened \cup {line} /\ UNCHANGED result
     \/ OpenFails(<<"configure", line>>) /\ UNCHANGED opened
  /\ UNCHANGED <<run, mine, exported, panel>>

\* find_gpio_base, and the SPI device.
Open(what) ==
  /\ \/ Pass(<<"open", what>>) /\ UNCHANGED result
     \/ OpenFails(<<"open", what>>)
  /\ UNCHANGED <<run, lines, panel>>

\* Faulty: a line is given back only if it was opened too.
ReleasedWhenOpen == mine \cap opened
\* gpio_close_line: every line exported here is unexported.
Released == mine

Close ==
  /\ pc = Closing /\ pc' = NoRun
  /\ result' = IF result = "failed" THEN "failed" ELSE "shown"
  /\ exported' = exported \ Released
  /\ opened' = {} /\ mine' = {}
  /\ UNCHANGED <<run, panel>>
-----------------------------------------------------------------------------
\* panel_reset: the panel drops what it was doing.
ResetPanel ==
  /\ \/ /\ Pass(<<"panel", "reset">>) /\ UNCHANGED result
        /\ power' = FALSE /\ work' = "none" /\ ram' = Unknown
        /\ shown' = IF work = "refresh" THEN Unknown ELSE shown
     \/ DisplayFails(<<"panel", "reset">>) /\ UNCHANGED panel
  /\ UNCHANGED <<run, lines>>

\* Commands the panel takes at once; a transfer that fails leaves part of a frame.
Transfer(what) ==
  /\ \/ /\ Pass(<<"transfer", what>>) /\ UNCHANGED result
        /\ ram' = IF what = "newData" THEN frame ELSE ram
     \/ /\ DisplayFails(<<"transfer", what>>)
        /\ ram' = IF what = "newData" THEN Unknown ELSE ram
  /\ UNCHANGED <<run, lines, power, work, shown>>

\* Commands the panel works on.  It does not refresh without power.  A command whose
\* write fails may have reached it.
Command(what) ==
  /\ \/ Pass(<<"command", what>>) /\ UNCHANGED result
     \/ DisplayFails(<<"command", what>>)
  /\ LET taken == IF what = "refresh" /\ ~power THEN work ELSE what
     IN work' \in IF pc' = Failed THEN {work, taken} ELSE {taken}
  /\ UNCHANGED <<run, lines, power, ram, shown>>

\* Faulty: a timeout is not an error.
IdleOrLate == TRUE
\* What ends panel_wait_idle well: the BUSY line is high.
PanelIdle == work = "none"

\* panel_wait_idle: BUSY is high; or it cannot be read, or it is low for too long.
Wait(what) ==
  /\ \/ Pass(<<"wait", what>>) /\ PanelIdle /\ UNCHANGED result
     \/ DisplayFails(<<"wait", what>>)
  /\ UNCHANGED <<run, lines, panel>>

\* fail: one attempt to power off, which fails, or which a busy panel may ignore.
FailureOff ==
  /\ pc = Failed /\ pc' = Closing
  /\ work' \in {work, "powerOff"}
  /\ shown' = IF work = "refresh" /\ work' # work THEN Unknown ELSE shown
  /\ UNCHANGED <<run, result, lines, power, ram>>

PanelFinishes ==
  /\ work # "none" /\ work' = "none"
  /\ power' = (IF work = "refresh" THEN power ELSE work = "powerOn")
  /\ shown' = IF work = "refresh" THEN ram ELSE shown
  /\ UNCHANGED <<pc, run, result, lines, ram>>

Killed ==
  /\ pc # NoRun /\ pc' = NoRun /\ result' = "killed"
  /\ opened' = {} /\ mine' = {}
  /\ UNCHANGED <<run, exported, panel>>

\* What follows a Start.
PanelNext ==
  \/ \E line \in Lines : Export(line) \/ Configure(line)
  \/ \E what \in {"base", "device"} : Open(what)
  \/ ResetPanel
  \/ \E what \in {"settings", "oldData", "newData", "fast"} : Transfer(what)
  \/ \E what \in {"powerOn", "refresh", "powerOff"} : Command(what) \/ Wait(what)
  \/ FailureOff \/ Close \/ Killed \/ PanelFinishes
-----------------------------------------------------------------------------
\* The run is between runs, at a step or on its way out; what it owns it exported itself.
TypeOK ==
  /\ pc \in {Sequence[i] : i \in 1 .. Len(Sequence)} \cup {Failed, NoRun}
  /\ {frame, ram, shown} \subseteq Frames \cup {Unknown}
  /\ result \in {"none", "rendered", "shown", "failed", "killed"}
  /\ opened \subseteq exported /\ exported \subseteq Lines /\ mine \subseteq exported \ found
  /\ power \in BOOLEAN /\ work \in {"none", "powerOn", "refresh", "powerOff"}

\* When einkctl exits with success the panel shows its frame, is idle and has no power,
\* in whatever state an earlier run that failed or was killed had left it.
ShownOnSuccess ==
  pc = NoRun /\ result = "shown" => shown = frame /\ ~power /\ work = "none"

\* But for the attempt to power off on the way out, no command and no data go to a panel
\* that is still at work on a command of this run or of an earlier one.
NoCommandWhileBusy ==
  [][pc[1] \in {"transfer", "command"} /\ pc' \notin {pc, NoRun} => work = "none"]_vars

\* A run that was not killed leaves exported the lines it found exported, and no others,
\* wherever it failed.
LinesReturned == pc = NoRun /\ result \in {"shown", "failed"} => exported = found
=============================================================================
