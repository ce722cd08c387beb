----------------------------- MODULE RunnerLifecycle -----------------------------
(***************************************************************************)
(* main of fx-wamr (runtime/fx_wamr_runner.c), process after process: what  *)
(* it acquires, in which order, what it does when a step fails, and what it  *)
(* gives back, in which order.  The board build: no AOT, module in flash.    *)
(*                                                                         *)
(* The services it starts depend on each other (Needs).  What they leave    *)
(* behind in memory that outlives them is the stain of the process.         *)
(***************************************************************************)
EXTENDS Naturals, Sequences

VARIABLES
  pc,         \* the step main is at, see Setup; "teardown", or how the process ended
  undone,     \* number of teardown steps done
  held,       \* what the process holds
  input,      \* module_bytes: none, in flash, mapped read-only, or a buffer in RAM
  retained,   \* the loaded module refers to its input
  stain       \* what the process left in the arenas and in the environment's copies

vars == <<pc, undone, held, input, retained, stain>>

Guards == {"shell_guard", "test_guard"}
Environment == {"key", "model", "options"}
Stains == {"metadata", "stream", "key"}
Resources == {"allocator", "stream", "descriptor", "input", "native", "runtime",
              "module", "instance"} \cup Guards \cup Environment

\* The steps up to the guest's main, in order.  "catalog" is a setenv, "limits"
\* the check of FX_WAMR_MAX_PAGES, "opened" and "buffered" are reading a module
\* from a file.
Setup == <<"start", "caches", "allocator", "stream", "guards", "key", "model", "options",
           "catalog", "input", "native", "runtime", "module", "limits", "instance", "run">>
Steps == {Setup[i] : i \in 1 .. Len(Setup)} \cup {"opened", "buffered"}
After(step) == Setup[CHOOSE i \in 2 .. Len(Setup) : Setup[i - 1] = step]

\* Faulty: the module's bytes go first, as they came before the runtime.
TeardownInputFirst ==
  <<{"input"}, {"instance"}, {"module"}, {"runtime"}, {"native"}, Guards,
    Environment, {"allocator"}, {"stream"}>>
\* cleanup, in order: what each step releases.
Teardown == <<{"instance"}, {"module"}, {"runtime"}, {"native"}, Guards, {"input"},
              Environment, {"allocator"}, {"stream"}>>

\* Pairs: what is overwritten when something is released.
Wipes == {<<"allocator", "metadata">>, <<"stream", "stream">>, <<"key", "key">>}
\* Faulty: what is released is not overwritten.
WipedNothing(released) == {}
Wiped(released) == {w[2] : w \in {v \in Wipes : v[1] \in released}}

\* Pairs: what must be there as long as something else is.
Needs == {<<"instance", "module">>, <<"instance", "native">>, <<"module", "runtime">>,
          <<"module", "key">>, <<"module", "model">>, <<"runtime", "allocator">>,
          <<"native", "stream">>}

Init ==
  /\ pc = "returned" /\ undone = 0 /\ held = {} /\ input = "none"
  /\ retained = FALSE /\ stain = {}

\* Wherever the last process ended, another one is started.
StartProcess ==
  /\ pc \in {"returned", "killed"}
  /\ pc' = "start" /\ undone' = 0 /\ held' = {} /\ input' = "none"
  /\ retained' = FALSE /\ stain' = {}

\* goto cleanup
Fail == pc' = "teardown" /\ UNCHANGED <<undone, held, input, retained, stain>>
Pass == pc' = After(pc)

\* --help and a wrong number of arguments return at once.
Arguments ==
  /\ pc = "start"
  /\ Pass \/ pc' = "returned"
  /\ UNCHANGED <<undone, held, input, retained, stain>>

\* A step that acquires one thing, or fails and holds nothing new.
Acquired == [step \in {"allocator", "stream", "key", "model", "options", "native", "runtime",
                       "instance"} |-> {step}]
Acquire ==
  /\ pc \in DOMAIN Acquired
  /\ \/ /\ Pass /\ held' = held \cup Acquired[pc]
        /\ stain' = stain \cup (Acquired[pc] \cap {"key"})
        /\ UNCHANGED <<undone, input, retained>>
     \/ pc # "options" /\ Fail

\* Optional values of the environment may be absent; a step that acquires nothing.
Check ==
  /\ pc \in {"caches", "options", "catalog", "limits"}
  /\ \/ Pass /\ UNCHANGED <<undone, held, input, retained, stain>>
     \/ pc # "options" /\ Fail

\* Both guards, or the first given back; munmap may fail.
PrepareGuards ==
  /\ pc = "guards"
  /\ \/ Pass /\ held' = held \cup Guards
     \/ /\ pc' = "teardown"
        /\ held' \in {held, held \cup {"shell_guard"}}
  /\ UNCHANGED <<undone, input, retained, stain>>
-----------------------------------------------------------------------------
\* load_module_bytes

\* The module in flash, for the default path: its header is checked.
InputFromFlash ==
  /\ pc = "input"
  /\ \/ Pass /\ input' = "flash" /\ UNCHANGED <<undone, held, retained, stain>>
     \/ Fail

OpenFile ==
  /\ pc = "input"
  /\ \/ /\ pc' = "opened" /\ held' = held \cup {"descriptor"}
        /\ UNCHANGED <<undone, input, retained, stain>>
     \/ Fail

\* Its size or first bytes are wrong, or it cannot be mapped or given a buffer.
RejectFile ==
  /\ pc = "opened"
  /\ pc' = "teardown" /\ held' = held \ {"descriptor"}
  /\ UNCHANGED <<undone, input, retained, stain>>

\* FX_WAMR_READONLY_MODULE
MapFile ==
  /\ pc = "opened"
  /\ pc' = After("input") /\ input' = "mapped"
  /\ held' = (held \ {"descriptor"}) \cup {"input"}
  /\ UNCHANGED <<undone, retained, stain>>

BufferFile ==
  /\ pc = "opened"
  /\ pc' = "buffered" /\ input' = "buffer" /\ held' = held \cup {"input"}
  /\ UNCHANGED <<undone, retained, stain>>

\* Faulty: the descriptor stays open when the file cannot be read.
ReadFileLeaky ==
  /\ pc = "buffered"
  /\ \/ /\ pc' = After("input") /\ held' = held \ {"descriptor"} /\ UNCHANGED input
     \/ /\ pc' = "teardown" /\ held' = held \ {"input"} /\ input' = "none"
  /\ UNCHANGED <<undone, retained, stain>>
\* Faulty: the freed buffer stays in module_bytes, for cleanup to free again.
ReadFileTwice ==
  /\ pc = "buffered"
  /\ \/ /\ pc' = After("input") /\ held' = held \ {"descriptor"} /\ UNCHANGED input
     \/ /\ pc' = "teardown" /\ held' = held \ {"descriptor", "input"} /\ UNCHANGED input
  /\ UNCHANGED <<undone, retained, stain>>
ReadFile ==
  /\ pc = "buffered"
  /\ \/ /\ pc' = After("input") /\ held' = held \ {"descriptor"} /\ UNCHANGED input
     \/ /\ pc' = "teardown" /\ held' = held \ {"descriptor", "input"} /\ input' = "none"
  /\ UNCHANGED <<undone, retained, stain>>

\* xip: the input must not be written to or released.
Immutable == input \in {"flash", "mapped"}

\* Faulty: a buffer is released whatever the runtime says.
FreesInputAlways(freeable) == ~Immutable
\* The input is released after the load when the runtime has copied what it needs.
FreesInput(freeable) == ~Immutable /\ freeable

\* wasm_runtime_load_ex: allowed to, a runtime may copy what it needs or keep the input.
LoadModule ==
  /\ pc = "module"
  /\ \/ \E freeable \in IF Immutable THEN {FALSE} ELSE BOOLEAN :
          /\ Pass /\ retained' = ~freeable
          /\ IF FreesInput(freeable)
             THEN held' = (held \cup {"module"}) \ {"input"} /\ input' = "none"
             ELSE held' = held \cup {"module"} /\ UNCHANGED input
          /\ UNCHANGED <<undone, stain>>
     \/ Fail
-----------------------------------------------------------------------------
\* The runtime keeps large objects in the metadata arena; the guest, in its start
\* function already, receives responses in the stream arena.
UseArenas ==
  /\ pc \in Steps \cup {"teardown"}
  /\ \/ "runtime" \in held /\ stain' = stain \cup {"metadata"}
     \/ "module" \in held /\ pc # "teardown" /\ stain' = stain \cup {"stream"}
  /\ UNCHANGED <<pc, undone, held, input, retained>>

\* The guest runs: its tests lend the guards, which may not all come back.
RunGuest ==
  /\ pc = "run"
  /\ held' \in {held \ lent : lent \in SUBSET Guards}
  /\ UNCHANGED <<pc, undone, input, retained, stain>>

\* The singleton environment could not be made, the guest failed, or it exited.
GuestEnds == pc = "run" /\ Fail

\* cleanup: each label releases what is held, and only that.
TearDown ==
  /\ pc = "teardown" /\ undone < Len(Teardown)
  /\ LET gone == Teardown[undone + 1] \cap held
     IN  /\ undone' = undone + 1
         /\ held' \in IF gone \subseteq Guards
                      THEN {held \ given : given \in SUBSET gone} ELSE {held \ gone}
         /\ stain' = stain \ Wiped(gone)
         /\ input' = IF "input" \in Teardown[undone + 1] THEN "none" ELSE input
         /\ retained' = (retained /\ "module" \notin gone)
  /\ UNCHANGED pc

Return ==
  /\ pc = "teardown" /\ undone = Len(Teardown)
  /\ pc' = "returned"
  /\ UNCHANGED <<undone, held, input, retained, stain>>

\* The kernel takes back what a process held; nothing is wiped.
Killed ==
  /\ pc \in Steps \cup {"teardown"}
  /\ pc' = "killed" /\ undone' = 0 /\ held' = {} /\ input' = "none" /\ retained' = FALSE
  /\ UNCHANGED stain

ProcessSteps ==
  \/ Arguments \/ Acquire \/ Check \/ PrepareGuards
  \/ InputFromFlash \/ OpenFile \/ RejectFile \/ MapFile \/ BufferFile \/ ReadFile
  \/ LoadModule \/ UseArenas \/ RunGuest \/ GuestEnds
  \/ TearDown \/ Return \/ Killed

Next == StartProcess \/ ProcessSteps

Spec == Init /\ [][Next]_vars
-----------------------------------------------------------------------------
TypeOK ==
  /\ pc \in Steps \cup {"teardown", "returned", "killed"}
  /\ undone \in 0 .. Len(Teardown)
  /\ held \subseteq Resources
  /\ input \in {"none", "flash", "mapped", "buffer"}
  /\ input \in {"mapped", "buffer"} <=> "input" \in held    \* nothing is freed twice
  /\ retained \in BOOLEAN
  /\ stain \subseteq Stains

\* At every moment, in every unwinding, whatever is held still has all that it
\* depends on: the runtime its allocator, the guest the HTTP streams, these their
\* buffer, and a module that refers to its input that input.
Supported ==
  /\ \A need \in Needs : need[1] \in held => need[2] \in held
  /\ retained /\ "module" \in held => input = "flash" \/ "input" \in held

\* A process that returns, early or late, holds nothing but a guard the kernel
\* would not take back, and has wiped the credential, the response and the
\* metadata it put down.
LeavesNothing == pc = "returned" => held \subseteq Guards /\ stain = {}
=============================================================================
