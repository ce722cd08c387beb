------------------------------- MODULE TestRunner -------------------------------
(***************************************************************************)
(* The run_tests tool (runtime/fx_example_tools.c:133-235), the process it  *)
(* starts, and the two contiguity guards of runtime/fx_wamr_native.c it     *)
(* lends to that process.                                                  *)
(*                                                                         *)
(* The runner is one thread of fx-wamr.  The test process (the helper, then *)
(* /bin/sh) runs beside it: it writes, closes its output, starts a          *)
(* descendant in its process group, loops, exits.  Time is one fact: the    *)
(* ten-second deadline has passed or not.                                  *)
(***************************************************************************)
EXTENDS Integers

CONSTANTS
  Limit,      \* bytes run_tests may return: min(cap, TEST_LIMIT)
  Reserve,    \* the 80 bytes kept for the exit_code line
  ExitLine,   \* length of that line
  PipeSize,   \* what the pipe holds before a writer blocks
  MunmapMayFail  \* munmap of a guard can be refused

ASSUME RunnerAssumption ==
  /\ Limit \in Nat /\ Reserve \in Nat /\ ExitLine \in Nat /\ PipeSize \in Nat \ {0}
  /\ MunmapMayFail \in BOOLEAN
  /\ ExitLine < Reserve /\ Reserve <= Limit

VARIABLES
  step,      \* where the runner is; "guest" and "request" are outside run_tests
  guards,    \* the guards that are mapped
  child,     \* the test process: [state, out, code, doomed]
  desc,      \* its descendant: [state, out]
  pipe,      \* [unread, reader]: bytes in the pipe, read end open
  written,   \* bytes the group has written in this run
  length,    \* bytes read into the reply
  runFailed, \* the variable failed
  late,      \* the deadline has passed
  result     \* outcome of the last call

testVars == <<step, guards, child, desc, pipe, written, length, runFailed, late, result>>
group == <<child, desc, written>>
verdict == <<length, runFailed, result>>

Guards == {"shell", "test"}
NoChild == [state |-> "none", out |-> FALSE, code |-> 0, doomed |-> FALSE]
NoDesc == [state |-> "none", out |-> FALSE]
NoPipe == [unread |-> 0, reader |-> FALSE]
KilledCode == 2      \* any status of a process a signal ended; 0 and 1 are exits

\* fx_wamr_prepare_low_memory_guards mapped both before the guest started.
TestInit ==
  /\ step = "guest"
  /\ guards = Guards
  /\ child = NoChild /\ desc = NoDesc /\ pipe = NoPipe
  /\ written = 0 /\ length = 0 /\ runFailed = FALSE /\ late = FALSE
  /\ result = "none"
-----------------------------------------------------------------------------
(* Guards.  Each operator gives the sets of guards a call may leave behind: *)
(* mmap fails when no contiguous block is left, munmap may fail too.        *)

\* What unmapping the guard x can leave of the guards g.
Unmap(g, x) == {g \ {x}} \cup (IF MunmapMayFail THEN {g} ELSE {})

\* fx_wamr_lend_test_contiguity_guard returning -1: a guard is not there or is
\* not unmapped.  The shell guard goes first; when the test guard then fails it
\* is mapped again, if mmap has a block for it.
LendFailed(g) ==
  IF g = Guards THEN IF MunmapMayFail THEN {Guards, {"test"}} ELSE {}
  ELSE {g} \cup Unmap(g, "shell")

\* It returns 0 only after unmapping both.
CanLend(g) == g = Guards

\* fx_wamr_rearm_test_contiguity_guard returning 0: both are mapped again.
Rearmed(g) == {Guards}

\* ... and returning -1: the shell guard was refused, or the test guard was and
\* the shell guard is unmapped again.
RearmFailed(g) ==
  (IF "shell" \in g THEN {} ELSE {g})
  \cup (IF "test" \in g THEN {} ELSE Unmap(g \cup {"shell"}, "shell"))
-----------------------------------------------------------------------------
(* The runner. *)

\* The guest talks to its provider; the runner has no part in it.
ProviderRequest ==
  /\ step = "guest"
  /\ step' = "request"
  /\ UNCHANGED <<guards, group, pipe, late, verdict>>

ProviderAnswer ==
  /\ step = "request"
  /\ step' = "guest"
  /\ UNCHANGED <<guards, group, pipe, late, verdict>>

CallReturns(r) ==
  /\ step' = "guest"
  /\ result' = r

\* run_tests up to the vfork: a pipe, then both guards are lent.
RunTests ==
  /\ step = "guest"
  /\ length' = 0 /\ runFailed' = FALSE /\ late' = FALSE /\ written' = 0
  /\ \/ /\ CanLend(guards)
        /\ guards' = {}
        /\ pipe' = [unread |-> 0, reader |-> TRUE]
        /\ desc' = [desc EXCEPT !.out = FALSE]
        /\ child' = NoChild
        /\ step' = "spawn"
        /\ UNCHANGED result
     \/ /\ guards' \in LendFailed(guards)
        /\ CallReturns("error")
        /\ UNCHANGED <<child, desc, pipe>>

\* spawn_test: vfork returns once the child has made its process group and
\* started the helper, or failed to (exit 126 or 127).
Spawn ==
  /\ step = "spawn"
  /\ step' = "reading"
  /\ \/ child' = [NoChild EXCEPT !.state = "running", !.out = TRUE]
     \/ child' = [NoChild EXCEPT !.state = "exited", !.code = 1]
  /\ UNCHANGED <<guards, desc, pipe, written, late, verdict>>

\* vfork fails: the guards are taken back, whether or not that works.
SpawnFails ==
  /\ step = "spawn"
  /\ guards' \in Rearmed(guards) \cup RearmFailed(guards)
  /\ pipe' = NoPipe
  /\ CallReturns("error")
  /\ UNCHANGED <<group, late, length, runFailed>>

\* Faulty: the room for the exit line is forgotten.
ExceedsLimit(count) == count > Limit - length
\* The reply keeps room for the exit line after every piece.
Exceeds(count) == count > Limit - Reserve - length

\* The first loop: a piece is read; one that does not fit fails the run.
ReadPiece ==
  /\ step = "reading"
  /\ \E count \in 1 .. pipe.unread :
       /\ pipe' = [pipe EXCEPT !.unread = @ - count]
       /\ IF Exceeds(count)
          THEN step' = "read_over" /\ runFailed' = TRUE /\ UNCHANGED length
          ELSE length' = length + count /\ UNCHANGED <<step, runFailed>>
  /\ UNCHANGED <<guards, group, late, result>>

Writers == child.out \/ desc.out

\* Faulty: an empty pipe is taken for the end of the output.
PipeEmpty == step = "reading" /\ pipe.unread = 0
\* read returns 0 when the pipe is empty and nobody can write to it any more.
AtEof == PipeEmpty /\ ~Writers

ReadEof ==
  /\ AtEof
  /\ step' = "read_over"
  /\ UNCHANGED <<guards, group, pipe, late, verdict>>

\* Faulty: the loop looks at the clock only when there is output.
ReadGivesUpWithOutput ==
  /\ step = "reading" /\ late /\ pipe.unread > 0
  /\ runFailed' = TRUE /\ step' = "read_over"
  /\ UNCHANGED <<guards, group, pipe, late, length, result>>

\* The deadline, tested on every turn.
ReadGivesUp ==
  /\ step = "reading" /\ late
  /\ runFailed' = TRUE /\ step' = "read_over"
  /\ UNCHANGED <<guards, group, pipe, late, length, result>>

\* fcntl, poll or read fails.
ReadError ==
  /\ step = "reading"
  /\ runFailed' = TRUE /\ step' = "read_over"
  /\ UNCHANGED <<guards, group, pipe, late, length, result>>

CloseReadEnd ==
  /\ step = "read_over"
  /\ step' = IF runFailed THEN "kill" ELSE "waiting"
  /\ pipe' = [pipe EXCEPT !.reader = FALSE]
  /\ UNCHANGED <<guards, group, late, verdict>>

Reap == child' = [child EXCEPT !.state = "reaped"]

\* The second loop: "EOF is not proof of exit".
WaitReaps ==
  /\ step = "waiting"
  /\ child.state = "exited"
  /\ Reap
  /\ step' = "kill"
  /\ UNCHANGED <<guards, desc, pipe, written, late, verdict>>

WaitGivesUp ==
  /\ step = "waiting" /\ late
  /\ runFailed' = TRUE /\ step' = "kill"
  /\ UNCHANGED <<guards, group, pipe, late, length, result>>

WaitError ==
  /\ step = "waiting"
  /\ runFailed' = TRUE /\ step' = "kill"
  /\ UNCHANGED <<guards, group, pipe, late, length, result>>

\* Faulty: only the immediate child is killed.
KillChildOnly ==
  /\ step = "kill"
  /\ child' = [child EXCEPT !.doomed = (child.state = "running")]
  /\ step' = IF child.state = "reaped" THEN "rearm" ELSE "reap"
  /\ UNCHANGED <<guards, desc, pipe, written, late, verdict>>

\* kill(-pid), also when the child was reaped, and kill(pid) when it was not.
Kill ==
  /\ step = "kill"
  /\ child' = [child EXCEPT !.doomed = (child.state = "running")]
  /\ desc' = IF desc.state = "live" THEN [desc EXCEPT !.state = "doomed"] ELSE desc
  /\ step' = IF child.state = "reaped" THEN "rearm" ELSE "reap"
  /\ UNCHANGED <<guards, pipe, written, late, verdict>>

\* Faulty: the wait after the kill does not wait.
ReapKilledAtOnce ==
  /\ step = "reap"
  /\ IF child.state = "exited" THEN Reap ELSE UNCHANGED child
  /\ step' = "rearm"
  /\ UNCHANGED <<guards, desc, pipe, written, late, verdict>>

\* The blocking waitpid after the kill.
ReapKilled ==
  /\ step = "reap"
  /\ child.state = "exited"
  /\ Reap
  /\ step' = "rearm"
  /\ UNCHANGED <<guards, desc, pipe, written, late, verdict>>

\* The guards are taken back, and the call returns.
Outcome == IF runFailed THEN "failed" ELSE IF child.code = 0 THEN "exit_0" ELSE "exit_other"

Rearm ==
  /\ step = "rearm"
  /\ \/ guards' \in Rearmed(guards) /\ UNCHANGED runFailed /\ CallReturns(Outcome)
     \/ guards' \in RearmFailed(guards) /\ runFailed' = TRUE /\ CallReturns("failed")
  /\ UNCHANGED <<group, pipe, late, length>>

\* What the runner does by itself, and the system calls that may fail it.
Runner ==
  \/ Spawn
  \/ ReadPiece \/ ReadEof \/ ReadGivesUp \/ CloseReadEnd
  \/ WaitReaps \/ WaitGivesUp
  \/ Kill \/ ReapKilled \/ Rearm
CallFails == SpawnFails \/ ReadError \/ WaitError
-----------------------------------------------------------------------------
(* The test process and its descendant. *)

Running == child.state = "running"
Surviving == desc.state \in {"live", "doomed"}

WriteByte(open) ==
  /\ open /\ pipe.reader
  /\ pipe.unread < PipeSize
  /\ pipe' = [pipe EXCEPT !.unread = @ + 1]
  /\ written' = written + 1

ChildWrites ==
  /\ Running /\ WriteByte(child.out)
  /\ written < Limit + 1               \* bound of the model
  /\ UNCHANGED <<step, guards, child, desc, late, verdict>>

DescWrites ==
  /\ Surviving /\ WriteByte(desc.out)
  /\ written < Limit + 1               \* bound of the model
  /\ UNCHANGED <<step, guards, child, desc, late, verdict>>

ChildClosesOutput ==
  /\ Running
  /\ child' = [child EXCEPT !.out = FALSE]
  /\ UNCHANGED <<step, guards, desc, pipe, written, late, verdict>>

DescClosesOutput ==
  /\ Surviving
  /\ desc' = [desc EXCEPT !.out = FALSE]
  /\ UNCHANGED <<step, guards, child, pipe, written, late, verdict>>

\* A process with a pending SIGKILL forks no more.
ChildForks ==
  /\ Running /\ ~child.doomed
  /\ desc.state = "none"
  /\ desc' = [state |-> "live", out |-> child.out]
  /\ UNCHANGED <<step, guards, child, pipe, written, late, verdict>>

\* It exits by itself, by a resource limit or by SIGPIPE.
ChildExits(code) ==
  /\ Running
  /\ code \in {0, 1, KilledCode}
  /\ child' = [child EXCEPT !.state = "exited", !.out = FALSE, !.code = code]
  /\ UNCHANGED <<step, guards, desc, pipe, written, late, verdict>>

DescExits ==
  /\ Surviving
  /\ desc' = NoDesc
  /\ UNCHANGED <<step, guards, child, pipe, written, late, verdict>>

ChildDies == child.doomed /\ ChildExits(KilledCode)
DescDies == desc.state = "doomed" /\ DescExits

\* The deadline passes while the runner polls.
TimePasses ==
  /\ step \in {"spawn", "reading", "read_over", "waiting"}
  /\ ~late
  /\ late' = TRUE
  /\ UNCHANGED <<step, guards, group, pipe, verdict>>

Process ==
  \/ ChildWrites \/ ChildClosesOutput \/ ChildForks
  \/ \E code \in {0, 1, KilledCode} : ChildExits(code)
  \/ DescWrites \/ DescClosesOutput \/ DescExits

TestNext ==
  \/ RunTests \/ Runner \/ CallFails
  \/ ProviderRequest \/ ProviderAnswer
  \/ Process
  \/ TimePasses

TestSpec == TestInit /\ [][TestNext]_testVars

\* The runner keeps running and its clock advances; a killed process dies.  No
\* system call owes it a failure, and the test process itself owes nothing: it
\* may loop or block for ever.
TestFairSpec ==
  /\ TestSpec
  /\ WF_testVars(Runner) /\ WF_testVars(TimePasses)
  /\ WF_testVars(ChildDies) /\ WF_testVars(DescDies)
  /\ WF_testVars(ProviderAnswer)
-----------------------------------------------------------------------------
\* Types; and the reply always has room for the exit line, which is never cut
\* (fx_example_tools.c:206, 229-231).
TestTypeOK ==
  /\ step \in {"guest", "request", "spawn", "reading", "read_over", "waiting", "kill",
             "reap", "rearm"}
  /\ guards \subseteq Guards
  /\ child \in [state : {"none", "running", "exited", "reaped"}, out : BOOLEAN,
                code : {0, 1, KilledCode}, doomed : BOOLEAN]
  /\ desc \in [state : {"none", "live", "doomed"}, out : BOOLEAN]
  /\ pipe \in [unread : 0 .. PipeSize, reader : BOOLEAN]
  /\ written \in 0 .. Limit + 1
  /\ length \in 0 .. Limit /\ (step # "spawn" => length + ExitLine < Limit)
  /\ runFailed \in BOOLEAN /\ late \in BOOLEAN
  /\ result \in {"none", "error", "failed", "exit_0", "exit_other"}

\* When run_tests returns it has reaped the process it started, and whatever
\* that process left running in its group has been killed.
NoSurvivors ==
  step \in {"guest", "request"} =>
    /\ child.state \in {"none", "reaped"}
    /\ desc.state # "live"

\* A guard is mapped again only after the test process is gone: its blocks are
\* what /bin/sh needs ("reacquire them only after the child has exited",
\* fx_example_tools.c:173-178).
LentWhileRunning == child.state \in {"running", "exited"} => guards = {}

\* exit_0 is the truth and the whole truth: the process ended by itself with
\* status 0, everything its group wrote was read, and the guards are back.
TruthfulSuccess ==
  [][(step = "rearm" /\ step' = "guest" /\ result' = "exit_0") =>
       child.code = 0 /\ length = written /\ guards' = Guards]_testVars

\* Every call returns, even when the test loops, blocks or keeps its output open.
EveryCallReturns == [](step \notin {"guest", "request"} => <>(step = "guest"))

\* "These blocks remain reserved throughout provider requests" (fx_wamr_native.c:
\* 250-251).  The code does not ensure it: when mmap fails in the rearm, the call
\* is reported as failed and the guest goes on to its next provider request.
ReservedDuringRequests == step = "request" => guards = Guards
=============================================================================
