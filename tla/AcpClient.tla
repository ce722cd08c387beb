------------------------------- MODULE AcpClient -------------------------------
(***************************************************************************)
(* fx-eink (runtime/fx_eink.c): the one-shot client that claims the         *)
(* reserved PSRAM, starts fx-wamr, sends it three requests over a pipe,     *)
(* gathers the text of the third answer, waits for fx-wamr, gives the PSRAM *)
(* back and runs the renderer.                                              *)
(*                                                                         *)
(* One client runs at a time (the console waits for it), one after another, *)
(* on the same two arenas.  The runner is a process of its own: it uses the *)
(* arenas, answers, says other things, and may exit at any moment.  A       *)
(* message is one line; text is counted in chunks.                          *)
(***************************************************************************)
EXTENDS Integers, Sequences

CONSTANTS
  MaxResponse,   \* chunks the response may hold (MAX_RESPONSE_BYTES)
  MaxMessages,   \* bound: messages of the runner that are not answers
  PipeSize,      \* lines the runner can write before it blocks
  MaxPolls       \* polls of the readiness marker (180)

ASSUME ClientAssumption ==
  MaxResponse \in Nat /\ MaxMessages \in Nat /\ PipeSize \in Nat \ {0} /\ MaxPolls \in Nat

VARIABLES
  pc,            \* where the client is; "idle" when none runs
  pid,           \* process.pid >= 0
  pipes,         \* the client's ends are open
  waited,        \* polls made
  turn,          \* the request being sent or awaited
  heard,         \* chunks in the response
  transcript,    \* the transcript file exists
  result,        \* the client's exit status, "killed" when a signal ended it
  held,          \* the arenas whose address the client has, and has published
  dirty,         \* the arenas that are not all zero
  runner,        \* [state, code, doomed]
  requests,      \* lines on the runner's standard input
  lines,         \* lines on its standard output
  serving,       \* the request the runner is serving, 0 for none
  sent,          \* messages it wrote that are not answers
  said,          \* chunks it wrote while serving the prompt
  usurped,       \* history: a line that was not the answer ended a turn
  renderer       \* the renderer runs

client == <<pid, pipes, waited, turn, heard, transcript, result, held, usurped>>
agent == <<runner, requests, lines, serving, sent, said>>
vars == <<pc, client, dirty, agent, renderer>>

Arenas == {"linear", "stream"}
Prompt == 3         \* 1 is initialize, 2 libfx/new, 3 session/prompt
ForeignId == 9      \* an id the client never waits for
AgentIds == (0 .. Prompt) \cup {ForeignId}     \* 0: the line has no id
NoRunner == [state |-> "none", code |-> 0, doomed |-> FALSE]

Init ==
  /\ pc = "idle"
  /\ pid = FALSE /\ pipes = FALSE /\ waited = 0 /\ turn = 0 /\ heard = 0
  /\ transcript = FALSE /\ result = "none"
  /\ held = {} /\ dirty = {}
  /\ runner = NoRunner /\ requests = <<>> /\ lines = <<>>
  /\ serving = 0 /\ sent = 0 /\ said = 0 /\ usurped = FALSE
  /\ renderer = FALSE

Alive == runner.state = "running"
Fail == pc' = "cleanup" /\ result' = "fail"
-----------------------------------------------------------------------------
(* The client, up to the start of the runner. *)

Start ==
  /\ pc = "idle"
  /\ pc' = "verify"
  /\ result' = "fail"
  /\ pid' = FALSE /\ pipes' = FALSE /\ waited' = 0 /\ turn' = 0 /\ heard' = 0
  /\ held' = {} /\ transcript' = FALSE
  /\ runner' = NoRunner /\ requests' = <<>> /\ lines' = <<>>
  /\ serving' = 0 /\ sent' = 0 /\ said' = 0 /\ usurped' = FALSE
  /\ UNCHANGED <<dirty, renderer>>

\* fx_verify_reserved_psram finds the reservation it expects, or the run ends.
Verify ==
  /\ pc = "verify"
  /\ pc' \in {"claim_linear", "cleanup"}
  /\ UNCHANGED <<client, dirty, agent, renderer>>

\* Faulty: one arena is taken as it was left.
ClaimUnwiped(arena, at, next) ==
  /\ pc = at
  /\ held' = held \cup {arena}
  /\ dirty' = IF arena = "linear" THEN dirty \ {arena} ELSE dirty
  /\ pc' \in {next, "cleanup"}
  /\ UNCHANGED <<pid, pipes, waited, usurped, turn, heard, transcript, result, agent, renderer>>

\* The address is taken, the arena wiped, the address published; setenv may fail.
Claim(arena, at, next) ==
  /\ pc = at
  /\ held' = held \cup {arena}
  /\ dirty' = dirty \ {arena}
  /\ pc' \in {next, "cleanup"}
  /\ UNCHANGED <<pid, pipes, waited, usurped, turn, heard, transcript, result, agent, renderer>>

\* --help succeeds; a bad option, a missing or long prompt or a bad marker path
\* fails; with a marker the client waits for it.
Options ==
  /\ pc = "options"
  /\ \/ pc' = "cleanup" /\ result' \in {"ok", "fail"}
     \/ pc' \in {"poll", "start"} /\ UNCHANGED result
  /\ UNCHANGED <<pid, pipes, waited, usurped, turn, heard, transcript, held, dirty, agent, renderer>>

\* readiness_marker_state: absent is 0, "ready\n" is 1, any other content (the
\* marker just created and still empty too) is -1.
MarkerState == {"absent", "ready", "other"}

Poll ==
  /\ pc = "poll"
  /\ \E marker \in MarkerState :
       IF marker = "absent" /\ waited < MaxPolls
       THEN waited' = waited + 1 /\ UNCHANGED pc
       ELSE pc' = (IF marker = "ready" THEN "start" ELSE "cleanup") /\ UNCHANGED waited
  /\ UNCHANGED <<pid, pipes, usurped, turn, heard, transcript, result, held, dirty, agent, renderer>>

\* start_fx.  A pipe or the vfork fails; or the child runs, or could not execute
\* the runner; fdopen may fail when the child is already there.
StartFx ==
  /\ pc = "start"
  /\ \/ pc' = "cleanup" /\ UNCHANGED <<pid, pipes, turn, runner>>
     \/ /\ runner' \in {[NoRunner EXCEPT !.state = "running"],
                        [NoRunner EXCEPT !.state = "exited", !.code = 1]}
        /\ pid' = TRUE /\ pipes' = TRUE /\ turn' = 1
        /\ pc' = "send"
     \/ /\ runner' \in {[state |-> "running", code |-> 0, doomed |-> TRUE],
                        [NoRunner EXCEPT !.state = "exited", !.code = 1]}
        /\ pc' = "abort"
        /\ UNCHANGED <<pid, pipes, turn>>
  /\ UNCHANGED <<waited, usurped, heard, transcript, result, held, dirty, requests, lines,
                 serving, sent, said, renderer>>

Reap == runner.state = "exited" /\ runner' = [runner EXCEPT !.state = "reaped"]

\* The waitpid in start_fx.
Abort ==
  /\ pc = "abort"
  /\ Reap
  /\ pc' = "cleanup"
  /\ UNCHANGED <<client, dirty, requests, lines, serving, sent, said, renderer>>
-----------------------------------------------------------------------------
(* The three turns. *)

\* send_initialize, send_new_session, send_prompt.
Send ==
  /\ pc = "send" /\ Alive
  /\ requests' = Append(requests, turn)
  /\ pc' = "read"
  /\ UNCHANGED <<client, dirty, runner, lines, serving, sent, said, renderer>>

\* Nobody reads the pipe: SIGPIPE ends the client where it stands.
SendToDead ==
  /\ pc = "send" /\ ~Alive
  /\ pc' = "idle" /\ result' = "killed"
  /\ UNCHANGED <<pid, pipes, waited, usurped, turn, heard, transcript, held, dirty, agent, renderer>>

\* Faulty: any id ends the turn.
HasAnyId(m) == m.kind # "bad" /\ m.id # 0

\* buffer_append has room for one more chunk.
Fits == heard < MaxResponse
\* The line ends the turn: read_until_id compares the first "id" in it with the one
\* it waits for, and does not ask whether the line is an answer.
IsAnswer(m) == m.kind # "bad" /\ m.id = turn
\* It is not, but has the id.
Usurps(m) == m.kind \in {"chunk", "request"} /\ m.id = turn

\* read_until_id takes one line.
ReadLine ==
  /\ pc = "read" /\ lines # <<>>
  /\ lines' = Tail(lines)
  /\ LET m == Head(lines)
         gathers == m.kind = "chunk" /\ turn = Prompt
     IN  \/ /\ m.kind = "bad" \/ (gathers /\ ~Fits) \/ (IsAnswer(m) /\ m.kind = "error")
            /\ Fail /\ UNCHANGED <<heard, turn, usurped>>
         \/ /\ m.kind \notin {"bad", "error"} /\ IsAnswer(m) /\ (gathers => Fits)
            /\ heard' = IF gathers THEN heard + 1 ELSE heard
            /\ usurped' = (usurped \/ Usurps(m))
            /\ IF turn = Prompt THEN pc' = "finish" /\ UNCHANGED turn
                                ELSE pc' = "send" /\ turn' = turn + 1
            /\ UNCHANGED result
         \/ /\ turn = 2 /\ IsAnswer(m) /\ m.kind # "error"      \* no sessionId in it
            /\ Fail /\ UNCHANGED <<heard, turn, usurped>>
         \/ /\ m.kind # "bad" /\ ~IsAnswer(m) /\ (gathers => Fits)
            /\ heard' = IF gathers THEN heard + 1 ELSE heard
            /\ UNCHANGED <<pc, turn, result, usurped>>
  /\ UNCHANGED <<pid, pipes, waited, transcript, held, dirty, runner, requests, serving,
                 sent, said, renderer>>

\* The stream ended before the answer.
ReadEof ==
  /\ pc = "read" /\ lines = <<>> /\ ~Alive
  /\ pc' = "cleanup"
  /\ UNCHANGED <<client, dirty, agent, renderer>>
-----------------------------------------------------------------------------
(* The end of the runner, the renderer, cleanup. *)

\* Faulty: the client waits for the runner before it closes its input.
FinishKeepsInput ==
  /\ pc = "finish"
  /\ pc' = "wait"
  /\ UNCHANGED <<client, dirty, agent, renderer>>

\* finish_fx closes both pipes ...
FinishFx ==
  /\ pc = "finish"
  /\ pipes' = FALSE
  /\ pc' = "wait"
  /\ UNCHANGED <<pid, waited, usurped, turn, heard, transcript, result, held, dirty, agent, renderer>>

\* ... and waits for the runner, whose status must be 0.
Wait ==
  /\ pc = "wait"
  /\ Reap
  /\ pid' = FALSE
  /\ pc' = IF runner.code = 0 THEN "release" ELSE "cleanup"
  /\ UNCHANGED <<pipes, waited, usurped, turn, heard, transcript, result, held, dirty, requests,
                 lines, serving, sent, said, renderer>>

\* Faulty: the stream arena goes back as it is.
ReleaseUnwiped ==
  /\ pc = "release"
  /\ held' = {} /\ dirty' = dirty \ {"linear"}
  /\ pc' = IF heard > 0 THEN "transcript" ELSE "cleanup"
  /\ UNCHANGED <<pid, pipes, waited, usurped, turn, heard, transcript, result, agent, renderer>>

\* Both arenas are wiped and given back; a response without text fails the run.
Release ==
  /\ pc = "release"
  /\ held' = {} /\ dirty' = {}
  /\ pc' = IF heard > 0 THEN "transcript" ELSE "cleanup"
  /\ UNCHANGED <<pid, pipes, waited, usurped, turn, heard, transcript, result, agent, renderer>>

\* mkstemp, then write_transcript, then the vfork of run_renderer: each may fail.
WriteTranscript ==
  /\ pc = "transcript"
  /\ \/ pc' = "cleanup" /\ UNCHANGED <<transcript, renderer>>
     \/ pc' = "cleanup" /\ transcript' = TRUE /\ UNCHANGED renderer
     \/ pc' = "render" /\ transcript' = TRUE /\ renderer' = TRUE
  /\ UNCHANGED <<pid, pipes, waited, usurped, turn, heard, result, held, dirty, agent>>

\* The renderer exits and is waited for; its status decides the client's.
RunRenderer ==
  /\ pc = "render"
  /\ renderer' = FALSE
  /\ result' \in {"ok", "fail"}
  /\ pc' = "cleanup"
  /\ UNCHANGED <<pid, pipes, waited, usurped, turn, heard, transcript, held, dirty, agent>>

\* Faulty: the runner is told to stop but not waited for.
CleanupNoWait ==
  /\ pc = "cleanup"
  /\ pc' = "return"
  /\ pipes' = FALSE
  /\ runner' = IF pid /\ Alive THEN [runner EXCEPT !.doomed = TRUE] ELSE runner
  /\ UNCHANGED <<pid, waited, usurped, turn, heard, transcript, result, held, dirty, requests,
                 lines, serving, sent, said, renderer>>

\* cleanup: a runner that was not waited for is told to stop.
Cleanup ==
  /\ pc = "cleanup"
  /\ pc' = IF pid THEN "reap" ELSE "return"
  /\ pipes' = FALSE
  /\ runner' = IF pid /\ Alive THEN [runner EXCEPT !.doomed = TRUE] ELSE runner
  /\ UNCHANGED <<pid, waited, usurped, turn, heard, transcript, result, held, dirty, requests,
                 lines, serving, sent, said, renderer>>

CleanupReaps ==
  /\ pc = "reap"
  /\ Reap
  /\ pc' = "return"
  /\ UNCHANGED <<client, dirty, requests, lines, serving, sent, said, renderer>>

\* The arenas the client still has are wiped, the transcript is removed.
Return ==
  /\ pc = "return"
  /\ dirty' = dirty \ held
  /\ held' = {}
  /\ transcript' = FALSE
  /\ pc' = "idle"
  /\ UNCHANGED <<pid, pipes, waited, usurped, turn, heard, result, agent, renderer>>
-----------------------------------------------------------------------------
(* The runner (fx-wamr and its guest) and the console. *)

RunnerOnly == UNCHANGED <<pc, client, renderer>>

\* It uses the two arenas from its start to its end.
UseArena ==
  /\ Alive
  /\ \E a \in Arenas : dirty' = dirty \cup {a}
  /\ UNCHANGED agent /\ RunnerOnly

TakeRequest ==
  /\ Alive /\ serving = 0 /\ requests # <<>>
  /\ serving' = Head(requests) /\ requests' = Tail(requests)
  /\ UNCHANGED <<dirty, runner, lines, sent, said>> /\ RunnerOnly

\* A line is written while the client reads; when nobody does, SIGPIPE.
WriteLine(m) ==
  IF pipes
  THEN Len(lines) < PipeSize /\ lines' = Append(lines, m) /\ UNCHANGED runner
  ELSE /\ runner' = [runner EXCEPT !.state = "exited", !.code = 1]
       /\ UNCHANGED lines

\* A chunk of text, a request or a notification of its own, or a line the client
\* cannot take: too long, malformed, no memory for it.  The agent numbers its
\* requests itself, and an update may hold an "id" inside: any id can occur.
Say ==
  /\ Alive /\ serving # 0
  /\ sent < MaxMessages                \* bound of the model
  /\ sent' = sent + 1
  /\ \E kind \in {"chunk", "request", "bad"}, id \in AgentIds :
       /\ WriteLine([kind |-> kind, id |-> id])
       /\ said' = IF kind = "chunk" /\ serving = Prompt THEN said + 1 ELSE said
  /\ UNCHANGED <<dirty, requests, serving>> /\ RunnerOnly

Answer ==
  /\ Alive /\ serving # 0
  /\ \E kind \in {"answer", "error"} : WriteLine([kind |-> kind, id |-> serving])
  /\ serving' = 0
  /\ UNCHANGED <<dirty, requests, sent, said>> /\ RunnerOnly

Exit(code) ==
  /\ Alive
  /\ runner' = [runner EXCEPT !.state = "exited", !.code = code]
  /\ UNCHANGED <<dirty, requests, lines, serving, sent, said>> /\ RunnerOnly

\* Its input has ended and there is nothing left to do.
ExitAtEof ==
  /\ ~pipes /\ requests = <<>> /\ serving = 0
  /\ \E code \in {0, 1} : Exit(code)

\* The SIGTERM of the client.
ExitDoomed == runner.doomed /\ Exit(1)

\* Ctrl-C, or a hangup: the client, the runner and the renderer are one
\* foreground group and none of them handles it.
Interrupt ==
  /\ pc # "idle"
  /\ pc' = "idle" /\ result' = "killed"
  /\ runner' = IF Alive THEN [runner EXCEPT !.state = "exited", !.code = 1] ELSE runner
  /\ renderer' = FALSE
  /\ UNCHANGED <<pid, pipes, waited, usurped, turn, heard, transcript, held, dirty, requests,
                 lines, serving, sent, said>>

\* execute --module starts fx-wamr on the same arenas without this client.
ModuleRun ==
  /\ pc = "idle"
  /\ dirty' = Arenas
  /\ UNCHANGED <<pc, client, agent, renderer>>
-----------------------------------------------------------------------------
Client ==
  \/ Verify \/ Claim("linear", "claim_linear", "claim_stream")
  \/ Claim("stream", "claim_stream", "options")
  \/ Options \/ Poll \/ StartFx \/ Abort
  \/ Send \/ SendToDead \/ ReadLine \/ ReadEof
  \/ FinishFx \/ Wait \/ Release \/ WriteTranscript \/ RunRenderer
  \/ Cleanup \/ CleanupReaps \/ Return

Serves == TakeRequest \/ Answer

Next ==
  \/ Start \/ Client
  \/ UseArena \/ Serves \/ Say \/ \E code \in {0, 1} : Exit(code)
  \/ Interrupt \/ ModuleRun

Spec == Init /\ [][Next]_vars

\* The client runs, the renderer included (einkctl bounds its waits for the
\* panel); the runner serves what it was asked, ends with its input, and dies of
\* a SIGTERM, which it does not handle.  It owes no text and no success.
FairSpec ==
  /\ Spec
  /\ WF_vars(Client) /\ WF_vars(Serves) /\ WF_vars(ExitAtEof) /\ WF_vars(ExitDoomed)
-----------------------------------------------------------------------------
Process == [state : {"none", "running", "exited", "reaped"}, code : {0, 1}, doomed : BOOLEAN]
Message == [kind : {"chunk", "request", "bad", "answer", "error"}, id : AgentIds]

TypeOK ==
  /\ pc \in {"idle", "verify", "claim_linear", "claim_stream", "options", "poll", "start",
             "abort", "send", "read", "finish", "wait", "release", "transcript", "render",
             "cleanup", "reap", "return"}
  /\ pid \in BOOLEAN /\ pipes \in BOOLEAN /\ transcript \in BOOLEAN
  /\ renderer \in BOOLEAN /\ usurped \in BOOLEAN
  /\ waited \in 0 .. MaxPolls /\ turn \in 0 .. Prompt /\ heard \in 0 .. MaxResponse
  /\ result \in {"none", "ok", "fail", "killed"}
  /\ held \subseteq Arenas /\ dirty \subseteq Arenas
  /\ runner \in Process
  /\ requests \in Seq(0 .. Prompt)
  /\ lines \in Seq(Message) /\ Len(lines) <= PipeSize
  /\ serving \in 0 .. Prompt
  /\ sent \in 0 .. MaxMessages /\ said \in 0 .. sent

\* No arena is wiped under a running guest: on every path, the error paths of
\* start_fx and main too, the wipe comes after the waitpid (fx_eink.c:370-372,
\* 813-829, 874-886).
ArenaExclusive == [][dirty' \ dirty = {} /\ dirty' # dirty => ~Alive]_vars

\* Whatever happened to the runs before (a Ctrl-C, a SIGPIPE, a module run), a
\* guest starts on arenas that are all zero (fx_eink.c:667-708).
GuestStartsClean == [][(~Alive /\ runner'.state = "running") => dirty' = {}]_vars

\* A client that returns leaves no process and no transcript, and the arenas its
\* runner used are wiped, by Release or by cleanup (fx_eink.c:864-895).
CleanReturn ==
  [][(pc = "return" /\ pc' = "idle" /\ result' # "killed") =>
       /\ ~transcript' /\ ~renderer'
       /\ runner'.state \in {"none", "reaped"}
       /\ (runner'.state = "reaped" => dirty' = {})]_vars

\* "invokes the renderer after WAMR exits" (docs/architecture.md:21): the runner was
\* reaped with status 0 and the arenas are back and wiped.  As long as no line of
\* the agent took the place of an answer, the text is whole: every chunk the prompt
\* produced, none cut and none of another turn (fx_eink.c:452-520, 811-863).
WholeUnlessUsurped ==
  renderer =>
    /\ runner.state = "reaped" /\ runner.code = 0
    /\ held = {} /\ dirty = {} /\ heard > 0
    /\ (~usurped => heard = said)

\* "puts the answer on the display" (README.md:55): what the renderer shows
\* lacks no chunk of the answer to the prompt.  It may: a request of the agent with
\* the id of the prompt ends the turn (fx_eink.c:504).
RendersWholeAnswer == renderer => said <= heard

\* Every run of the client ends, whether the runner answers, says more than the
\* response can hold, fails, or exits in the middle.
EveryRunEnds == [](pc # "idle" => <>(pc = "idle"))
=============================================================================
