---------------------------- MODULE AcpClientProofs ----------------------------
(***************************************************************************)
(* What holds of the client for every size of the response, the pipe and    *)
(* the poll bound: who may touch the arenas when, what a returning client   *)
(* leaves behind, and that the renderer gets the whole answer as long as    *)
(* nothing the agent says takes the place of an answer.                      *)
(***************************************************************************)
EXTENDS AcpClient, FiniteSetTheorems, FunctionTheorems, TLAPS

\* The points between a start of the runner and the wait for it.
WithRunner == {"send", "read", "finish", "wait", "abort", "cleanup", "reap"}
\* The points where the error paths meet.
Ending == {"cleanup", "reap", "return"}

\* A running runner belongs to a client that holds both arenas and will wait.
RunnerOwned ==
  Alive => /\ pc \in WithRunner
           /\ pid \/ pc = "abort"
           /\ held = Arenas

\* Nobody has used an arena between its wipe and the start of the runner.
WipedBeforeStart ==
  /\ pc = "claim_stream" => "linear" \notin dirty /\ "linear" \in held
  /\ pc \in {"options", "poll", "start"} => dirty = {} /\ held = Arenas
  /\ pc \in {"verify", "claim_linear", "claim_stream", "options", "poll", "start"} =>
       runner.state = "none" /\ ~pid

\* From the start of the runner to the release both arenas are held; after it
\* both are wiped.
HeldOrWiped ==
  /\ pc \in {"send", "read", "finish", "wait", "abort", "release"} => held = Arenas
  /\ pc \in {"transcript", "render"} => dirty = {}
  /\ pc \in Ending => held = Arenas \/ dirty = {} \/ runner.state = "none"

\* A runner that was started is waited for before the end.
WaitedFor ==
  /\ pc \in {"release", "transcript", "render"} => ~pid /\ runner.state = "reaped"
  /\ pc \in {"send", "read", "finish", "wait", "reap"} => pid
  /\ pc \in {"cleanup", "return"} => pid \/ runner.state \in {"none", "reaped"}
  /\ pc = "return" => runner.state \in {"none", "reaped"}
  /\ renderer => pc = "render"
  /\ pid /\ pc = "abort" => FALSE

IInv == TypeOK /\ RunnerOwned /\ WipedBeforeStart /\ HeldOrWiped /\ WaitedFor
-----------------------------------------------------------------------------
\* What the actions store in the process record and in turn has its type.
LEMMA Typed ==
  /\ 0 \in 0 .. Prompt /\ 1 \in 0 .. Prompt /\ 2 \in 0 .. Prompt
  /\ \A t \in 0 .. Prompt : t # Prompt => t + 1 \in 0 .. Prompt
  /\ NoRunner \in Process
  /\ \A r \in Process : /\ [r EXCEPT !.state = "running"] \in Process
                         /\ [r EXCEPT !.state = "reaped"] \in Process
                         /\ [r EXCEPT !.doomed = TRUE] \in Process
  /\ \A r \in Process, code \in {0, 1} : [r EXCEPT !.state = "exited", !.code = code] \in Process
  /\ [state |-> "running", code |-> 0, doomed |-> TRUE] \in Process
<1>1. /\ 0 \in 0 .. Prompt /\ 1 \in 0 .. Prompt /\ 2 \in 0 .. Prompt
      /\ \A t \in 0 .. Prompt : t # Prompt => t + 1 \in 0 .. Prompt
  BY DEF Prompt
<1>2. NoRunner \in Process
  BY DEF NoRunner, Process
<1>3. ASSUME NEW r \in Process
      PROVE  /\ [r EXCEPT !.state = "running"] \in Process
             /\ [r EXCEPT !.state = "reaped"] \in Process
             /\ [r EXCEPT !.doomed = TRUE] \in Process
  BY DEF Process
<1>4. ASSUME NEW r \in Process, NEW code \in {0, 1}
      PROVE  [r EXCEPT !.state = "exited", !.code = code] \in Process
  BY DEF Process
<1>5. [state |-> "running", code |-> 0, doomed |-> TRUE] \in Process
  BY DEF Process
<1>6. QED
  BY <1>1, <1>2, <1>3, <1>4, <1>5

\* So do the two pipes: a line appended to one, or taken from it.
LEMMA PipesTyped ==
  ASSUME NEW S
  PROVE  /\ <<>> \in Seq(S) /\ Len(<<>>) = 0
         /\ \A q \in Seq(S), x \in S : Append(q, x) \in Seq(S) /\ Len(Append(q, x)) = Len(q) + 1
         /\ \A q \in Seq(S) : Len(q) \in Nat
         /\ \A q \in Seq(S) : q # <<>> =>
              Head(q) \in S /\ Tail(q) \in Seq(S) /\ Len(Tail(q)) = Len(q) - 1
OBVIOUS

\* A line the runner writes fits the pipe; one written to nobody ends it.
LEMMA WriteLineTyped ==
  ASSUME TypeOK, NEW m \in Message, WriteLine(m)
  PROVE  lines' \in Seq(Message) /\ Len(lines') <= PipeSize /\ runner' \in Process
<1>1. CASE pipes
  <2>1. lines \in Seq(Message) /\ lines' = Append(lines, m) /\ Len(lines) < PipeSize
    BY <1>1 DEF TypeOK, WriteLine
  <2>2. Len(lines) \in Nat /\ lines' \in Seq(Message) /\ Len(lines') = Len(lines) + 1
    BY <2>1, PipesTyped
  <2>3. QED
    BY <1>1, <2>1, <2>2, ClientAssumption DEF TypeOK, WriteLine, ClientAssumption
<1>2. CASE ~pipes
  BY <1>2, Typed DEF TypeOK, WriteLine
<1>3. QED
  BY <1>1, <1>2

\* Nothing runs and nothing is held at first.
LEMMA InitIInv == Init => IInv
<1> SUFFICES ASSUME Init PROVE IInv
  OBVIOUS
<1> USE DEF Init
<1>1. lines \in Seq(Message) /\ requests \in Seq(0 .. Prompt) /\ Len(lines) = 0
  BY PipesTyped
<1>2. /\ waited \in 0 .. MaxPolls /\ heard \in 0 .. MaxResponse
      /\ sent \in 0 .. MaxMessages /\ said \in 0 .. sent /\ Len(lines) <= PipeSize
  BY <1>1, ClientAssumption DEF ClientAssumption
<1>3. TypeOK
  BY <1>1, <1>2, Typed DEF TypeOK
<1>4. RunnerOwned /\ WipedBeforeStart /\ HeldOrWiped /\ WaitedFor
  BY DEF RunnerOwned, WipedBeforeStart, HeldOrWiped, WaitedFor, NoRunner, Alive, Ending
<1>5. QED
  BY <1>3, <1>4 DEF IInv

\* Every step keeps every variable in its type: one case per action of Next.
LEMMA TypeStep == TypeOK /\ [Next]_vars => TypeOK'
<1> SUFFICES ASSUME TypeOK, [Next]_vars PROVE TypeOK'
  OBVIOUS
<1> USE ClientAssumption
    DEF TypeOK, ClientAssumption, Alive, Arenas, client, agent
<1>1. CASE Start
  <2>1. lines' \in Seq(Message) /\ requests' \in Seq(0 .. Prompt) /\ Len(lines') = 0
    BY <1>1, PipesTyped DEF Start
  <2>2. /\ waited' \in 0 .. MaxPolls /\ heard' \in 0 .. MaxResponse
        /\ sent' \in 0 .. MaxMessages /\ said' \in 0 .. sent' /\ Len(lines') <= PipeSize
    BY <1>1, <2>1 DEF Start
  <2>3. QED
    BY <1>1, <2>1, <2>2, Typed DEF Start
<1>2. CASE Verify
  BY <1>2 DEF Verify
<1>3. CASE Claim("linear", "claim_linear", "claim_stream")
  BY <1>3 DEF Claim
<1>4. CASE Claim("stream", "claim_stream", "options")
  BY <1>4 DEF Claim
<1>5. CASE Options
  BY <1>5 DEF Options
<1>6. CASE Poll
  BY <1>6 DEF Poll, MarkerState
<1>7. CASE StartFx
  BY <1>7, Typed DEF StartFx
<1>8. CASE Abort
  BY <1>8, Typed DEF Abort, Reap
<1>9. CASE Send
  <2>1. requests' \in Seq(0 .. Prompt)
    BY <1>9, PipesTyped DEF Send
  <2>2. QED
    BY <1>9, <2>1 DEF Send
<1>10. CASE SendToDead
  BY <1>10 DEF SendToDead
<1>11. CASE ReadLine
  <2>1. lines' \in Seq(Message) /\ Len(lines') <= PipeSize
    BY <1>11, PipesTyped DEF ReadLine
  <2>2. heard' \in 0 .. MaxResponse
    BY <1>11 DEF ReadLine, Fail, Fits
  <2>a. usurped' \in BOOLEAN
    BY <1>11, Zenon DEF ReadLine
  <2>3. turn' \in 0 .. Prompt
    BY <1>11, Typed DEF ReadLine, Fail
  <2>4. pc' \in {"read", "cleanup", "finish", "send"} /\ result' \in {result, "fail"}
    BY <1>11 DEF ReadLine, Fail
  <2>5. QED
    BY <1>11, <2>1, <2>2, <2>a, <2>3, <2>4 DEF ReadLine
<1>12. CASE ReadEof
  BY <1>12 DEF ReadEof
<1>13. CASE FinishFx
  BY <1>13 DEF FinishFx
<1>14. CASE Wait
  BY <1>14, Typed DEF Wait, Reap
<1>15. CASE Release
  BY <1>15 DEF Release
<1>16. CASE WriteTranscript
  <2>1. transcript' \in BOOLEAN /\ renderer' \in BOOLEAN
    BY <1>16, Zenon DEF WriteTranscript
  <2>2. QED
    BY <1>16, <2>1 DEF WriteTranscript
<1>17. CASE RunRenderer
  BY <1>17 DEF RunRenderer
<1>18. CASE Cleanup
  BY <1>18, Typed DEF Cleanup
<1>19. CASE CleanupReaps
  BY <1>19, Typed DEF CleanupReaps, Reap
<1>20. CASE Return
  BY <1>20 DEF Return
<1>21. CASE UseArena
  BY <1>21 DEF UseArena, RunnerOnly
<1>22. CASE TakeRequest
  <2>1. serving' \in 0 .. Prompt /\ requests' \in Seq(0 .. Prompt)
    BY <1>22, PipesTyped, Typed DEF TakeRequest
  <2>2. QED
    BY <1>22, <2>1 DEF TakeRequest, RunnerOnly
<1>23. CASE Answer
  <2>1. PICK kind \in {"answer", "error"} : WriteLine([kind |-> kind, id |-> serving])
    BY <1>23 DEF Answer
  <2>2. [kind |-> kind, id |-> serving] \in Message
    BY <1>23 DEF Message, AgentIds
  <2>3. lines' \in Seq(Message) /\ Len(lines') <= PipeSize /\ runner' \in Process
    BY <2>1, <2>2, WriteLineTyped
  <2>4. QED
    BY <1>23, <2>3, Typed DEF Answer, RunnerOnly
<1>24. CASE Say
  <2>1. PICK kind \in {"chunk", "request", "bad"}, id \in AgentIds :
          /\ WriteLine([kind |-> kind, id |-> id])
          /\ said' = IF kind = "chunk" /\ serving = Prompt THEN said + 1 ELSE said
    BY <1>24 DEF Say
  <2>2. [kind |-> kind, id |-> id] \in Message
    BY DEF Message
  <2>3. lines' \in Seq(Message) /\ Len(lines') <= PipeSize /\ runner' \in Process
    BY <2>1, <2>2, WriteLineTyped
  <2>4. sent' \in 0 .. MaxMessages /\ said' \in 0 .. sent'
    BY <1>24, <2>1 DEF Say
  <2>5. QED
    BY <1>24, <2>3, <2>4 DEF Say, RunnerOnly
<1>25. CASE \E code \in {0, 1} : Exit(code)
  <2>1. runner' \in Process
    <3>1. PICK code \in {0, 1} : Exit(code)
      BY <1>25
    <3>2. QED
      BY <3>1, Typed DEF Exit
  <2>2. QED
    BY <1>25, <2>1 DEF Exit, RunnerOnly
<1>26. CASE Interrupt
  BY <1>26, Typed DEF Interrupt
<1>27. CASE ModuleRun
  BY <1>27 DEF ModuleRun
<1>28. CASE UNCHANGED vars
  BY <1>28 DEF vars
<1>29. QED
  BY <1>1, <1>2, <1>3, <1>4, <1>5, <1>6, <1>7, <1>8, <1>9, <1>10, <1>11, <1>12, <1>13, <1>14,
    <1>15, <1>16, <1>17, <1>18, <1>19, <1>20, <1>21, <1>22, <1>23, <1>24, <1>25, <1>26, <1>27,
    <1>28 DEF Next, Client, Serves

\* Both arenas are held once the second is taken, and both are wiped.
LEMMA ClaimedBoth ==
  ASSUME held \subseteq Arenas, dirty \subseteq Arenas, "linear" \in held, "linear" \notin dirty
  PROVE  held \cup {"stream"} = Arenas /\ dirty \ {"stream"} = {}
<1>1. \A a : a \in held \cup {"stream"} <=> a \in Arenas
  BY DEF Arenas
<1>2. \A a : a \notin dirty \ {"stream"}
  BY DEF Arenas
<1>3. QED
  BY <1>1, <1>2

\* Every step keeps who runs, who waits, and what is held and wiped.
LEMMA StepIInv == IInv /\ [Next]_vars => IInv'
<1> SUFFICES ASSUME IInv, [Next]_vars
             PROVE  RunnerOwned' /\ WipedBeforeStart' /\ HeldOrWiped' /\ WaitedFor'
  BY TypeStep DEF IInv
<1> USE DEF IInv, TypeOK, RunnerOwned, WipedBeforeStart, HeldOrWiped, WaitedFor, WithRunner, Ending,
            Alive, Arenas, Process, client, agent
<1>1. CASE Start
  BY <1>1 DEF Start, NoRunner
<1>2. CASE Verify
  BY <1>2 DEF Verify
<1>3. CASE Claim("linear", "claim_linear", "claim_stream")
  BY <1>3 DEF Claim
<1>4. CASE Claim("stream", "claim_stream", "options")
  <2>1. "linear" \in held /\ "linear" \notin dirty /\ held \subseteq Arenas /\ dirty \subseteq Arenas
    BY <1>4 DEF Claim
  <2>2. held' = held \cup {"stream"} /\ dirty' = dirty \ {"stream"}
    BY <1>4 DEF Claim
  <2>3. held' = Arenas /\ dirty' = {}
    BY <2>1, <2>2, ClaimedBoth
  <2>4. QED
    BY <1>4, <2>3 DEF Claim
<1>5. CASE Options
  BY <1>5 DEF Options
<1>6. CASE Poll
  BY <1>6 DEF Poll, MarkerState
<1>7. CASE StartFx
  BY <1>7 DEF StartFx, NoRunner
<1>8. CASE Abort
  BY <1>8 DEF Abort, Reap
<1>9. CASE Send
  BY <1>9 DEF Send
<1>10. CASE SendToDead
  BY <1>10 DEF SendToDead
<1>11. CASE ReadLine
  BY <1>11 DEF ReadLine, Fail, Fits, IsAnswer
<1>12. CASE ReadEof
  BY <1>12 DEF ReadEof
<1>13. CASE FinishFx
  BY <1>13 DEF FinishFx
<1>14. CASE Wait
  BY <1>14 DEF Wait, Reap
<1>15. CASE Release
  BY <1>15 DEF Release
<1>16. CASE WriteTranscript
  BY <1>16 DEF WriteTranscript
<1>17. CASE RunRenderer
  BY <1>17 DEF RunRenderer
<1>18. CASE Cleanup
  BY <1>18 DEF Cleanup
<1>19. CASE CleanupReaps
  BY <1>19 DEF CleanupReaps, Reap
<1>20. CASE Return
  BY <1>20 DEF Return
<1>21. CASE UseArena
  BY <1>21 DEF UseArena, RunnerOnly
<1>22. CASE TakeRequest
  BY <1>22 DEF TakeRequest, RunnerOnly
<1>23. CASE Answer
  BY <1>23 DEF Answer, WriteLine, RunnerOnly
<1>24. CASE Say
  BY <1>24 DEF Say, WriteLine, RunnerOnly
<1>25. CASE \E code \in {0, 1} : Exit(code)
  BY <1>25 DEF Exit, RunnerOnly
<1>26. CASE Interrupt
  BY <1>26 DEF Interrupt
<1>27. CASE ModuleRun
  BY <1>27 DEF ModuleRun
<1>28. CASE UNCHANGED vars
  BY <1>28 DEF vars
<1>29. QED
  BY <1>1, <1>2, <1>3, <1>4, <1>5, <1>6, <1>7, <1>8, <1>9, <1>10, <1>11, <1>12, <1>13, <1>14,
    <1>15, <1>16, <1>17, <1>18, <1>19, <1>20, <1>21, <1>22, <1>23, <1>24, <1>25, <1>26, <1>27,
    <1>28 DEF Next, Client, Serves

\* The inductive invariant holds in every reachable state.
THEOREM InvariantHolds == Spec => []IInv
BY InitIInv, StepIInv, PTL DEF Spec

\* Every variable keeps its type.
THEOREM TypeCorrect == Spec => []TypeOK
<1>1. IInv => TypeOK
  BY DEF IInv
<1>2. QED
  BY <1>1, InvariantHolds, PTL

\* No arena is wiped while a guest runs, on any path of any run of the client
\* (fx_eink.c:671, 707, 818-829, 874-886).  Nobody but the client wipes an arena.
THEOREM NeverWipedUnderGuest == Spec => ArenaExclusive
<1>1. IInv /\ [Next]_vars => (dirty' \ dirty = {} /\ dirty' # dirty => ~Alive)
  <2> SUFFICES ASSUME IInv, [Next]_vars, dirty' \ dirty = {}, dirty' # dirty PROVE ~Alive
    OBVIOUS
  <2>nobody. CASE UNCHANGED vars \/ UseArena \/ Serves \/ Say
                  \/ (\E code \in {0, 1} : Exit(code)) \/ Interrupt \/ ModuleRun
    <3>1. dirty \subseteq dirty'
      BY <2>nobody DEF IInv, TypeOK, UseArena, Serves, TakeRequest, Answer, Say, Exit, Interrupt,
        ModuleRun, client, agent, vars
    <3>2. QED
      BY <3>1
  <2>client. CASE Start \/ Client
    BY <2>client DEF IInv, RunnerOwned, WithRunner, client, agent, Start, Client, Verify, Claim,
      Options, Poll, StartFx, Abort, Send, SendToDead, ReadLine, ReadEof, FinishFx, Wait, Release,
      WriteTranscript, RunRenderer, Cleanup, CleanupReaps, Return
  <2>every. QED
    BY <2>client, <2>nobody DEF Next
<1>2. QED
  BY <1>1, InvariantHolds, PTL DEF Spec, ArenaExclusive

\* Every guest finds its arenas all zero, whatever the runs before it did
\* (fx_eink.c:667-741, 798).
THEOREM GuestsStartOnZero == Spec => GuestStartsClean
<1>1. IInv /\ [Next]_vars => (~Alive /\ runner'.state = "running" => dirty' = {})
  <2> SUFFICES ASSUME IInv, [Next]_vars, ~Alive, runner'.state = "running" PROVE dirty' = {}
    OBVIOUS
  <2> USE DEF IInv, TypeOK, WipedBeforeStart, Alive, client, agent, Process
  <2>1. CASE StartFx
    BY <2>1 DEF StartFx
  <2>2. CASE Start \/ Abort \/ Wait \/ Cleanup \/ CleanupReaps
    BY <2>2 DEF Start, Abort, Wait, Cleanup, CleanupReaps, Reap, NoRunner
  <2>3. CASE \/ Verify \/ Claim("linear", "claim_linear", "claim_stream")
             \/ Claim("stream", "claim_stream", "options") \/ Options \/ Poll
             \/ Send \/ SendToDead \/ ReadLine \/ ReadEof \/ FinishFx \/ Release
             \/ WriteTranscript \/ RunRenderer \/ Return
    BY <2>3 DEF Verify, Claim, Options, Poll, Send, SendToDead, ReadLine, ReadEof, FinishFx,
      Release, WriteTranscript, RunRenderer, Return
  <2>4. CASE \/ UseArena \/ Serves \/ Say \/ (\E code \in {0, 1} : Exit(code)) \/ Interrupt
             \/ ModuleRun \/ UNCHANGED vars
    BY <2>4 DEF UseArena, Serves, TakeRequest, Answer, Say, Exit, Interrupt, ModuleRun, vars
  <2>5. QED
    BY <2>1, <2>2, <2>3, <2>4 DEF Next, Client
<1>2. QED
  BY <1>1, InvariantHolds, PTL DEF Spec, GuestStartsClean

\* A client that returns has waited for its runner and its renderer, removed the
\* transcript and wiped every arena the runner used (fx_eink.c:864-895).
THEOREM ReturnsClean == Spec => CleanReturn
<1>1. IInv /\ [Next]_vars =>
        ((pc = "return" /\ pc' = "idle" /\ result' # "killed") =>
           /\ ~transcript' /\ ~renderer'
           /\ runner'.state \in {"none", "reaped"}
           /\ (runner'.state = "reaped" => dirty' = {}))
  <2> SUFFICES ASSUME IInv, [Next]_vars, pc = "return", pc' = "idle", result' # "killed"
               PROVE  /\ ~transcript' /\ ~renderer'
                      /\ runner'.state \in {"none", "reaped"}
                      /\ (runner'.state = "reaped" => dirty' = {})
    OBVIOUS
  <2>1. Return
    BY DEF Next, Start, Client, Verify, Claim, Options, Poll, StartFx, Abort, Send, SendToDead,
      ReadLine, ReadEof, FinishFx, Wait, Release, WriteTranscript, RunRenderer, Cleanup,
      CleanupReaps, UseArena, Serves, TakeRequest, Answer, Say, Exit, Interrupt, ModuleRun,
      RunnerOnly, vars
  <2>2. runner' = runner /\ dirty' = dirty \ held /\ ~transcript' /\ renderer' = renderer
    BY <2>1 DEF Return, agent
  <2>3. runner.state \in {"none", "reaped"} /\ ~renderer
    BY DEF IInv, WaitedFor
  <2>4. runner.state = "reaped" => held = Arenas \/ dirty = {}
    BY DEF IInv, HeldOrWiped, Ending
  <2>5. dirty \subseteq Arenas
    BY DEF IInv, TypeOK
  <2>6. QED
    BY <2>2, <2>3, <2>4, <2>5
<1>2. QED
  BY <1>1, InvariantHolds, PTL DEF Spec, CleanReturn
-----------------------------------------------------------------------------
(* The text: every chunk the prompt produced is in the response, as long as no    *)
(* line of the agent has been taken for an answer.                                *)

Chunks(q) == Cardinality({i \in 1 .. Len(q) : q[i].kind = "chunk"})
\* What the runner says while it serves a request, whatever id is in it, and what ends that.
Talk(m) == m.kind \in {"chunk", "request", "bad"}
Answering(m) == m.kind \in {"answer", "error"} /\ m.id = turn

\* Nothing is between the client and the runner; or the request of this turn is with it, is being
\* served, or has been answered, the answer being the last line.
Quiet == requests = <<>> /\ lines = <<>> /\ serving = 0
Asked == requests = <<turn>> /\ serving = 0 /\ lines = <<>>
Served == requests = <<>> /\ serving = turn /\ \A i \in 1 .. Len(lines) : Talk(lines[i])
Answered ==
  /\ requests = <<>> /\ serving = 0 /\ lines # <<>> /\ Answering(lines[Len(lines)])
  /\ \A i \in 1 .. Len(lines) - 1 : Talk(lines[i])

BeforeRunner == {"verify", "claim_linear", "claim_stream", "options", "poll", "start"}
AfterAnswer == {"finish", "wait", "release", "transcript", "render"}

\* The chunks said are those heard and those in the pipe, and nothing is said between the turns.
Told ==
  /\ pc \in BeforeRunner => Quiet /\ said = 0 /\ heard = 0
  /\ pc \in {"send", "read"} =>
       pipes /\ turn \in 1 .. Prompt /\ (turn # Prompt => said = 0 /\ heard = 0)
  /\ pc = "send" => Quiet /\ heard = said
  /\ pc = "read" => Asked \/ Served \/ Answered
  /\ pc = "read" /\ turn = Prompt => heard + Chunks(lines) = said
  /\ pc \in AfterAnswer => Quiet /\ heard = said
\* What the client has seen of the end of the runner, whatever it took for the answers.
Ended ==
  /\ pc \in {"release", "transcript", "render"} => runner.code = 0
  /\ pc \in {"transcript", "render"} => held = {} /\ heard > 0
TurnInv == Ended /\ (~usurped => Told)

LEMMA QueueEnds ==
  ASSUME NEW S, NEW q \in Seq(S)
  PROVE  /\ Len(q) \in Nat /\ (q # <<>> <=> Len(q) > 0)
         /\ \A x \in S : /\ Append(q, x) \in Seq(S) /\ Len(Append(q, x)) = Len(q) + 1
                         /\ Append(q, x)[Len(q) + 1] = x /\ Append(q, x) # <<>>
                         /\ \A i \in 1 .. Len(q) : Append(q, x)[i] = q[i]
         /\ q # <<>> => /\ Head(q) = q[1] /\ Tail(q) \in Seq(S) /\ Len(Tail(q)) = Len(q) - 1
                        /\ \A i \in 1 .. Len(q) - 1 : Tail(q)[i] = q[i + 1]
OBVIOUS

LEMMA ChunksTyped ==
  ASSUME NEW q \in Seq(Message)
  PROVE  /\ IsFiniteSet({i \in 1 .. Len(q) : q[i].kind = "chunk"}) /\ Chunks(q) \in Nat
         /\ q = <<>> => Chunks(q) = 0
<1> DEFINE C == {i \in 1 .. Len(q) : q[i].kind = "chunk"}
<1>1. Len(q) \in Nat
  OBVIOUS
<1>2. IsFiniteSet(1 .. Len(q)) /\ C \in SUBSET (1 .. Len(q))
  BY <1>1, FS_Interval
<1>3. IsFiniteSet(C)
  BY <1>2, FS_Subset
<1>4. Cardinality(C) \in Nat
  BY <1>3, FS_CardinalityType
<1>5. ASSUME q = <<>> PROVE Cardinality(C) = 0
  <2>1. C = {}
    BY <1>5
  <2> QED BY <2>1, FS_EmptySet
<1> QED BY <1>3, <1>4, <1>5 DEF Chunks

LEMMA ChunksAppend ==
  ASSUME NEW q \in Seq(Message), NEW m \in Message
  PROVE  Chunks(Append(q, m)) = Chunks(q) + (IF m.kind = "chunk" THEN 1 ELSE 0)
<1> DEFINE p == Append(q, m)
           n == Len(q) + 1
           C == {i \in 1 .. Len(q) : q[i].kind = "chunk"}
           D == {i \in 1 .. Len(p) : p[i].kind = "chunk"}
<1>1. Len(q) \in Nat /\ Len(p) = n /\ p[n] = m /\ \A i \in 1 .. Len(q) : p[i] = q[i]
  BY QueueEnds
<1>2. IsFiniteSet(C)
  BY ChunksTyped
<1> HIDE DEF p
<1>3. n \notin C
  BY <1>1
<1>4. D = IF m.kind = "chunk" THEN C \cup {n} ELSE C
  BY <1>1
<1> HIDE DEF C, D
<1>5. Cardinality(C \cup {n}) = Cardinality(C) + 1 /\ Cardinality(C) \in Nat
  BY <1>2, <1>3, FS_AddElement, FS_CardinalityType
<1>6. Cardinality(D) = Cardinality(C) + (IF m.kind = "chunk" THEN 1 ELSE 0)
  BY <1>4, <1>5
<1> QED BY <1>6 DEF Chunks, C, D, p

LEMMA ChunksTail ==
  ASSUME NEW q \in Seq(Message), q # <<>>
  PROVE  Chunks(q) = Chunks(Tail(q)) + (IF Head(q).kind = "chunk" THEN 1 ELSE 0)
<1> DEFINE p == Tail(q)
           C == {i \in 1 .. Len(q) : q[i].kind = "chunk"}
           D == {i \in 1 .. Len(p) : p[i].kind = "chunk"}
           E == C \ {1}
<1>1. /\ Len(q) \in Nat /\ Len(q) > 0 /\ Head(q) = q[1] /\ p \in Seq(Message) /\ Len(p) = Len(q) - 1
      /\ \A i \in 1 .. Len(q) - 1 : p[i] = q[i + 1]
  BY QueueEnds
<1>2. IsFiniteSet(C)
  BY ChunksTyped
<1> HIDE DEF p
<1>3. IsFiniteSet(D)
  BY <1>1, ChunksTyped
<1>4. IsFiniteSet(E) /\ 1 \notin E
  BY <1>2, FS_Subset
<1>5. Cardinality(D) = Cardinality(E)
  <2> DEFINE f == [i \in D |-> i + 1]
  <2>1. \A i \in D : i \in Int /\ i + 1 \in E
    BY <1>1
  <2>2. \A j \in E : j - 1 \in D /\ (j - 1) + 1 = j
    BY <1>1
  <2> HIDE DEF D, E
  <2>3. f \in Bijection(D, E)
    <3>1. f \in [D -> E]
      BY <2>1
    <3>2. \A i, j \in D : f[i] = f[j] => i = j
      BY <2>1
    <3>3. \A j \in E : \E i \in D : f[i] = j
      BY <2>1, <2>2
    <3> QED BY <3>1, <3>2, <3>3, Fun_IsBij
  <2> QED BY <1>3, <2>3, FS_Bijection DEF ExistsBijection
<1>6. C = IF Head(q).kind = "chunk" THEN E \cup {1} ELSE E
  BY <1>1
<1> HIDE DEF C, D, E
<1>7. Cardinality(E \cup {1}) = Cardinality(E) + 1 /\ Cardinality(E) \in Nat
  BY <1>4, FS_AddElement, FS_CardinalityType
<1>8. Cardinality(C) = Cardinality(D) + (IF Head(q).kind = "chunk" THEN 1 ELSE 0)
  BY <1>5, <1>6, <1>7
<1> QED BY <1>8 DEF Chunks, C, D, p

\* A line that the runner writes while it serves: talk, or the answer that ends it.
LEMMA WriteTold ==
  ASSUME IInv, Told, Served, pc = "read", turn = serving, NEW m \in Message, WriteLine(m),
         UNCHANGED <<pc, client, requests>>,
         \/ /\ Talk(m) /\ serving' = serving
            /\ said' = (IF m.kind = "chunk" /\ serving = Prompt THEN said + 1 ELSE said)
         \/ Answering(m) /\ serving' = 0 /\ said' = said
  PROVE  Told'
<1>1. /\ pipes /\ turn \in 1 .. Prompt /\ lines' = Append(lines, m) /\ runner' = runner
      /\ lines \in Seq(Message) /\ heard \in Nat /\ said \in Nat
      /\ UNCHANGED <<pipes, turn, heard>>
  BY DEF Told, WriteLine, client, IInv, TypeOK
<1>2. /\ Len(lines) \in Nat /\ Len(lines') = Len(lines) + 1 /\ lines'[Len(lines) + 1] = m
      /\ \A i \in 1 .. Len(lines) : lines'[i] = lines[i]
      /\ lines' # <<>>
  BY <1>1, QueueEnds
<1>3. Chunks(lines') = Chunks(lines) + (IF m.kind = "chunk" THEN 1 ELSE 0) /\ Chunks(lines) \in Nat
  BY <1>1, ChunksAppend, ChunksTyped
<1>4. \A x : Talk(x)' <=> Talk(x)
  BY DEF Talk
<1>5. Served' \/ Answered'
  <2>1. CASE Talk(m) /\ serving' = serving
    BY <1>1, <1>2, <2>1 DEF Served, Talk
  <2>2. CASE Answering(m) /\ serving' = 0
    <3>1. Len(lines') = Len(lines) + 1 /\ \A i \in 1 .. Len(lines') - 1 : Talk(lines'[i])
      BY <1>2 DEF Served
    <3> QED BY <1>1, <1>2, <2>2, <3>1 DEF Served, Answered, Answering, Talk
  <2> QED BY <2>1, <2>2
<1>6. turn # Prompt => said' = 0 /\ heard = 0
  BY <1>1 DEF Told, Answering
<1>7. turn = Prompt => heard + Chunks(lines') = said'
  BY <1>1, <1>3 DEF Told, Talk, Answering
<1> QED BY <1>1, <1>5, <1>6, <1>7 DEF Told, BeforeRunner, AfterAnswer

\* A line that read_until_id takes.
LEMMA ReadTold == ASSUME IInv, Told, ReadLine, ~usurped' PROVE Told'
<1> DEFINE m == Head(lines)
<1>1. /\ pc = "read" /\ lines # <<>> /\ lines' = Tail(lines) /\ pipes /\ turn \in 1 .. Prompt
      /\ lines \in Seq(Message) /\ heard \in Nat /\ said \in Nat
      /\ UNCHANGED <<pipes, runner, requests, serving, said>>
  BY DEF ReadLine, Told, IInv, TypeOK
<1>2. /\ Len(lines) \in Nat /\ Len(lines) > 0 /\ m = lines[1] /\ Len(lines') = Len(lines) - 1
      /\ lines' \in Seq(Message) /\ (lines' # <<>> <=> Len(lines') > 0)
      /\ \A i \in 1 .. Len(lines) - 1 : lines'[i] = lines[i + 1]
  BY <1>1, QueueEnds
<1>3. /\ Chunks(lines) = Chunks(lines') + (IF m.kind = "chunk" THEN 1 ELSE 0) /\ Chunks(lines') \in Nat
      /\ lines' = <<>> => Chunks(lines') = 0
  BY <1>1, <1>2, ChunksTail, ChunksTyped
<1>4. Served \/ Answered
  BY <1>1 DEF Told, Asked
<1>5. Talk(m) \/ (Answered /\ Len(lines) = 1 /\ Answering(m))
  BY <1>2, <1>4 DEF Served, Answered
<1> HIDE DEF m
<1>6. CASE pc' = "cleanup"
  BY <1>6 DEF Told, BeforeRunner, AfterAnswer
<1>7. CASE IsAnswer(m) /\ m.kind # "error" /\ pc' # "cleanup"
  <2>1. Answered /\ Len(lines) = 1 /\ lines' = <<>> /\ m.kind # "chunk"
    <3>1. ~Usurps(m)
      BY <1>1, <1>7 DEF ReadLine, Fail, m, IsAnswer, Usurps
    <3>2. ~Talk(m)
      BY <1>7, <3>1 DEF Talk, IsAnswer, Usurps
    <3> QED BY <1>1, <1>2, <1>5, <3>2 DEF Talk, Answering
  <2>2. Quiet' /\ Chunks(lines') = 0 /\ Chunks(lines) = 0
    BY <1>1, <1>3, <2>1 DEF Answered, Quiet
  <2>3. heard' = heard /\ (IF turn = Prompt THEN pc' = "finish" /\ turn' = turn ELSE pc' = "send" /\ turn' = turn + 1)
    BY <1>7, <2>1 DEF ReadLine, Fail, m, IsAnswer
  <2>4. heard = said
    BY <1>1, <2>2 DEF Told
  <2>5. turn # Prompt => turn' \in 1 .. Prompt /\ heard = 0 /\ said = 0
    BY <1>1, <2>3 DEF Told, Prompt
  <2> QED BY <1>1, <2>2, <2>3, <2>4, <2>5 DEF Told, BeforeRunner, AfterAnswer
<1>8. CASE pc' = "read"
  <2>1. /\ UNCHANGED <<pc, turn>> /\ ~IsAnswer(m)
        /\ heard' = IF m.kind = "chunk" /\ turn = Prompt THEN heard + 1 ELSE heard
    BY <1>1, <1>8 DEF ReadLine, Fail, m
  <2>2. Talk(m)
    BY <1>5, <2>1 DEF Answering, IsAnswer
  <2>3. CASE Served
    <3>1. \A i \in 1 .. Len(lines') : Talk(lines'[i])
      BY <1>2, <2>3 DEF Served
    <3>2. Served'
      BY <1>1, <2>1, <2>3, <3>1 DEF Served, Talk
    <3> QED BY <1>1, <1>3, <2>1, <3>2 DEF Told, BeforeRunner, AfterAnswer
  <2>4. CASE Answered
    <3>1. Len(lines) > 1
      BY <1>2, <2>1, <2>4 DEF Answered, Answering, IsAnswer
    <3>2. \A i \in 1 .. Len(lines') - 1 : Talk(lines'[i])
      BY <1>2, <2>4 DEF Answered
    <3>3. lines' # <<>> /\ lines'[Len(lines')] = lines[Len(lines)]
      BY <1>2, <3>1
    <3>4. Answered'
      BY <1>1, <2>1, <2>4, <3>2, <3>3 DEF Answered, Answering, Talk
    <3> QED BY <1>1, <1>3, <2>1, <3>4 DEF Told, BeforeRunner, AfterAnswer
  <2> QED BY <1>4, <2>3, <2>4
<1> QED BY <1>1, <1>6, <1>7, <1>8 DEF ReadLine, Fail, m

LEMMA ToldStep == ASSUME IInv, Told, [Next]_vars, ~usurped' PROVE Told'
<1>1. CASE UNCHANGED <<pc, client, runner, requests, lines, serving, said>>
  BY <1>1 DEF client, Told, Quiet, Asked, Served, Answered, Talk, Answering
<1>2. CASE pc' \in {"idle", "cleanup", "reap", "return", "abort"}
  BY <1>2 DEF Told, BeforeRunner, AfterAnswer
<1>3. CASE Start
  BY <1>3 DEF Start, Told, Quiet, BeforeRunner, AfterAnswer
<1>4. CASE Verify \/ Claim("linear", "claim_linear", "claim_stream")
           \/ Claim("stream", "claim_stream", "options") \/ Options \/ Poll
  <2>1. UNCHANGED <<heard, agent>> /\ pc' \in BeforeRunner \cup {"cleanup"} /\ pc \in BeforeRunner
    BY <1>4 DEF Verify, Claim, Options, Poll, BeforeRunner, client
  <2> QED BY <1>2, <2>1 DEF Told, Quiet, BeforeRunner, AfterAnswer, agent
<1>5. CASE StartFx
  <2>1. pc = "start" /\ pc' \in {"cleanup", "send", "abort"} /\ UNCHANGED <<heard, requests, lines, serving, said>>
    BY <1>5 DEF StartFx
  <2>2. pc' = "send" => pipes' /\ turn' = 1
    BY <1>5 DEF StartFx
  <2> QED BY <1>2, <2>1, <2>2 DEF Told, Quiet, BeforeRunner, AfterAnswer, Prompt
<1>6. CASE Abort \/ SendToDead \/ ReadEof \/ RunRenderer \/ Cleanup \/ CleanupReaps \/ Return \/ Interrupt
  BY <1>2, <1>6 DEF Abort, SendToDead, ReadEof, RunRenderer, Cleanup, CleanupReaps, Return,
    Interrupt
<1>7. CASE Send
  <2>1. /\ pc = "send" /\ pc' = "read" /\ UNCHANGED <<pipes, turn, heard, lines, serving, said>>
        /\ requests' = Append(requests, turn)
    BY <1>7 DEF Send, client
  <2>2. Quiet /\ heard = said /\ heard \in Nat
    BY <2>1 DEF Told, IInv, TypeOK
  <2>3. requests' = <<turn>> /\ Chunks(lines') = 0
    <3>1. requests' = <<turn>>
      BY <2>1, <2>2 DEF Quiet
    <3>2. lines' = <<>> /\ lines' \in Seq(Message)
      BY <2>1, <2>2 DEF Quiet
    <3> QED BY <3>1, <3>2, ChunksTyped
  <2>4. Asked'
    BY <2>1, <2>2, <2>3 DEF Asked, Quiet
  <2> QED BY <2>1, <2>2, <2>3, <2>4 DEF Told, BeforeRunner, AfterAnswer
<1>8. CASE ReadLine
  BY <1>8, ReadTold
<1>9. CASE FinishFx
  BY <1>9 DEF FinishFx, agent, Told, Quiet, BeforeRunner, AfterAnswer
<1>10. CASE Wait
  BY <1>10 DEF Wait, Reap, Told, Quiet, BeforeRunner, AfterAnswer, IInv, TypeOK, Process
<1>11. CASE Release
  BY <1>11 DEF Release, agent, Told, Quiet, BeforeRunner, AfterAnswer
<1>12. CASE WriteTranscript
  BY <1>12 DEF WriteTranscript, agent, Told, Quiet, BeforeRunner, AfterAnswer
<1>13. CASE UseArena \/ ModuleRun \/ UNCHANGED vars
  BY <1>1, <1>13 DEF UseArena, ModuleRun, RunnerOnly, agent, vars
\* The runner acts only while the client is with it.
<1>14. Alive => pc \in {"send", "read", "finish", "wait", "abort", "cleanup", "reap"}
  BY DEF IInv, RunnerOwned, WithRunner
<1>15. Alive /\ UNCHANGED pc /\ pc \notin {"send", "read", "finish", "wait"} => Told'
  BY <1>2, <1>14
<1>16. CASE TakeRequest
  <2>1. /\ Alive /\ serving = 0 /\ requests # <<>> /\ serving' = Head(requests) /\ requests' = Tail(requests)
        /\ UNCHANGED <<pc, pipes, turn, heard, lines, said>>
    BY <1>16 DEF TakeRequest, RunnerOnly, client
  <2>2. CASE pc = "read"
    <3>1. Asked
      BY <2>1, <2>2 DEF Told, Served, Answered
    <3>2. Served'
      <4>1. requests' = <<>> /\ serving' = turn /\ Len(lines) = 0
        BY <2>1, <3>1 DEF Asked
      <4> QED BY <2>1, <4>1 DEF Served
    <3> QED BY <2>1, <2>2, <3>2 DEF Told, BeforeRunner, AfterAnswer
  <2>3. CASE pc \in {"send", "finish", "wait"}
    BY <2>1, <2>3 DEF Told, Quiet, AfterAnswer
  <2> QED BY <1>15, <2>1, <2>2, <2>3
<1>17. CASE Answer
  <2>1. /\ Alive /\ serving # 0 /\ serving' = 0 /\ UNCHANGED <<pc, client, requests, said>>
    BY <1>17 DEF Answer, RunnerOnly
  <2>2. PICK kind \in {"answer", "error"} : WriteLine([kind |-> kind, id |-> serving])
    BY <1>17 DEF Answer
  <2>3. CASE pc = "read"
    <3> DEFINE m == [kind |-> kind, id |-> serving]
    <3>1. Served /\ turn = serving
      BY <2>1, <2>3 DEF Told, Asked, Answered, Served
    <3>2. m \in Message /\ Answering(m)
      BY <3>1 DEF Message, AgentIds, Answering, IInv, TypeOK
    <3> HIDE DEF m
    <3>3. WriteLine(m)
      BY <2>2 DEF m
    <3> QED BY <2>1, <2>3, <3>1, <3>2, <3>3, WriteTold
  <2>4. CASE pc \in {"send", "finish", "wait"}
    BY <2>1, <2>4 DEF Told, Quiet, AfterAnswer
  <2> QED BY <1>15, <2>1, <2>3, <2>4
<1>18. CASE Say
  <2>1. /\ Alive /\ serving # 0 /\ UNCHANGED <<pc, client, requests, serving>>
    BY <1>18 DEF Say, RunnerOnly
  <2>2. PICK kind \in {"chunk", "request", "bad"}, id \in AgentIds :
          /\ WriteLine([kind |-> kind, id |-> id])
          /\ said' = IF kind = "chunk" /\ serving = Prompt THEN said + 1 ELSE said
    BY <1>18 DEF Say
  <2>3. CASE pc = "read"
    <3> DEFINE m == [kind |-> kind, id |-> id]
    <3>1. Served /\ turn = serving
      BY <2>1, <2>3 DEF Told, Asked, Answered, Served
    <3>2. m \in Message /\ Talk(m) /\ m.kind = kind
      BY DEF Message, Talk
    <3> HIDE DEF m
    <3>3. WriteLine(m)
      BY <2>2 DEF m
    <3> QED BY <2>1, <2>2, <2>3, <3>1, <3>2, <3>3, WriteTold
  <2>4. CASE pc \in {"send", "finish", "wait"}
    BY <2>1, <2>4 DEF Told, Quiet, AfterAnswer
  <2> QED BY <1>15, <2>1, <2>3, <2>4
<1>19. CASE \E code \in {0, 1} : Exit(code)
  <2>1. Alive /\ UNCHANGED <<pc, client, requests, lines, serving, said>>
    BY <1>19 DEF Exit, RunnerOnly
  <2>2. pc \notin {"release", "transcript", "render"}
    BY <1>14, <2>1
  <2> QED BY <2>1, <2>2 DEF client, Told, Quiet, Asked, Served, Answered, Talk, Answering
<1> QED BY <1>3, <1>4, <1>5, <1>6, <1>7, <1>8, <1>9, <1>10, <1>11, <1>12, <1>13, <1>16, <1>17, <1>18,
           <1>19 DEF Next, Client, Serves

\* Only a start of the client forgets that a turn was usurped; then nothing has been said.
LEMMA UsurpedStep ==
  ASSUME IInv, [Next]_vars
  PROVE  (~usurped' => ~usurped) \/ (Start /\ Told')
<1>1. CASE Start
  BY <1>1 DEF Start, Told, Quiet, BeforeRunner, AfterAnswer
<1>2. CASE ReadLine
  BY <1>2 DEF ReadLine
<1>3. CASE \/ Verify \/ Claim("linear", "claim_linear", "claim_stream")
           \/ Claim("stream", "claim_stream", "options") \/ Options \/ Poll \/ StartFx \/ Abort
           \/ Send \/ SendToDead \/ ReadEof \/ FinishFx \/ Wait \/ Release
           \/ WriteTranscript \/ RunRenderer \/ Cleanup \/ CleanupReaps \/ Return
  BY <1>3 DEF Verify, Claim, Options, Poll, StartFx, Abort, Send, SendToDead, ReadEof, FinishFx,
    Wait, Release, WriteTranscript, RunRenderer, Cleanup, CleanupReaps, Return, client
<1>4. CASE \/ UseArena \/ Serves \/ Say \/ (\E code \in {0, 1} : Exit(code)) \/ Interrupt
           \/ ModuleRun \/ UNCHANGED vars
  BY <1>4 DEF UseArena, Serves, TakeRequest, Answer, Say, Exit, Interrupt, ModuleRun, RunnerOnly,
    client, vars
<1> QED BY <1>1, <1>2, <1>3, <1>4 DEF Next, Client

\* The client renders only after the wait that told it status 0, and with text.
LEMMA EndedStep == ASSUME IInv, Ended, [Next]_vars PROVE Ended'
<1>1. CASE pc' \notin {"release", "transcript", "render"}
  BY <1>1 DEF Ended
<1>3. CASE Wait
  BY <1>3 DEF Wait, Reap, Ended, IInv, TypeOK, Process
<1>4. CASE Release \/ WriteTranscript
  BY <1>4 DEF Release, WriteTranscript, agent, Ended
<1>5. CASE \/ Start \/ Verify \/ Claim("linear", "claim_linear", "claim_stream")
           \/ Claim("stream", "claim_stream", "options") \/ Options \/ Poll \/ StartFx \/ Abort
           \/ Send \/ SendToDead \/ ReadLine \/ ReadEof \/ FinishFx
           \/ RunRenderer \/ Cleanup \/ CleanupReaps \/ Return \/ Interrupt
  BY <1>1, <1>5 DEF Start, Verify, Claim, Options, Poll, StartFx, Abort, Send, SendToDead,
    ReadLine, Fail, ReadEof, FinishFx, RunRenderer, Cleanup, CleanupReaps, Return, Interrupt
<1>6. CASE \/ UseArena \/ Serves \/ Say \/ (\E code \in {0, 1} : Exit(code))
           \/ ModuleRun \/ UNCHANGED vars
  <2>1. pc' = pc /\ UNCHANGED <<held, heard>>
    BY <1>6 DEF UseArena, Serves, TakeRequest, Answer, Say, Exit, ModuleRun, RunnerOnly, client,
      vars
  <2>2. CASE pc' \in {"release", "transcript", "render"}
    <3>1. ~Alive
      BY <2>1, <2>2 DEF IInv, RunnerOwned, WithRunner
    <3>2. UNCHANGED runner
      BY <1>6, <3>1 DEF UseArena, Serves, TakeRequest, Answer, Say, Exit, ModuleRun, agent, vars
    <3> QED BY <2>1, <3>2 DEF Ended
  <2> QED BY <1>1, <2>2
<1> QED BY <1>3, <1>4, <1>5, <1>6 DEF Next, Client

LEMMA TurnStep == ASSUME IInv, TurnInv, [Next]_vars PROVE TurnInv'
<1>1. Ended'
  BY EndedStep DEF TurnInv
<1>2. ASSUME ~usurped' PROVE Told'
  <2>1. CASE Start /\ Told'
    BY <2>1
  <2>2. CASE ~usurped' => ~usurped
    <3>2. ~usurped
      BY <1>2, <2>2
    <3> QED BY <1>2, <3>2, ToldStep DEF TurnInv
  <2> QED BY <2>1, <2>2, UsurpedStep
<1> QED BY <1>1, <1>2 DEF TurnInv

\* The renderer runs only after the runner was reaped with status 0, with text, and with the arenas
\* back and wiped, whatever the agent says; and unless a line of the agent that was no answer had
\* the id the client waited for, that text is every chunk the prompt produced, none cut and none
\* of another turn (fx_eink.c:452-520, 811-863; "invokes the renderer after WAMR exits",
\* docs/architecture.md:21).
THEOREM WholeAnswerRendered == Spec => []WholeUnlessUsurped
<1>1. Init => TurnInv
  BY DEF Init, TurnInv, Ended, Told, BeforeRunner, AfterAnswer
<1>2. IInv /\ TurnInv /\ [Next]_vars => TurnInv'
  BY TurnStep
<1>3. IInv /\ TurnInv => WholeUnlessUsurped
  BY DEF IInv, WaitedFor, HeldOrWiped, TurnInv, Ended, Told, AfterAnswer, WholeUnlessUsurped
<1>4. QED
  BY <1>1, <1>2, <1>3, InvariantHolds, PTL DEF Spec
=============================================================================
