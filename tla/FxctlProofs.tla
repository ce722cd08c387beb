------------------------------ MODULE FxctlProofs ------------------------------
(***************************************************************************)
(* Theorems of what fxctl does to a board: of the process it starts         *)
(* (RunnerLifecycle), of the modules it loads and executes (Deploy), and of *)
(* who can log in afterwards (BoardAccess), for any boards, passwords and   *)
(* modules.                                                                *)
(*                                                                         *)
(* A process: what a step of the setup needs was acquired before            *)
(* (Acquiring), what the teardown has released is gone (Unwinding), and who *)
(* left a stain is still held to wipe it (Stained).                         *)
(*                                                                         *)
(* A module: while load's line goes on, what has been verified is what      *)
(* moves, and what has moved is what is switched to (Uploading); current    *)
(* names a module that was loaded (Named); execute starts what current      *)
(* names (Executing); and nothing is written while fx-wamr runs (Alone).    *)
(*                                                                         *)
(* A login: every secret on its way to a board, in the queue of its         *)
(* terminal, stands in a record of that board (KnownLines), and a board     *)
(* only ever takes a password that was on its way to it; during an install, *)
(* whose start emptied the terminal, that is the pending one alone          *)
(* (Installing), and afterwards the recorded one alone (Opened).  passwd may *)
(* take an empty line twice; on such a board it is answered none             *)
(* (NoneForPasswd).                                                         *)
(***************************************************************************)
EXTENDS Deploy, BoardAccess, TLAPS

\* The order of the steps, said once.
LEMMA NextSteps ==
  /\ After("start") = "caches" /\ After("caches") = "allocator" /\ After("allocator") = "stream"
  /\ After("stream") = "guards" /\ After("guards") = "key" /\ After("key") = "model"
  /\ After("model") = "options" /\ After("options") = "catalog" /\ After("catalog") = "input"
  /\ After("input") = "native" /\ After("native") = "runtime" /\ After("runtime") = "module"
  /\ After("module") = "limits" /\ After("limits") = "instance" /\ After("instance") = "run"
<1>1. Len(Setup) = 16
  BY DEF Setup
<1>2. \A i, j \in 1 .. 16 : Setup[i] = Setup[j] => i = j
  BY DEF Setup
<1>3. ASSUME NEW k \in 2 .. 16 PROVE After(Setup[k - 1]) = Setup[k]
  <2>1. \A i \in 2 .. 16 : Setup[i - 1] = Setup[k - 1] => i = k
    BY <1>2
  <2> QED BY <2>1, <1>1 DEF After
<1>4. /\ Setup[1] = "start" /\ Setup[2] = "caches" /\ Setup[3] = "allocator" /\ Setup[4] = "stream"
      /\ Setup[5] = "guards" /\ Setup[6] = "key" /\ Setup[7] = "model" /\ Setup[8] = "options"
      /\ Setup[9] = "catalog" /\ Setup[10] = "input" /\ Setup[11] = "native" /\ Setup[12] = "runtime"
      /\ Setup[13] = "module" /\ Setup[14] = "limits" /\ Setup[15] = "instance" /\ Setup[16] = "run"
  BY DEF Setup
<1>5. \A k \in 1 .. 15 : After(Setup[k]) = Setup[k + 1]
  BY <1>3
<1> HIDE DEF Setup
<1>6. /\ After(Setup[1]) = Setup[2] /\ After(Setup[2]) = Setup[3] /\ After(Setup[3]) = Setup[4]
      /\ After(Setup[4]) = Setup[5] /\ After(Setup[5]) = Setup[6] /\ After(Setup[6]) = Setup[7]
      /\ After(Setup[7]) = Setup[8] /\ After(Setup[8]) = Setup[9] /\ After(Setup[9]) = Setup[10]
      /\ After(Setup[10]) = Setup[11] /\ After(Setup[11]) = Setup[12] /\ After(Setup[12]) = Setup[13]
      /\ After(Setup[13]) = Setup[14] /\ After(Setup[14]) = Setup[15] /\ After(Setup[15]) = Setup[16]
  BY <1>5
<1> QED BY <1>4, <1>6

LEMMA AllSteps == Steps = {"start", "caches", "allocator", "stream", "guards", "key", "model", "options",
           "catalog", "input", "native", "runtime", "module", "limits", "instance", "run", "opened", "buffered"}
<1>1. Len(Setup) = 16
  BY DEF Setup
<1>2. \A i \in 1 .. 16 : Setup[i] \in {"start", "caches", "allocator", "stream", "guards", "key", "model", "options",
           "catalog", "input", "native", "runtime", "module", "limits", "instance", "run"}
  BY DEF Setup
<1>4. /\ Setup[1] = "start" /\ Setup[2] = "caches" /\ Setup[3] = "allocator" /\ Setup[4] = "stream"
      /\ Setup[5] = "guards" /\ Setup[6] = "key" /\ Setup[7] = "model" /\ Setup[8] = "options"
      /\ Setup[9] = "catalog" /\ Setup[10] = "input" /\ Setup[11] = "native" /\ Setup[12] = "runtime"
      /\ Setup[13] = "module" /\ Setup[14] = "limits" /\ Setup[15] = "instance" /\ Setup[16] = "run"
  BY DEF Setup
<1>3. \A s \in Steps \ {"opened", "buffered"} : \E i \in 1 .. 16 : s = Setup[i]
  BY <1>1 DEF Steps
<1>5. {Setup[i] : i \in 1 .. 16} \subseteq Steps
  BY <1>1 DEF Steps
<1>6. \A i \in 1 .. 16 : Setup[i] \in Steps
  BY <1>5
<1> HIDE DEF Setup
<1>7. {"start", "caches", "allocator", "stream", "guards", "key", "model", "options",
           "catalog", "input", "native", "runtime", "module", "limits", "instance", "run"} \subseteq Steps
  BY <1>4, <1>6
<1>8. {"opened", "buffered"} \subseteq Steps
  BY DEF Steps
<1> QED BY <1>2, <1>3, <1>7, <1>8

LEMMA TeardownOrder ==
  /\ Len(Teardown) = 9
  /\ Teardown[1] = {"instance"} /\ Teardown[2] = {"module"} /\ Teardown[3] = {"runtime"}
  /\ Teardown[4] = {"native"} /\ Teardown[5] = Guards /\ Teardown[6] = {"input"}
  /\ Teardown[7] = Environment /\ Teardown[8] = {"allocator"} /\ Teardown[9] = {"stream"}
BY DEF Teardown
LEMMA TeardownLength == Len(Teardown) = 9 /\ 0 \in 0 .. Len(Teardown)
BY TeardownOrder
-----------------------------------------------------------------------------
LastSteps == {"limits", "instance", "run"}
AfterNative == {"runtime", "module"} \cup LastSteps
AfterKey == {"model", "options", "catalog", "input", "opened", "buffered", "native"} \cup AfterNative
AfterAllocator == {"stream", "guards", "key"} \cup AfterKey

\* What is there at each step of the setup.
Acquiring ==
  /\ pc \in AfterAllocator => "allocator" \in held
  /\ pc \in AfterAllocator \ {"stream"} => "stream" \in held
  /\ pc \in AfterKey => "key" \in held
  /\ pc \in AfterKey \ {"model"} => "model" \in held
  /\ pc \in AfterNative => "native" \in held
  /\ pc \in AfterNative \ {"runtime"} => "runtime" \in held
  /\ pc \in LastSteps => "module" \in held
  /\ "module" \in held => pc \in LastSteps \cup {"teardown"}
  /\ pc = "buffered" => input = "buffer"
  /\ pc \in {"native", "runtime", "module"} => input # "none"
  /\ pc \in Steps \ ({"buffered", "native"} \cup AfterNative) => input = "none"
  /\ "descriptor" \in held => pc \in {"opened", "buffered"}
  /\ pc = "start" => held = {} /\ stain = {}

\* What is gone at each step of the teardown.
Unwinding ==
  /\ pc \in Steps => undone = 0
  /\ pc = "teardown" => \A i \in 1 .. undone : Teardown[i] \cap held \subseteq Guards
  /\ pc = "returned" => held \subseteq Guards
  /\ pc = "killed" => held = {}

\* Whoever left a stain is still there to wipe it.
Stained ==
  /\ pc # "killed" => /\ "metadata" \in stain => "allocator" \in held
                      /\ "stream" \in stain => "stream" \in held
                      /\ "key" \in stain => "key" \in held
  /\ "module" \in held => "stream" \in held

LifeInv == TypeOK /\ Supported /\ Acquiring /\ Unwinding /\ Stained
-----------------------------------------------------------------------------
LEMMA SupportedMeans == Supported <=>
  /\ "instance" \in held => "module" \in held /\ "native" \in held
  /\ "module" \in held => "runtime" \in held /\ "key" \in held /\ "model" \in held
  /\ "runtime" \in held => "allocator" \in held
  /\ "native" \in held => "stream" \in held
  /\ retained /\ "module" \in held => input = "flash" \/ "input" \in held
BY DEF Supported, Needs
LEMMA SupportedMeansNext == Supported' <=>
  /\ "instance" \in held' => "module" \in held' /\ "native" \in held'
  /\ "module" \in held' => "runtime" \in held' /\ "key" \in held' /\ "model" \in held'
  /\ "runtime" \in held' => "allocator" \in held'
  /\ "native" \in held' => "stream" \in held'
  /\ retained' /\ "module" \in held' => input' = "flash" \/ "input" \in held'
BY DEF Supported, Needs

LEMMA LifeInit == Init => LifeInv
<1> SUFFICES ASSUME Init PROVE LifeInv
  OBVIOUS
<1>1. /\ pc = "returned" /\ undone = 0 /\ held = {} /\ input = "none" /\ retained = FALSE /\ stain = {}
  BY DEF Init
<1>2. pc \notin Steps
  BY <1>1, AllSteps
<1>3. TypeOK
  BY <1>1, TeardownLength DEF TypeOK
<1>4. Supported /\ Unwinding /\ Stained
  BY <1>1, <1>2 DEF Supported, Needs, Unwinding, Stained
<1>5. Acquiring
  BY <1>1, <1>2 DEF Acquiring, LastSteps, AfterNative, AfterKey, AfterAllocator
<1> QED BY <1>3, <1>4, <1>5 DEF LifeInv

LEMMA SetupSafe ==
  ASSUME LifeInv, StartProcess \/ Arguments \/ Acquire \/ Check \/ PrepareGuards
  PROVE  LifeInv'
<1>a. TypeOK /\ Supported /\ Acquiring /\ Unwinding /\ Stained
  BY DEF LifeInv
<1>1. CASE StartProcess
  <2>1. TypeOK'
    BY <1>a, <1>1, AllSteps, TeardownLength DEF StartProcess, TypeOK, Resources, Guards,
      Environment, Stains, Acquiring, LastSteps, AfterNative, AfterKey, AfterAllocator
  <2>2. Supported'
    BY <1>a, <1>1, SupportedMeans, SupportedMeansNext DEF StartProcess, TypeOK, Acquiring,
      LastSteps, AfterNative, AfterKey, AfterAllocator, Guards
  <2>3. Acquiring'
    BY <1>a, <1>1, AllSteps, NextSteps DEF StartProcess, Acquiring, LastSteps, AfterNative,
      AfterKey, AfterAllocator, Guards
  <2>4. Unwinding'
    BY <1>a, <1>1, AllSteps, NextSteps, TeardownOrder DEF StartProcess, Unwinding, Acquiring
  <2>5. Stained'
    BY <1>a, <1>1, AllSteps, NextSteps, SupportedMeans DEF StartProcess, Stained, Acquiring,
      LastSteps, AfterNative, AfterKey, AfterAllocator, Guards
  <2> QED BY <2>1, <2>2, <2>3, <2>4, <2>5 DEF LifeInv
<1>2. CASE Arguments
  <2>1. TypeOK'
    BY <1>a, <1>2, AllSteps, NextSteps DEF Arguments, Pass, TypeOK, Resources, Guards,
      Environment, Stains, Acquiring, LastSteps, AfterNative, AfterKey, AfterAllocator
  <2>2. Supported'
    BY <1>a, <1>2, SupportedMeans, SupportedMeansNext DEF Arguments, Pass, TypeOK, Acquiring,
      LastSteps, AfterNative, AfterKey, AfterAllocator, Guards
  <2>3. Acquiring'
    BY <1>a, <1>2, AllSteps, NextSteps DEF Arguments, Pass, Acquiring, LastSteps, AfterNative,
      AfterKey, AfterAllocator, Guards
  <2>4. Unwinding'
    BY <1>a, <1>2, AllSteps, NextSteps DEF Arguments, Pass, Unwinding, Acquiring
  <2>5. Stained'
    BY <1>a, <1>2, AllSteps, NextSteps, SupportedMeans DEF Arguments, Pass, Stained, Acquiring,
      LastSteps, AfterNative, AfterKey, AfterAllocator, Guards
  <2> QED BY <2>1, <2>2, <2>3, <2>4, <2>5 DEF LifeInv
<1>3. CASE Acquire
  <2>0. /\ UNCHANGED <<undone, input, retained>>
        /\ pc \in {"allocator", "stream", "key", "model", "options", "native", "runtime", "instance"}
        /\ \/ /\ pc' = After(pc) /\ held' = held \cup {pc} /\ stain' = stain \cup ({pc} \cap {"key"})
           \/ pc' = "teardown" /\ UNCHANGED <<held, stain>>
    <3>1. pc \in {"allocator", "stream", "key", "model", "options", "native", "runtime", "instance"}
      BY <1>3 DEF Acquire, Acquired
    <3>2. Acquired[pc] = {pc}
      BY <3>1 DEF Acquired
    <3> QED BY <1>3, <3>1, <3>2 DEF Acquire, Pass, Fail
  <2>1. TypeOK'
    <3>1. pc' \in Steps \cup {"teardown"}
      BY <2>0, AllSteps, NextSteps
    <3>2. held' \subseteq Resources /\ stain' \subseteq Stains
      BY <1>a, <2>0 DEF TypeOK, Resources, Environment, Stains
    <3>3. "input" \in held' <=> "input" \in held
      BY <2>0
    <3> QED BY <1>a, <2>0, <3>1, <3>2, <3>3 DEF TypeOK
  <2>2. Supported'
    BY <1>a, <2>0, SupportedMeans, SupportedMeansNext DEF TypeOK, Acquiring, LastSteps,
      AfterNative, AfterKey, AfterAllocator, Guards
  <2>3. Acquiring'
    BY <1>a, <2>0, AllSteps, NextSteps DEF Acquiring, LastSteps, AfterNative, AfterKey,
      AfterAllocator, Guards
  <2>4. Unwinding'
    BY <1>a, <2>0, AllSteps, NextSteps DEF Unwinding, Acquiring
  <2>5. Stained'
    BY <1>a, <2>0, AllSteps, NextSteps, SupportedMeans DEF Stained, Acquiring, LastSteps,
      AfterNative, AfterKey, AfterAllocator, Guards
  <2> QED BY <2>1, <2>2, <2>3, <2>4, <2>5 DEF LifeInv
<1>4. CASE Check
  <2>1. TypeOK'
    BY <1>a, <1>4, AllSteps, NextSteps DEF Check, Pass, Fail, TypeOK, Resources, Guards,
      Environment, Stains, Acquiring, LastSteps, AfterNative, AfterKey, AfterAllocator
  <2>2. Supported'
    BY <1>a, <1>4, SupportedMeans, SupportedMeansNext DEF Check, Pass, Fail, TypeOK, Acquiring,
      LastSteps, AfterNative, AfterKey, AfterAllocator, Guards
  <2>3. Acquiring'
    BY <1>a, <1>4, AllSteps, NextSteps DEF Check, Pass, Fail, Acquiring, LastSteps, AfterNative,
      AfterKey, AfterAllocator, Guards
  <2>4. Unwinding'
    BY <1>a, <1>4, AllSteps, NextSteps DEF Check, Pass, Fail, Unwinding, Acquiring
  <2>5. Stained'
    BY <1>a, <1>4, AllSteps, NextSteps, SupportedMeans DEF Check, Pass, Fail, Stained, Acquiring,
      LastSteps, AfterNative, AfterKey, AfterAllocator, Guards
  <2> QED BY <2>1, <2>2, <2>3, <2>4, <2>5 DEF LifeInv
<1>5. CASE PrepareGuards
  <2>1. TypeOK'
    BY <1>a, <1>5, AllSteps, NextSteps DEF PrepareGuards, Pass, TypeOK, Resources, Guards,
      Environment, Stains, Acquiring, LastSteps, AfterNative, AfterKey, AfterAllocator
  <2>2. Supported'
    BY <1>a, <1>5, SupportedMeans, SupportedMeansNext DEF PrepareGuards, Pass, TypeOK, Acquiring,
      LastSteps, AfterNative, AfterKey, AfterAllocator, Guards
  <2>3. Acquiring'
    BY <1>a, <1>5, AllSteps, NextSteps DEF PrepareGuards, Pass, Acquiring, LastSteps, AfterNative,
      AfterKey, AfterAllocator, Guards
  <2>4. Unwinding'
    BY <1>a, <1>5, AllSteps, NextSteps DEF PrepareGuards, Pass, Unwinding, Acquiring
  <2>5. Stained'
    BY <1>a, <1>5, AllSteps, NextSteps, SupportedMeans DEF PrepareGuards, Pass, Stained,
      Acquiring, LastSteps, AfterNative, AfterKey, AfterAllocator, Guards
  <2> QED BY <2>1, <2>2, <2>3, <2>4, <2>5 DEF LifeInv
<1> QED BY <1>1, <1>2, <1>3, <1>4, <1>5

LEMMA InputSafe ==
  ASSUME LifeInv, InputFromFlash \/ OpenFile \/ RejectFile \/ MapFile \/ BufferFile \/ ReadFile
  PROVE  LifeInv'
<1>a. TypeOK /\ Supported /\ Acquiring /\ Unwinding /\ Stained
  BY DEF LifeInv
<1>1. CASE InputFromFlash
  <2>1. TypeOK'
    BY <1>a, <1>1, AllSteps, NextSteps DEF InputFromFlash, Pass, Fail, TypeOK, Resources, Guards,
      Environment, Stains, Acquiring, LastSteps, AfterNative, AfterKey, AfterAllocator
  <2>2. Supported'
    BY <1>a, <1>1, SupportedMeans, SupportedMeansNext DEF InputFromFlash, Pass, Fail, TypeOK,
      Acquiring, LastSteps, AfterNative, AfterKey, AfterAllocator, Guards
  <2>3. Acquiring'
    BY <1>a, <1>1, AllSteps, NextSteps DEF InputFromFlash, Pass, Fail, Acquiring, LastSteps,
      AfterNative, AfterKey, AfterAllocator, Guards
  <2>4. Unwinding'
    BY <1>a, <1>1, AllSteps, NextSteps DEF InputFromFlash, Pass, Fail, Unwinding, Acquiring
  <2>5. Stained'
    BY <1>a, <1>1, AllSteps, NextSteps, SupportedMeans DEF InputFromFlash, Pass, Fail, Stained,
      Acquiring, LastSteps, AfterNative, AfterKey, AfterAllocator, Guards
  <2> QED BY <2>1, <2>2, <2>3, <2>4, <2>5 DEF LifeInv
<1>2. CASE OpenFile
  <2>1. TypeOK'
    BY <1>a, <1>2, AllSteps, NextSteps DEF OpenFile, Pass, Fail, TypeOK, Resources, Guards,
      Environment, Stains, Acquiring, LastSteps, AfterNative, AfterKey, AfterAllocator
  <2>2. Supported'
    BY <1>a, <1>2, SupportedMeans, SupportedMeansNext DEF OpenFile, Pass, Fail, TypeOK, Acquiring,
      LastSteps, AfterNative, AfterKey, AfterAllocator, Guards
  <2>3. Acquiring'
    BY <1>a, <1>2, AllSteps, NextSteps DEF OpenFile, Pass, Fail, Acquiring, LastSteps,
      AfterNative, AfterKey, AfterAllocator, Guards
  <2>4. Unwinding'
    BY <1>a, <1>2, AllSteps, NextSteps DEF OpenFile, Pass, Fail, Unwinding, Acquiring
  <2>5. Stained'
    BY <1>a, <1>2, AllSteps, NextSteps, SupportedMeans DEF OpenFile, Pass, Fail, Stained,
      Acquiring, LastSteps, AfterNative, AfterKey, AfterAllocator, Guards
  <2> QED BY <2>1, <2>2, <2>3, <2>4, <2>5 DEF LifeInv
<1>3. CASE RejectFile
  <2>1. TypeOK'
    BY <1>a, <1>3, AllSteps, NextSteps DEF RejectFile, Pass, Fail, TypeOK, Resources, Guards,
      Environment, Stains, Acquiring, LastSteps, AfterNative, AfterKey, AfterAllocator
  <2>2. Supported'
    BY <1>a, <1>3, SupportedMeans, SupportedMeansNext DEF RejectFile, Pass, Fail, TypeOK,
      Acquiring, LastSteps, AfterNative, AfterKey, AfterAllocator, Guards
  <2>3. Acquiring'
    BY <1>a, <1>3, AllSteps, NextSteps DEF RejectFile, Pass, Fail, Acquiring, LastSteps,
      AfterNative, AfterKey, AfterAllocator, Guards
  <2>4. Unwinding'
    BY <1>a, <1>3, AllSteps, NextSteps DEF RejectFile, Pass, Fail, Unwinding, Acquiring
  <2>5. Stained'
    BY <1>a, <1>3, AllSteps, NextSteps, SupportedMeans DEF RejectFile, Pass, Fail, Stained,
      Acquiring, LastSteps, AfterNative, AfterKey, AfterAllocator, Guards
  <2> QED BY <2>1, <2>2, <2>3, <2>4, <2>5 DEF LifeInv
<1>4. CASE MapFile
  <2>1. TypeOK'
    BY <1>a, <1>4, AllSteps, NextSteps DEF MapFile, Pass, Fail, TypeOK, Resources, Guards,
      Environment, Stains, Acquiring, LastSteps, AfterNative, AfterKey, AfterAllocator
  <2>2. Supported'
    BY <1>a, <1>4, SupportedMeans, SupportedMeansNext DEF MapFile, Pass, Fail, TypeOK, Acquiring,
      LastSteps, AfterNative, AfterKey, AfterAllocator, Guards
  <2>3. Acquiring'
    BY <1>a, <1>4, AllSteps, NextSteps DEF MapFile, Pass, Fail, Acquiring, LastSteps, AfterNative,
      AfterKey, AfterAllocator, Guards
  <2>4. Unwinding'
    BY <1>a, <1>4, AllSteps, NextSteps DEF MapFile, Pass, Fail, Unwinding, Acquiring
  <2>5. Stained'
    BY <1>a, <1>4, AllSteps, NextSteps, SupportedMeans DEF MapFile, Pass, Fail, Stained,
      Acquiring, LastSteps, AfterNative, AfterKey, AfterAllocator, Guards
  <2> QED BY <2>1, <2>2, <2>3, <2>4, <2>5 DEF LifeInv
<1>5. CASE BufferFile
  <2>1. TypeOK'
    BY <1>a, <1>5, AllSteps, NextSteps DEF BufferFile, Pass, Fail, TypeOK, Resources, Guards,
      Environment, Stains, Acquiring, LastSteps, AfterNative, AfterKey, AfterAllocator
  <2>2. Supported'
    BY <1>a, <1>5, SupportedMeans, SupportedMeansNext DEF BufferFile, Pass, Fail, TypeOK,
      Acquiring, LastSteps, AfterNative, AfterKey, AfterAllocator, Guards
  <2>3. Acquiring'
    BY <1>a, <1>5, AllSteps, NextSteps DEF BufferFile, Pass, Fail, Acquiring, LastSteps,
      AfterNative, AfterKey, AfterAllocator, Guards
  <2>4. Unwinding'
    BY <1>a, <1>5, AllSteps, NextSteps DEF BufferFile, Pass, Fail, Unwinding, Acquiring
  <2>5. Stained'
    BY <1>a, <1>5, AllSteps, NextSteps, SupportedMeans DEF BufferFile, Pass, Fail, Stained,
      Acquiring, LastSteps, AfterNative, AfterKey, AfterAllocator, Guards
  <2> QED BY <2>1, <2>2, <2>3, <2>4, <2>5 DEF LifeInv
<1>6. CASE ReadFile
  <2>0. /\ pc = "buffered" /\ UNCHANGED <<undone, retained, stain>>
        /\ \/ pc' = "native" /\ held' = held \ {"descriptor"} /\ input' = input
           \/ pc' = "teardown" /\ held' = held \ {"descriptor", "input"} /\ input' = "none"
    BY <1>6, NextSteps DEF ReadFile, Pass
  <2>1. TypeOK'
    BY <1>a, <2>0, AllSteps DEF TypeOK, Resources, Guards, Environment, Stains, Acquiring,
      LastSteps, AfterNative, AfterKey, AfterAllocator
  <2>2. Supported'
    BY <1>a, <2>0, SupportedMeans, SupportedMeansNext DEF TypeOK, Acquiring, LastSteps,
      AfterNative, AfterKey, AfterAllocator, Guards
  <2>3. Acquiring'
    BY <1>a, <2>0, AllSteps DEF Acquiring, LastSteps, AfterNative, AfterKey, AfterAllocator,
      Guards
  <2>4. Unwinding'
    BY <1>a, <2>0, AllSteps DEF Unwinding, Acquiring
  <2>5. Stained'
    BY <1>a, <2>0, AllSteps, SupportedMeans DEF Stained, Acquiring, LastSteps, AfterNative,
      AfterKey, AfterAllocator, Guards
  <2> QED BY <2>1, <2>2, <2>3, <2>4, <2>5 DEF LifeInv
<1> QED BY <1>1, <1>2, <1>3, <1>4, <1>5, <1>6

LEMMA GuestSafe ==
  ASSUME LifeInv, LoadModule \/ UseArenas \/ RunGuest \/ GuestEnds \/ Killed \/ Return
  PROVE  LifeInv'
<1>a. TypeOK /\ Supported /\ Acquiring /\ Unwinding /\ Stained
  BY DEF LifeInv
<1>1. CASE LoadModule
  <2>0. /\ pc = "module" /\ undone' = undone /\ stain' = stain
        /\ \/ /\ pc' = "limits" /\ retained' = FALSE /\ input = "buffer" /\ input' = "none"
              /\ held' = (held \cup {"module"}) \ {"input"}
           \/ pc' = "limits" /\ retained' \in BOOLEAN /\ input' = input /\ held' = held \cup {"module"}
           \/ pc' = "teardown" /\ retained' = retained /\ input' = input /\ held' = held
    BY <1>1, NextSteps DEF LoadModule, FreesInput, Immutable, Pass, Fail, LifeInv, TypeOK,
      Acquiring
  <2>1. TypeOK'
    BY <1>a, <2>0, AllSteps DEF TypeOK, Resources, Guards, Environment, Stains, Acquiring,
      LastSteps, AfterNative, AfterKey, AfterAllocator
  <2>2. Supported'
    BY <1>a, <2>0, SupportedMeans, SupportedMeansNext DEF TypeOK, Acquiring, LastSteps,
      AfterNative, AfterKey, AfterAllocator, Guards
  <2>3. Acquiring'
    BY <1>a, <2>0, AllSteps DEF Acquiring, LastSteps, AfterNative, AfterKey, AfterAllocator,
      Guards
  <2>4. Unwinding'
    BY <1>a, <2>0, AllSteps DEF Unwinding, Acquiring
  <2>5. Stained'
    BY <1>a, <2>0, AllSteps, SupportedMeans DEF Stained, Acquiring, LastSteps, AfterNative,
      AfterKey, AfterAllocator, Guards
  <2> QED BY <2>1, <2>2, <2>3, <2>4, <2>5 DEF LifeInv
<1>2. CASE UseArenas
  <2>1. TypeOK'
    BY <1>a, <1>2, AllSteps, NextSteps DEF UseArenas, TypeOK, Resources, Guards, Environment,
      Stains, Acquiring, LastSteps, AfterNative, AfterKey, AfterAllocator
  <2>2. Supported'
    BY <1>a, <1>2, SupportedMeans, SupportedMeansNext DEF UseArenas, TypeOK, Acquiring, LastSteps,
      AfterNative, AfterKey, AfterAllocator, Guards
  <2>3. Acquiring'
    BY <1>a, <1>2, AllSteps, NextSteps DEF UseArenas, Acquiring, LastSteps, AfterNative, AfterKey,
      AfterAllocator, Guards
  <2>4. Unwinding'
    BY <1>a, <1>2, AllSteps, NextSteps DEF UseArenas, Unwinding, Acquiring
  <2>5. Stained'
    BY <1>a, <1>2, AllSteps, NextSteps, SupportedMeans DEF UseArenas, Stained, Acquiring,
      LastSteps, AfterNative, AfterKey, AfterAllocator, Guards
  <2> QED BY <2>1, <2>2, <2>3, <2>4, <2>5 DEF LifeInv
<1>3. CASE RunGuest
  <2>1. TypeOK'
    BY <1>a, <1>3, AllSteps, NextSteps DEF RunGuest, TypeOK, Resources, Guards, Environment,
      Stains, Acquiring, LastSteps, AfterNative, AfterKey, AfterAllocator
  <2>2. Supported'
    BY <1>a, <1>3, SupportedMeans, SupportedMeansNext DEF RunGuest, TypeOK, Acquiring, LastSteps,
      AfterNative, AfterKey, AfterAllocator, Guards
  <2>3. Acquiring'
    BY <1>a, <1>3, AllSteps, NextSteps DEF RunGuest, Acquiring, LastSteps, AfterNative, AfterKey,
      AfterAllocator, Guards
  <2>4. Unwinding'
    BY <1>a, <1>3, AllSteps, NextSteps DEF RunGuest, Unwinding, Acquiring
  <2>5. Stained'
    BY <1>a, <1>3, AllSteps, NextSteps, SupportedMeans DEF RunGuest, Stained, Acquiring,
      LastSteps, AfterNative, AfterKey, AfterAllocator, Guards
  <2> QED BY <2>1, <2>2, <2>3, <2>4, <2>5 DEF LifeInv
<1>4. CASE GuestEnds
  <2>1. TypeOK'
    BY <1>a, <1>4, AllSteps, NextSteps DEF GuestEnds, Fail, TypeOK, Resources, Guards,
      Environment, Stains, Acquiring, LastSteps, AfterNative, AfterKey, AfterAllocator
  <2>2. Supported'
    BY <1>a, <1>4, SupportedMeans, SupportedMeansNext DEF GuestEnds, Fail, TypeOK, Acquiring,
      LastSteps, AfterNative, AfterKey, AfterAllocator, Guards
  <2>3. Acquiring'
    BY <1>a, <1>4, AllSteps, NextSteps DEF GuestEnds, Fail, Acquiring, LastSteps, AfterNative,
      AfterKey, AfterAllocator, Guards
  <2>4. Unwinding'
    BY <1>a, <1>4, AllSteps, NextSteps DEF GuestEnds, Fail, Unwinding, Acquiring
  <2>5. Stained'
    BY <1>a, <1>4, AllSteps, NextSteps, SupportedMeans DEF GuestEnds, Fail, Stained, Acquiring,
      LastSteps, AfterNative, AfterKey, AfterAllocator, Guards
  <2> QED BY <2>1, <2>2, <2>3, <2>4, <2>5 DEF LifeInv
<1>5. CASE Killed
  <2>1. TypeOK'
    BY <1>a, <1>5, TeardownLength DEF Killed, TypeOK, Resources, Guards, Environment, Stains,
      Acquiring, LastSteps, AfterNative, AfterKey, AfterAllocator
  <2>2. Supported'
    BY <1>a, <1>5, SupportedMeans, SupportedMeansNext DEF Killed, TypeOK, Acquiring, LastSteps,
      AfterNative, AfterKey, AfterAllocator, Guards
  <2>3. Acquiring'
    BY <1>a, <1>5, AllSteps, NextSteps DEF Killed, Acquiring, LastSteps, AfterNative, AfterKey,
      AfterAllocator, Guards
  <2>4. Unwinding'
    BY <1>a, <1>5, AllSteps, NextSteps, TeardownOrder DEF Killed, Unwinding, Acquiring
  <2>5. Stained'
    BY <1>a, <1>5, AllSteps, NextSteps, SupportedMeans DEF Killed, Stained, Acquiring, LastSteps,
      AfterNative, AfterKey, AfterAllocator, Guards
  <2> QED BY <2>1, <2>2, <2>3, <2>4, <2>5 DEF LifeInv
<1>6. CASE Return
  <2>1. pc = "teardown" /\ pc' = "returned" /\ undone = 9 /\ UNCHANGED <<undone, held, input, retained, stain>>
    BY <1>6, TeardownLength DEF Return
  <2>2. \A i \in 1 .. 9 : Teardown[i] \cap held \subseteq Guards
    BY <1>a, <2>1 DEF Unwinding
  <2>3. /\ Teardown[1] \cap held \subseteq Guards /\ Teardown[2] \cap held \subseteq Guards
        /\ Teardown[3] \cap held \subseteq Guards /\ Teardown[4] \cap held \subseteq Guards
        /\ Teardown[6] \cap held \subseteq Guards /\ Teardown[7] \cap held \subseteq Guards
        /\ Teardown[8] \cap held \subseteq Guards /\ Teardown[9] \cap held \subseteq Guards
    BY <2>2
  <2>4. "descriptor" \notin held
    BY <1>a, <2>1 DEF Acquiring
  <2>5. held \subseteq Guards
    BY <1>a, <2>3, <2>4, TeardownOrder DEF TypeOK, Resources, Environment, Guards
  <2>6. TypeOK'
    BY <1>a, <2>1 DEF TypeOK
  <2>7. Unwinding' /\ Acquiring'
    BY <2>1, <2>5, AllSteps DEF Unwinding, Acquiring, LastSteps, AfterNative, AfterKey,
      AfterAllocator, Guards
  <2>8. Supported' /\ Stained'
    BY <1>a, <2>1 DEF Supported, Stained
  <2> QED BY <2>6, <2>7, <2>8 DEF LifeInv
<1> QED BY <1>1, <1>2, <1>3, <1>4, <1>5, <1>6

LEMMA TearDownSafe == LifeInv /\ TearDown => LifeInv'
<1> SUFFICES ASSUME LifeInv, TearDown PROVE LifeInv'
  OBVIOUS
<1>a. TypeOK /\ Supported /\ Acquiring /\ Unwinding /\ Stained
  BY DEF LifeInv
<1> DEFINE label == Teardown[undone + 1]
<1>1. /\ pc = "teardown" /\ pc' = "teardown" /\ undone \in 0 .. 8 /\ undone' = undone + 1
      /\ held' \subseteq held /\ held \ held' \subseteq label /\ (label \cap held') \subseteq Guards
      /\ stain' = stain \ Wiped(label \cap held)
      /\ input' = IF "input" \in label THEN "none" ELSE input
      /\ retained' = (retained /\ "module" \notin label \cap held)
  BY <1>a, TeardownLength DEF TearDown, TypeOK
<1>2. \A i \in 1 .. undone : Teardown[i] \cap held \subseteq Guards
  BY <1>a, <1>1 DEF Unwinding
<1>3. pc \notin Steps
  BY <1>1, AllSteps
<1>4. Unwinding'
  BY <1>1, <1>2, <1>3 DEF Unwinding
<1>5. Acquiring'
  BY <1>a, <1>1, <1>3 DEF Acquiring, LastSteps, AfterNative, AfterKey, AfterAllocator
<1>6. /\ undone >= 1 => "instance" \notin held
      /\ undone >= 2 => "module" \notin held
      /\ undone >= 3 => "runtime" \notin held
      /\ undone >= 4 => "native" \notin held
  BY <1>1, <1>2, TeardownOrder DEF Guards
<1>7. /\ undone = 0 => label = {"instance"}
      /\ undone = 1 => label = {"module"}
      /\ undone = 2 => label = {"runtime"}
      /\ undone = 3 => label = {"native"}
      /\ undone = 4 => label = Guards
      /\ undone = 5 => label = {"input"}
      /\ undone = 6 => label = Environment
      /\ undone = 7 => label = {"allocator"}
      /\ undone = 8 => label = {"stream"}
  BY TeardownOrder
<1>8. \/ undone = 0 \/ undone = 1 \/ undone = 2 \/ undone = 3 \/ undone = 4
      \/ undone = 5 \/ undone = 6 \/ undone = 7 \/ undone = 8
  BY <1>1
<1> HIDE DEF label
<1>9. TypeOK'
  BY <1>a, <1>1, <1>7, <1>8, TeardownLength DEF TypeOK, Guards, Environment
<1>10. Supported'
  <2>1. CASE undone >= 4
    <3>1. {"instance", "module", "runtime", "native"} \cap held = {}
      BY <1>1, <1>6, <2>1
    <3> QED BY <1>1, <3>1, SupportedMeansNext
  <2>2. CASE undone = 3
    BY <1>a, <1>1, <1>6, <1>7, <2>2, SupportedMeans, SupportedMeansNext
  <2>3. CASE undone = 2
    BY <1>a, <1>1, <1>6, <1>7, <2>3, SupportedMeans, SupportedMeansNext
  <2>4. CASE undone = 1
    BY <1>a, <1>1, <1>6, <1>7, <2>4, SupportedMeans, SupportedMeansNext
      DEF Guards
  <2>5. CASE undone = 0
    BY <1>a, <1>1, <1>7, <2>5, SupportedMeans, SupportedMeansNext
  <2> QED BY <1>8, <2>1, <2>2, <2>3, <2>4, <2>5
<1>11. Stained'
  <2>1. /\ "allocator" \in label \cap held => "metadata" \notin stain'
        /\ "stream" \in label \cap held => "stream" \notin stain'
        /\ "key" \in label \cap held => "key" \notin stain'
    <3>1. ASSUME NEW w \in Wipes, w[1] \in label \cap held PROVE w[2] \notin stain'
      BY <1>1, <3>1 DEF Wiped
    <3>2. {<<"allocator", "metadata">>, <<"stream", "stream">>, <<"key", "key">>} = Wipes
      BY DEF Wipes
    <3> QED BY <3>1, <3>2
  <2>2. stain' \subseteq stain
    BY <1>1
  <2>3. "module" \in held' => "stream" \in held'
    BY <1>a, <1>1, <1>6, <1>7, <1>8 DEF Stained, Guards, Environment
  <2> QED BY <1>a, <1>1, <2>1, <2>2, <2>3 DEF Stained
<1> QED BY <1>4, <1>5, <1>9, <1>10, <1>11 DEF LifeInv

LEMMA LifeStep == LifeInv /\ [Next]_vars => LifeInv'
<1> SUFFICES ASSUME LifeInv, [Next]_vars PROVE LifeInv'
  OBVIOUS
<1>1. CASE UNCHANGED vars
  BY <1>1 DEF vars, LifeInv, TypeOK, Supported, Acquiring, Unwinding, Stained
<1>2. CASE Next
  BY <1>2, SetupSafe, InputSafe, GuestSafe, TearDownSafe DEF Next, ProcessSteps
<1> QED BY <1>1, <1>2

LEMMA LifeMeans == LifeInv => LeavesNothing
BY DEF LifeInv, Unwinding, Stained, TypeOK, Stains, Guards, LeavesNothing
-----------------------------------------------------------------------------
UploadSteps == {"curl", "check", "mv", "truncate", "printf", "path"}

TypeInv ==
  /\ object \in [Modules -> {"absent", "bad", "whole"}]
  /\ current \in Modules \cup {NoModule, Torn} /\ job \in Modules \cup {NoModule}
  /\ loaded \subseteq Modules /\ waiting \in BOOLEAN
  /\ step \in UploadSteps \cup {"none", "digest", "hash"}

Alone ==
  /\ Running => step = "none" /\ ~waiting
  /\ status # "none" => step = "none" /\ waiting
  /\ step \in {"digest", "hash"} => ~waiting

Uploading ==
  /\ step \in UploadSteps => job \in loaded
  /\ step = "mv" => incoming = "whole"
  /\ step \in {"truncate", "printf", "path"} => object[job] = "whole"
  /\ step = "path" => current = job

Named == current \in Modules => current \in loaded
Executing == step = "hash" => job \in Modules /\ job = current
Started == Running /\ image \in Modules => object[image] = "whole" /\ image \in loaded
Switched == status = "zero" /\ writes # "lost" => current = job /\ job \in Modules /\ object[job] = "whole"

IInv == TypeInv /\ Alone /\ Uploading /\ Named /\ Executing /\ Started /\ Switched
-----------------------------------------------------------------------------
LEMMA InitSafe == DeployInit => IInv
BY ModulesAssumption DEF DeployInit, Init, IInv, TypeInv, Alone, Uploading, Named, Executing,
  Started, Switched, Running, UploadSteps

\* Only a process that runs takes a step.
LEMMA StepsRun == ProcessSteps => Running
<1>1. "returned" \notin Steps /\ "killed" \notin Steps
  BY DEF Steps, Setup
<1> QED
  BY <1>1 DEF ProcessSteps, Running, Arguments, Acquire, Acquired, Check, PrepareGuards,
    InputFromFlash, OpenFile, RejectFile, MapFile, BufferFile, ReadFile, LoadModule, UseArenas,
    RunGuest, GuestEnds, TearDown, Return, Killed

LEMMA LoadSafe ==
  ASSUME IInv, \/ \E m \in Modules : Load(m)
               \/ Serve \/ Curl \/ VerifyUpload \/ Move \/ Switch \/ WritePath
               \/ CommandFails \/ LoadEnds \/ GiveUp
  PROVE  IInv'
<1> USE DEF IInv, TypeInv, Alone, Uploading, Named, Executing, Started, Switched, Running, UploadSteps,
            files, host, vars, Goes, Writes
<1>1. ASSUME NEW m \in Modules, Load(m) PROVE IInv'
  BY <1>1 DEF Load, ShellIsFree
<1>2. CASE Serve
  BY <1>2 DEF Serve
<1>3. CASE Curl
  BY <1>3 DEF Curl
<1>4. CASE VerifyUpload
  BY <1>4 DEF VerifyUpload, Matches
<1>5. CASE Move
  BY <1>5, ModulesAssumption DEF Move
<1>6. CASE Switch
  BY <1>6, ModulesAssumption DEF Switch
<1>7. CASE WritePath
  BY <1>7 DEF WritePath
<1>8. CASE CommandFails
  BY <1>8 DEF CommandFails
<1>9. CASE LoadEnds
  BY <1>9 DEF LoadEnds, Succeeded
<1>10. CASE GiveUp
  BY <1>10 DEF GiveUp
<1> QED BY <1>1, <1>2, <1>3, <1>4, <1>5, <1>6, <1>7, <1>8, <1>9, <1>10

LEMMA ExecuteSafe ==
  ASSUME IInv, Execute \/ ReadDigest \/ Launch \/ LaunchOther
  PROVE  IInv'
<1> USE DEF IInv, TypeInv, Alone, Uploading, Named, Executing, Started, Switched, Running, UploadSteps,
            files, host, vars, Goes
<1>1. CASE Execute
  BY <1>1 DEF Execute, ShellIsFree
<1>2. CASE ReadDigest
  BY <1>2 DEF ReadDigest
<1>3. CASE Launch
  <2>1. job \in loaded /\ job \in Modules /\ status = "none" /\ ~waiting /\ object[job] = "whole"
    BY <1>3 DEF Launch, Rehashed
  <2>2. /\ step' = "none" /\ pc' = "start" /\ image' = job
        /\ UNCHANGED <<storage, object, current, incoming, writes, job, waiting, served, status, loaded>>
    BY <1>3 DEF Launch, StartProcess
  <2> QED BY <2>1, <2>2
<1>4. CASE LaunchOther
  BY <1>4, ModulesAssumption DEF LaunchOther, StartProcess, ShellIsFree
<1> QED BY <1>1, <1>2, <1>3, <1>4

LEMMA ProcessSafe == IInv /\ Process => IInv'
BY StepsRun DEF Process, deployVars, IInv, TypeInv, Alone, Uploading, Named, Executing, Started,
  Switched, Running, UploadSteps

LEMMA PowerSafe == IInv /\ PowerFails => IInv'
<1> SUFFICES ASSUME IInv, PowerFails PROVE IInv'
  OBVIOUS
<1> USE DEF IInv, TypeInv, Alone, Uploading, Named, Executing, Started, Switched, UploadSteps
<1>1. ~Running' /\ step' = "none" /\ UNCHANGED <<job, waiting, status>>
  BY DEF PowerFails, Killed, Running, vars
<1>2. CASE storage = "ram"
  BY <1>1, <1>2, ModulesAssumption DEF PowerFails
<1>3. CASE storage = "sd" /\ writes = "saved" /\ UNCHANGED <<object, current, writes, loaded>>
  BY <1>1, <1>3
<1>4. CASE /\ writes' = "lost" /\ loaded' = Modules
           /\ \E content \in {"absent", "bad", "whole"} : object' = [object EXCEPT ![job] = content]
           /\ current' \in Modules \cup {NoModule, Torn}
  BY <1>1, <1>4
<1> QED BY <1>2, <1>3, <1>4 DEF PowerFails

LEMMA StepSafe == IInv /\ [DeployNext]_<<vars, deployVars>> => IInv'
<1> SUFFICES ASSUME IInv, [DeployNext]_<<vars, deployVars>> PROVE IInv'
  OBVIOUS
<1>1. CASE UNCHANGED <<vars, deployVars>>
  BY <1>1 DEF vars, deployVars, IInv, TypeInv, Alone, Uploading, Named, Executing, Started,
    Switched, Running, UploadSteps
<1>2. CASE DeployNext
  BY <1>2, LoadSafe, ExecuteSafe, ProcessSafe, PowerSafe DEF DeployNext
<1> QED BY <1>1, <1>2

\* fx-wamr is started only on a whole module, one that was loaded last or tried since, and a load
\* that succeeds has put its module there, for any modules and any losses of power.
THEOREM StartsTheLoaded == DeploySpec => []RunsWhatWasLoaded
<1>1. IInv => RunsWhatWasLoaded
  BY ModulesAssumption DEF IInv, Started, Switched, RunsWhatWasLoaded, Succeeded
<1> QED BY <1>1, InitSafe, StepSafe, PTL DEF DeploySpec
-----------------------------------------------------------------------------
LEMMA DeployStepIsLife == [DeployNext]_<<vars, deployVars>> => [Next]_vars
<1> SUFFICES ASSUME DeployNext PROVE [Next]_vars
  BY DEF deployVars
<1>1. CASE \/ \E m \in Modules : Load(m)
           \/ Serve \/ Curl \/ VerifyUpload \/ Move \/ Switch \/ WritePath
           \/ CommandFails \/ LoadEnds \/ GiveUp \/ Execute \/ ReadDigest
  BY <1>1 DEF Load, Serve, Curl, VerifyUpload, Move, Switch, WritePath, CommandFails, LoadEnds,
    GiveUp, Execute, ReadDigest, Goes
<1>2. CASE Launch \/ LaunchOther \/ Process
  BY <1>2 DEF Launch, LaunchOther, Process, Next
<1>3. CASE PowerFails
  BY <1>3 DEF PowerFails, Next, ProcessSteps
<1> QED BY <1>1, <1>2, <1>3 DEF DeployNext

\* Whatever is loaded and run, and whenever power fails, each process lives as RunnerLifecycle says.
THEOREM ProcessesLive == DeploySpec => Spec
<1>1. DeployInit => Init
  BY DEF DeployInit
<1> QED BY <1>1, DeployStepIsLife, PTL DEF DeploySpec, Spec

\* A process has the type of its state at every step; its input is not released twice.
THEOREM TypeCorrect == DeploySpec => []TypeOK
<1>1. LifeInv => TypeOK
  BY DEF LifeInv
<1> QED BY <1>1, LifeInit, LifeStep, ProcessesLive, PTL DEF Spec

\* In every unwinding, whatever is held still has all that it depends on.
THEOREM AlwaysSupported == DeploySpec => []Supported
<1>1. LifeInv => Supported
  BY DEF LifeInv
<1> QED BY <1>1, LifeInit, LifeStep, ProcessesLive, PTL DEF Spec

\* A process that returns, from any step, holds nothing but a guard and leaves no stain.
THEOREM ReturnsEverything == DeploySpec => []LeavesNothing
<1> QED BY LifeMeans, LifeInit, LifeStep, ProcessesLive, PTL DEF Spec
-----------------------------------------------------------------------------
(* BoardAccess. *)

Access == [board : Boards, password : Passwords]
LinesOf(q) == {q[i] : i \in DOMAIN q}
Lines(b) == LinesOf(queue[b])
\* The passwords in the terminal of a board, and those a record of it holds.
Secrets(b) == Lines(b) \cap Passwords
Known(b) == {p \in Passwords : Record(b, p) \in Recorded}
Changing == {"ask", "new", "retype", "changed", "archive"}

RecordTypes ==
  /\ access \in Access \cup {NoFile} /\ pending \in Access \cup {NoFile, TornFile}
  /\ archives \subseteq Access
TerminalTypes ==
  /\ password \in [Boards -> Passwords \cup {Default, ""}]
  /\ tty \in [Boards -> {"off", "login", "password", "shell", "new", "retype"}]
  /\ typed \in [Boards -> Passwords \cup {"", "root", "other"}]
  /\ queue \in [Boards -> Seq(Words \cup Passwords)]
CommandTypes ==
  /\ command \in Commands \cup {"none"}
  /\ board \in Boards \cup {NoBoard} /\ opened \in Boards \cup {NoBoard}
  /\ stage # "idle" => board \in Boards
  /\ stage = "idle" => command = "none"
  /\ stage \in {"backup", "verify", "write"} => Fresh
  /\ ~PortOpen => output = {}

\* A command that types a secret types one of the board it is logged in to, and no pending
\* record is overwritten.
InCommand ==
  /\ stage \in {"prompt", "user", "secret"} /\ ~Fresh /\ access # NoFile => access.board = board
  /\ stage = "create" => pending = NoFile
  /\ stage \in Changing => pending \in Access /\ pending.board = board
\* Whatever secret may still reach a board stands in a record of that board.
KnownLines == \A b \in Boards :
  /\ Secrets(b) \subseteq Known(b)
  /\ tty[b] = "retype" => typed[b] \in Passwords \cup {"", "other"}
\* During an install the board has the default password until it takes the pending one,
\* and only that one is on its way to it.
Installing == Fresh =>
  /\ stage \in {"knock", "prompt", "user", "secret", "ready", "secured", "create"} =>
       password[board] = Default /\ Secrets(board) = {} /\ "success" \notin output
  /\ stage \in Changing =>
       /\ Secrets(board) \subseteq {pending.password}
       /\ password[board] \in {Default, pending.password}
       /\ "success" \in output \/ stage = "archive" => password[board] = pending.password
  /\ stage = "connect" =>
       /\ access = Record(board, password[board]) /\ password[board] \in Passwords
       /\ Secrets(board) \subseteq {password[board]}
\* After it nothing else is on its way to the board.
Opened == opened # NoBoard =>
  /\ stage = "idle" /\ Secrets(opened) \subseteq {password[opened]}
  /\ InstallOpensBoard

\* The one empty line that may be on its way to a board is the first one its getty takes:
\* passwd is answered none.
OneEmpty(q) == \A i \in DOMAIN q : q[i] = "" => i = 1
EmptyOnce(b) ==
  /\ tty[b] = "retype" => typed[b] # ""
  /\ OneEmpty(queue[b]) /\ ("" \in Lines(b) => tty[b] = "login")
AtBoot(b) == queue[b] = <<>> /\ tty[b] \in {"login", "off"}
\* So it is from the boot after the flash on, during an install and after it.
NoneForPasswd ==
  /\ Fresh /\ stage = "knock" => AtBoot(board)
  /\ Fresh /\ stage \notin {"backup", "verify", "write"} => EmptyOnce(board)
  /\ opened # NoBoard => EmptyOnce(opened)

Kinds == RecordTypes /\ TerminalTypes /\ CommandTypes
AccessInv ==
  /\ Kinds /\ InCommand /\ KnownLines /\ NeverUnknown /\ Installing /\ Opened /\ NoneForPasswd
-----------------------------------------------------------------------------
(* What the actions do to a terminal. *)

\* Taking the first line, and adding lines behind the last.
LEMMA LinesTaken ==
  ASSUME NEW S, NEW q \in Seq(S), q # <<>>
  PROVE  /\ Tail(q) \in Seq(S) /\ Head(q) \in S
         /\ Head(q) \in LinesOf(q)
         /\ LinesOf(Tail(q)) \subseteq LinesOf(q)
BY DEF LinesOf

LEMMA NoLines == <<>> \in Seq(Words \cup Passwords) /\ LinesOf(<<>>) = {}
BY DEF LinesOf

LEMMA LinesAdded ==
  ASSUME NEW S, NEW q \in Seq(S), NEW r \in Seq(S)
  PROVE  /\ q \o r \in Seq(S)
         /\ LinesOf(q \o r)
              = LinesOf(q) \cup LinesOf(r)
<1>1. q \o r \in Seq(S) /\ Len(q \o r) = Len(q) + Len(r)
  OBVIOUS
<1>2. ASSUME NEW i \in 1 .. Len(q) + Len(r)
      PROVE  (q \o r)[i] = IF i <= Len(q) THEN q[i] ELSE r[i - Len(q)]
  OBVIOUS
<1>3. ASSUME NEW i \in 1 .. Len(r)
      PROVE  (q \o r)[i + Len(q)] = r[i] /\ i + Len(q) \in 1 .. Len(q) + Len(r)
  OBVIOUS
<1>4. DOMAIN (q \o r) = 1 .. Len(q) + Len(r) /\ DOMAIN q = 1 .. Len(q) /\ DOMAIN r = 1 .. Len(r)
  BY <1>1
<1>5. LinesOf(r) \subseteq LinesOf(q \o r)
  BY <1>3, <1>4 DEF LinesOf
<1>6. LinesOf(q) \subseteq LinesOf(q \o r)
  <2>1. ASSUME NEW i \in 1 .. Len(q) PROVE (q \o r)[i] = q[i] /\ i \in 1 .. Len(q) + Len(r)
    BY <1>2
  <2> QED
    BY <2>1, <1>4 DEF LinesOf
<1>7. LinesOf(q \o r) \subseteq LinesOf(q) \cup LinesOf(r)
  <2>1. ASSUME NEW i \in 1 .. Len(q) + Len(r), ~(i <= Len(q))
        PROVE (q \o r)[i] = r[i - Len(q)] /\ i - Len(q) \in 1 .. Len(r)
    BY <1>2, <2>1
  <2>2. ASSUME NEW i \in 1 .. Len(q) + Len(r), i <= Len(q)
        PROVE (q \o r)[i] = q[i] /\ i \in 1 .. Len(q)
    BY <1>2, <2>2
  <2> QED
    BY <2>1, <2>2, <1>4 DEF LinesOf
<1> QED
  BY <1>1, <1>5, <1>6, <1>7

LEMMA LinesOutdated ==
  ASSUME NEW q \in Seq(Words \cup Passwords)
  PROVE  LET o == [i \in DOMAIN q |-> Outdated(q[i])] IN
         /\ o \in Seq(Words \cup Passwords)
         /\ LinesOf(o) \subseteq LinesOf(q) \cup {"stale"}
<1> DEFINE o == [i \in DOMAIN q |-> Outdated(q[i])]
<1>1. DOMAIN q = 1 .. Len(q) /\ \A i \in DOMAIN q : q[i] \in Words \cup Passwords
  OBVIOUS
<1>2. \A i \in DOMAIN q : Outdated(q[i]) \in {q[i], "stale"} /\ "stale" \in Words
  BY DEF Outdated, Words
<1>3. o \in Seq(Words \cup Passwords)
  BY <1>1, <1>2, Len(q) \in Nat, o \in [1 .. Len(q) -> Words \cup Passwords]
<1> QED
  BY <1>2, <1>3 DEF LinesOf

\* The board takes a line, or drops them all.
LEMMA Taking ==
  ASSUME TerminalTypes, NEW b \in Boards, queue[b] # <<>>, TakesForSecret(b)
  PROVE  /\ queue' \in [Boards -> Seq(Words \cup Passwords)]
         /\ \A c \in Boards : Secrets(c)' \subseteq Secrets(c)
         /\ Head(queue[b]) \in Words \cup Passwords
         /\ Head(queue[b]) \in Passwords => Head(queue[b]) \in Secrets(b)
<1>1. queue[b] \in Seq(Words \cup Passwords)
  BY DEF TerminalTypes
<1>2. /\ Tail(queue[b]) \in Seq(Words \cup Passwords) /\ Head(queue[b]) \in Words \cup Passwords
      /\ Head(queue[b]) \in LinesOf(queue[b])
      /\ LinesOf(Tail(queue[b])) \subseteq LinesOf(queue[b])
  BY <1>1, LinesTaken
<1>3. PICK q \in {Tail(queue[b]), <<>>} : queue' = [queue EXCEPT ![b] = q]
  BY DEF TakesForSecret, Takes
<1>4. q \in Seq(Words \cup Passwords) /\ LinesOf(q) \subseteq Lines(b)
  BY <1>2, <1>3, NoLines DEF Lines
<1>5. queue' \in [Boards -> Seq(Words \cup Passwords)] /\ queue'[b] = q
      /\ \A c \in Boards : c # b => queue'[c] = queue[c]
  BY <1>3, <1>4 DEF TerminalTypes
<1>6. ASSUME NEW c \in Boards PROVE Lines(c)' \subseteq Lines(c)
  BY <1>4, <1>5 DEF Lines
<1> QED
  BY <1>2, <1>5, <1>6 DEF Secrets, Lines

\* A command types lines behind those that are there, or into a board that is off.
LEMMA Typing ==
  ASSUME TerminalTypes, board \in Boards, NEW lines \in Seq(Words \cup Passwords),
         Types(lines) \/ TypesNew(lines)
  PROVE  /\ queue' \in [Boards -> Seq(Words \cup Passwords)]
         /\ UNCHANGED <<tty, typed>>
         /\ \A c \in Boards : c # board => Secrets(c)' = Secrets(c)
         /\ \A c \in Boards : Secrets(c)' \subseteq Secrets(c) \cup LinesOf(lines)
<1> DEFINE old == queue[board]
           stale == [i \in DOMAIN old |-> Outdated(old[i])]
<1>1. old \in Seq(Words \cup Passwords)
  BY DEF TerminalTypes
<1>2. stale \in Seq(Words \cup Passwords)
      /\ LinesOf(stale) \subseteq LinesOf(old) \cup {"stale"}
  BY <1>1, LinesOutdated
<1> HIDE DEF old, stale
<1>3. PICK q \in {old, old \o lines, stale \o lines} : queue' = [queue EXCEPT ![board] = q]
  BY DEF Types, TypesNew, old, stale
<1>4. q \in Seq(Words \cup Passwords)
      /\ LinesOf(q)
           \subseteq Lines(board) \cup {"stale"} \cup LinesOf(lines)
  <2>1. CASE q = old
    BY <2>1, <1>1 DEF Lines, old
  <2>2. CASE q = old \o lines
    <3>1. old \o lines \in Seq(Words \cup Passwords)
          /\ LinesOf(old \o lines)
              = LinesOf(old) \cup LinesOf(lines)
      BY <1>1, LinesAdded
    <3> QED
      BY <3>1, <2>2 DEF Lines, old
  <2>3. CASE q = stale \o lines
    <3>1. stale \o lines \in Seq(Words \cup Passwords)
          /\ LinesOf(stale \o lines)
              = LinesOf(stale) \cup LinesOf(lines)
      BY <1>2, LinesAdded
    <3> QED
      BY <3>1, <1>2, <2>3 DEF Lines, old
  <2> QED
    BY <1>3, <2>1, <2>2, <2>3
<1>5. queue' \in [Boards -> Seq(Words \cup Passwords)] /\ queue'[board] = q
      /\ \A c \in Boards : c # board => queue'[c] = queue[c]
  BY <1>3, <1>4 DEF TerminalTypes
<1>6. "stale" \notin Passwords
  BY AccessAssumption DEF Words
<1>7. UNCHANGED <<tty, typed>>
  BY DEF Types, TypesNew
<1>8. \A c \in Boards : c # board => Secrets(c)' = Secrets(c)
  BY <1>5 DEF Secrets, Lines
<1>9. \A c \in Boards : Secrets(c)' \subseteq Secrets(c) \cup LinesOf(lines)
  BY <1>4, <1>5, <1>6, <1>8 DEF Secrets, Lines
<1> QED
  BY <1>5, <1>7, <1>8, <1>9

\* Console.run types no secret.
LEMMA TypingOfRun ==
  ASSUME TerminalTypes, board \in Boards, Run
  PROVE  /\ queue' \in [Boards -> Seq(Words \cup Passwords)]
         /\ UNCHANGED <<tty, typed>>
         /\ \A c \in Boards : Secrets(c)' \subseteq Secrets(c)
<1> DEFINE lines == <<"command", "printf">>
<1>1. /\ lines \in Seq(Words \cup Passwords) /\ LinesOf(lines) \subseteq {"command", "printf"}
      /\ {"command", "printf"} \cap Passwords = {}
  <2>1. \A i \in {1, 2} : lines[i] \in {"command", "printf"}
    OBVIOUS
  <2>2. {"command", "printf"} \subseteq Words /\ {"command", "printf"} \cap Passwords = {}
    BY AccessAssumption DEF Words
  <2>3. lines \in Seq({"command", "printf"}) /\ DOMAIN lines = {1, 2}
    OBVIOUS
  <2> QED
    BY <2>1, <2>2, <2>3 DEF LinesOf
<1>2. TypesNew(lines)
  BY DEF Run
<1> HIDE DEF lines
<1> QED
  BY <1>1, <1>2, Typing DEF Secrets

\* An empty line that is the first stays the only one when others are added behind it, and when
\* a marker is outdated; once the first line is taken there is none.
LEMMA ItemsAdded ==
  ASSUME NEW S, NEW q \in Seq(S), NEW r \in Seq(S), NEW i \in DOMAIN (q \o r)
  PROVE  \/ i \in DOMAIN q /\ (q \o r)[i] = q[i]
         \/ (q \o r)[i] \in LinesOf(r)
<1>1. q \o r \in Seq(S) /\ Len(q \o r) = Len(q) + Len(r)
  OBVIOUS
<1>2. DOMAIN (q \o r) = 1 .. Len(q) + Len(r) /\ DOMAIN q = 1 .. Len(q) /\ DOMAIN r = 1 .. Len(r)
  BY <1>1
<1>3. CASE i <= Len(q)
  BY <1>2, <1>3
<1>4. CASE ~(i <= Len(q))
  <2>1. (q \o r)[i] = r[i - Len(q)] /\ i - Len(q) \in DOMAIN r
    BY <1>2, <1>4
  <2> QED
    BY <2>1 DEF LinesOf
<1> QED
  BY <1>3, <1>4

LEMMA EmptyAdded ==
  ASSUME NEW S, NEW q \in Seq(S), NEW r \in Seq(S), OneEmpty(q), "" \notin LinesOf(r)
  PROVE  OneEmpty(q \o r) /\ ("" \in LinesOf(q \o r) => "" \in LinesOf(q))
<1>1. \A i \in DOMAIN (q \o r) :
        (i \in DOMAIN q /\ (q \o r)[i] = q[i]) \/ (q \o r)[i] \in LinesOf(r)
  BY ItemsAdded
<1> DEFINE s == q \o r
<1>2. \A i \in DOMAIN s : s[i] = "" => i \in DOMAIN q /\ q[i] = ""
  BY <1>1
<1> HIDE DEF s
<1>3. OneEmpty(s) /\ ("" \in LinesOf(s) => "" \in LinesOf(q))
  BY <1>2 DEF OneEmpty, LinesOf
<1> QED
  BY <1>3 DEF s

LEMMA EmptyOutdated ==
  ASSUME NEW q \in Seq(Words \cup Passwords), OneEmpty(q)
  PROVE  LET o == [i \in DOMAIN q |-> Outdated(q[i])] IN
         OneEmpty(o) /\ ("" \in LinesOf(o) => "" \in LinesOf(q))
BY DEF OneEmpty, LinesOf, Outdated

LEMMA EmptyTaken ==
  ASSUME NEW S, NEW q \in Seq(S), q # <<>>, OneEmpty(q)
  PROVE  "" \notin LinesOf(Tail(q))
<1>1. /\ DOMAIN Tail(q) = 1 .. Len(q) - 1 /\ DOMAIN q = 1 .. Len(q)
      /\ \A i \in 1 .. Len(q) - 1 : Tail(q)[i] = q[i + 1] /\ i + 1 \in 1 .. Len(q) /\ i + 1 # 1
  OBVIOUS
<1> QED
  BY <1>1 DEF OneEmpty, LinesOf

LEMMA NoneEmpty == ASSUME NEW q, "" \notin LinesOf(q) PROVE OneEmpty(q)
BY DEF OneEmpty, LinesOf

\* Typing a line that is not empty does not change which empty line a board is given.
LEMMA TypingNoEmpty ==
  ASSUME TerminalTypes, NEW b \in Boards, b = board, NEW lines \in Seq(Words \cup Passwords),
         Types(lines) \/ TypesNew(lines), "" \notin LinesOf(lines), EmptyOnce(b)
  PROVE  EmptyOnce(b)'
<1> DEFINE old == queue[b]
           stale == [i \in DOMAIN old |-> Outdated(old[i])]
<1>1. old \in Seq(Words \cup Passwords) /\ OneEmpty(old) /\ ("" \in LinesOf(old) => tty[b] = "login")
  BY DEF TerminalTypes, EmptyOnce, Lines
<1>2. /\ stale \in Seq(Words \cup Passwords) /\ OneEmpty(stale)
      /\ "" \in LinesOf(stale) => "" \in LinesOf(old)
  BY <1>1, LinesOutdated, EmptyOutdated
<1>3. UNCHANGED <<tty, typed>>
  BY DEF Types, TypesNew
<1>4. queue'[b] \in {old, old \o lines, stale \o lines}
  <2>1. CASE Types(lines)
    BY <2>1 DEF Types, TerminalTypes
  <2>2. CASE TypesNew(lines)
    BY <2>2 DEF TypesNew, TerminalTypes
  <2> QED
    BY <2>1, <2>2
<1> HIDE DEF old, stale
<1>5. ASSUME NEW q \in {old, stale}
      PROVE  OneEmpty(q \o lines) /\ ("" \in LinesOf(q \o lines) => "" \in LinesOf(old))
  <2>1. q \in Seq(Words \cup Passwords) /\ OneEmpty(q) /\ ("" \in LinesOf(q) => "" \in LinesOf(old))
    BY <1>1, <1>2
  <2>2. OneEmpty(q \o lines) /\ ("" \in LinesOf(q \o lines) => "" \in LinesOf(q))
    BY <2>1, EmptyAdded
  <2> QED
    BY <2>1, <2>2
<1>6. OneEmpty(queue'[b]) /\ ("" \in LinesOf(queue'[b]) => "" \in LinesOf(old))
  BY <1>1, <1>4, <1>5
<1> QED
  BY <1>1, <1>3, <1>6 DEF EmptyOnce, Lines

LEMMA RunNoEmpty ==
  ASSUME TerminalTypes, NEW b \in Boards, b = board, Run, EmptyOnce(b) PROVE EmptyOnce(b)'
<1> DEFINE lines == <<"command", "printf">>
<1>1. lines \in Seq(Words \cup Passwords) /\ "" \notin LinesOf(lines)
  <2>1. lines \in Seq({"command", "printf"}) /\ {"command", "printf"} \subseteq Words
    BY DEF Words
  <2>2. lines \in Seq(Words \cup Passwords) /\ LinesOf(lines) \subseteq {"command", "printf"}
    BY <2>1 DEF LinesOf
  <2> QED
    BY <2>2
<1>2. TypesNew(lines)
  BY DEF Run
<1> HIDE DEF lines
<1> QED
  BY <1>1, <1>2, TypingNoEmpty

\* getty takes the first empty line, and so passwd none.
LEMMA AnsweringNoEmpty ==
  ASSUME TerminalTypes, NEW b \in Boards, EmptyOnce(b), Answer(b)
  PROVE  EmptyOnce(b)'
<1> DEFINE line == Head(queue[b])
<1>1. /\ queue[b] # <<>> /\ queue[b] \in Seq(Words \cup Passwords) /\ line \in LinesOf(queue[b])
      /\ "" \notin LinesOf(Tail(queue[b]))
  BY LinesTaken, EmptyTaken DEF Answer, TerminalTypes, EmptyOnce
<1>2. "" \notin LinesOf(queue'[b])
  <2>1. queue'[b] \in {Tail(queue[b]), <<>>}
    BY DEF Answer, AtLogin, AtPassword, AtShell, AtNew, AtRetype, TakesForSecret, Takes,
      TerminalTypes
  <2> QED
    BY <1>1, <2>1, NoLines
<1>3. AtLogin(b, line) \/ AtPassword(b, line) \/ AtShell(b, line) \/ AtNew(b, line) \/ AtRetype(b, line)
  BY DEF Answer
<1>4. tty[b] # "login" => line # ""
  BY <1>1 DEF EmptyOnce, Lines
<1> HIDE DEF line
<1>5. tty'[b] = "retype" => typed'[b] # ""
  BY <1>3, <1>4 DEF AtLogin, AtPassword, AtShell, AtNew, AtRetype, Turns, TerminalTypes
<1> QED
  BY <1>2, <1>5, NoneEmpty DEF EmptyOnce, Lines

\* A board that boots has an empty terminal; the others keep theirs.
LEMMA Booting ==
  ASSUME TerminalTypes, NEW b \in Boards, NEW content, Boot(b, content)
  PROVE  /\ tty' \in [Boards -> {"off", "login", "password", "shell", "new", "retype"}]
         /\ typed' \in [Boards -> Passwords \cup {"", "root", "other"}]
         /\ queue' \in [Boards -> Seq(Words \cup Passwords)]
         /\ \A c \in Boards : c = b => Secrets(c)' = {}
         /\ \A c \in Boards : Secrets(c)' \subseteq Secrets(c)
         /\ \A c \in Boards : tty'[c] \in {"login", "off"} \/ (tty'[c] = tty[c] /\ typed'[c] = typed[c])
         /\ \A c \in Boards : IF c = b THEN AtBoot(c)' ELSE UNCHANGED <<tty[c], typed[c], queue[c]>>
<1>2. /\ queue' \in [Boards -> Seq(Words \cup Passwords)] /\ queue'[b] = <<>>
      /\ \A c \in Boards : c # b => queue'[c] = queue[c]
  BY NoLines DEF TerminalTypes, Boot
<1>3. tty' \in [Boards -> {"off", "login", "password", "shell", "new", "retype"}]
  BY DEF TerminalTypes, Boot
<1>4. typed' \in [Boards -> Passwords \cup {"", "root", "other"}]
  BY DEF TerminalTypes, Boot
<1>5. ASSUME NEW c \in Boards PROVE (c = b => Lines(c)' = {}) /\ (c # b => Lines(c)' = Lines(c))
  BY <1>2, NoLines DEF Lines
<1>6. tty'[b] \in {"login", "off"} /\ \A c \in Boards : c # b => tty'[c] = tty[c] /\ typed'[c] = typed[c]
  BY DEF TerminalTypes, Boot
<1>7. \A c \in Boards : tty'[c] \in {"login", "off"} \/ (tty'[c] = tty[c] /\ typed'[c] = typed[c])
  BY <1>6
<1>8. \A c \in Boards : IF c = b THEN AtBoot(c)' ELSE UNCHANGED <<tty[c], typed[c], queue[c]>>
  BY <1>2, <1>6 DEF AtBoot
<1> QED
  BY <1>2, <1>3, <1>4, <1>5, <1>7, <1>8 DEF Secrets

\* A board answers: it takes a line and moves nobody else's terminal; the password changes
\* only to a secret that was on its way to this board, or to an empty line if passwd was
\* answered one before, and passwd succeeds only then.
LEMMA Answering ==
  ASSUME TerminalTypes, KnownLines, NEW b \in Boards, Answer(b)
  PROVE  /\ TerminalTypes'
         /\ \A c \in Boards : Secrets(c)' \subseteq Secrets(c)
         /\ tty'[b] = "retype" => typed'[b] \in Passwords \cup {"", "other"}
         /\ \A c \in Boards : c # b => UNCHANGED <<tty[c], typed[c], queue[c]>>
         /\ \/ password' = password /\ ("success" \in output' => "success" \in output)
            \/ \E p \in Secrets(b) : password' = [password EXCEPT ![b] = p]
            \/ tty[b] = "retype" /\ typed[b] = "" /\ password' = [password EXCEPT ![b] = ""]
         /\ output' # output => board = b /\ PortOpen
<1> DEFINE line == Head(queue[b])
<1>1. queue[b] # <<>> /\ TakesForSecret(b)
  BY DEF Answer, AtLogin, AtPassword, AtShell, AtNew, AtRetype, TakesForSecret
<1>2. /\ queue' \in [Boards -> Seq(Words \cup Passwords)]
      /\ \A c \in Boards : Secrets(c)' \subseteq Secrets(c)
      /\ line \in Words \cup Passwords
      /\ line \in Passwords => line \in Secrets(b)
  BY <1>1, Taking
<1> HIDE DEF line
<1>3. AtLogin(b, line) \/ AtPassword(b, line) \/ AtShell(b, line) \/ AtNew(b, line) \/ AtRetype(b, line)
  BY DEF Answer, line
<1>4. PICK mode \in {"login", "password", "shell", "new", "retype"},
           answer \in Passwords \cup {"", "root", "other"} :
        Turns(b, mode, answer) /\ (mode = "retype" => answer \in Passwords \cup {"", "other"})
  BY <1>3 DEF AtLogin, AtPassword, AtShell, AtNew, AtRetype
<1>5. /\ tty' \in [Boards -> {"off", "login", "password", "shell", "new", "retype"}]
      /\ typed' \in [Boards -> Passwords \cup {"", "root", "other"}]
      /\ tty'[b] = mode /\ typed'[b] = answer
      /\ \A c \in Boards : c # b => UNCHANGED <<tty[c], typed[c], queue[c]>>
  BY <1>1, <1>4 DEF TerminalTypes, Turns, TakesForSecret, Takes
<1>6. /\ \/ password' = password /\ ("success" \in output' => "success" \in output)
         \/ line \in Passwords /\ password' = [password EXCEPT ![b] = line]
         \/ tty[b] = "retype" /\ typed[b] = "" /\ password' = [password EXCEPT ![b] = ""]
      /\ output' # output => board = b /\ PortOpen
  <2>1. CASE AtRetype(b, line)
    <3>1. typed[b] \in Passwords \cup {"", "other"}
      BY <2>1 DEF AtRetype, KnownLines
    <3>2. "other" \notin Words
      BY DEF Words, Default
    <3>3. line = typed[b] /\ line # "" => line \in Passwords
      BY <1>2, <3>1, <3>2
    <3> QED
      BY <2>1, <3>3 DEF AtRetype, Says
  <2>2. CASE AtLogin(b, line)
    BY <2>2 DEF AtLogin, Says
  <2>3. CASE AtPassword(b, line)
    <3>1. PICK words \in {{"shellPrompt"}, {"loginPrompt"}} : Says(b, words)
      BY <2>3 DEF AtPassword
    <3>2. "success" \notin words /\ password' = password
      BY <2>3 DEF AtPassword
    <3> QED
      BY <3>1, <3>2 DEF Says
  <2>4. CASE AtShell(b, line)
    <3>1. PICK words \in {{"marker", "shellPrompt"}, {"shellPrompt"}, {"newPrompt"}} : Says(b, words)
      BY <2>4 DEF AtShell
    <3>2. "success" \notin words /\ password' = password
      BY <2>4 DEF AtShell
    <3> QED
      BY <3>1, <3>2 DEF Says
  <2>5. CASE AtNew(b, line)
    BY <2>5 DEF AtNew, Says
  <2> QED
    BY <1>3, <2>1, <2>2, <2>3, <2>4, <2>5
<1>7. password' \in [Boards -> Passwords \cup {Default, ""}]
  BY <1>6 DEF TerminalTypes
<1>8. \/ password' = password /\ ("success" \in output' => "success" \in output)
      \/ \E p \in Secrets(b) : password' = [password EXCEPT ![b] = p]
      \/ tty[b] = "retype" /\ typed[b] = "" /\ password' = [password EXCEPT ![b] = ""]
  BY <1>2, <1>6
<1> QED
  BY <1>2, <1>4, <1>5, <1>6, <1>7, <1>8 DEF TerminalTypes
-----------------------------------------------------------------------------
(* The steps. *)

LEMMA AnswerKeeps == ASSUME AccessInv, NEW b \in Boards, Answer(b) PROVE AccessInv'
<1> USE DEF AccessInv, Kinds
<1>1. /\ TerminalTypes'
      /\ \A c \in Boards : Secrets(c)' \subseteq Secrets(c)
      /\ tty'[b] = "retype" => typed'[b] \in Passwords \cup {"", "other"}
      /\ \A c \in Boards : c # b => UNCHANGED <<tty[c], typed[c], queue[c]>>
      /\ \/ password' = password /\ ("success" \in output' => "success" \in output)
         \/ \E p \in Secrets(b) : password' = [password EXCEPT ![b] = p]
         \/ tty[b] = "retype" /\ typed[b] = "" /\ password' = [password EXCEPT ![b] = ""]
      /\ output' # output => board = b /\ PortOpen
  BY Answering
<1>2. UNCHANGED <<records, recovery, flash, stage, command, board, opened>>
  BY DEF Answer
<1>3. RecordTypes' /\ CommandTypes' /\ InCommand'
  BY <1>1, <1>2 DEF RecordTypes, CommandTypes, InCommand, GoodBackup, Fresh, PortOpen, Waiting,
    Configuring, records, recovery
<1>4. KnownLines'
  BY <1>1, <1>2 DEF KnownLines, Known, Recorded, records, Secrets, Lines
<1>5. NeverUnknown'
  <2>1. CASE password' = password
    BY <2>1, <1>2 DEF NeverUnknown, Recorded, records
  <2>2. ASSUME NEW p \in Secrets(b), password' = [password EXCEPT ![b] = p] PROVE NeverUnknown'
    BY <2>2, <1>2 DEF NeverUnknown, Recorded, records, KnownLines, Known, TerminalTypes
  <2>3. CASE password' = [password EXCEPT ![b] = ""]
    BY <2>3, <1>2 DEF NeverUnknown, Recorded, records, TerminalTypes
  <2> QED
    BY <1>1, <2>1, <2>2, <2>3
<1>6. Installing'
  <2> SUFFICES ASSUME Fresh PROVE Installing'
    BY <1>2 DEF Installing, Fresh
  <2>1. board \in Boards
    BY DEF CommandTypes, Fresh
  <2>2. Secrets(board) \subseteq Passwords /\ Lines(board)' \cap Passwords \subseteq Secrets(board)
    BY <1>1, <1>2, <2>1 DEF Secrets, Lines
  <2>3. CASE password' = password /\ ("success" \in output' => "success" \in output)
    BY <2>1, <2>2, <2>3, <1>1, <1>2 DEF Installing, Fresh, Secrets, Lines, records, Changing
  <2>4. ASSUME NEW p \in Secrets(b), password' = [password EXCEPT ![b] = p] PROVE Installing'
    BY <2>1, <2>2, <2>4, <1>1, <1>2 DEF Installing, Fresh, Secrets, Lines, records, Changing,
      TerminalTypes
  <2>5. CASE tty[b] = "retype" /\ typed[b] = "" /\ password' = [password EXCEPT ![b] = ""]
    <3>1. b # board \/ stage \in {"backup", "verify", "write"}
      BY <2>5 DEF NoneForPasswd, EmptyOnce
    <3>2. CASE b # board
      BY <2>1, <2>2, <2>5, <3>2, <1>1, <1>2 DEF Installing, Fresh, Secrets, Lines, records,
        Changing, TerminalTypes
    <3>3. CASE stage \in {"backup", "verify", "write"}
      BY <3>3, <1>2 DEF Installing, Changing
    <3> QED
      BY <3>1, <3>2, <3>3
  <2> QED
    BY <1>1, <2>3, <2>4, <2>5
<1>7. Opened'
  <2> SUFFICES ASSUME opened # NoBoard PROVE Opened'
    BY <1>2 DEF Opened
  <2>1. opened \in Boards /\ EmptyOnce(opened)
    BY DEF CommandTypes, NoneForPasswd
  <2>2. \/ password' = password
        \/ \E p \in Secrets(b) : password' = [password EXCEPT ![b] = p]
        \/ b # opened /\ password' = [password EXCEPT ![b] = ""]
    BY <1>1, <2>1 DEF EmptyOnce
  <2>3. \A b0 \in Boards : b0 = opened => Secrets(b0) \subseteq {password[b0]}
    BY DEF Opened
  <2>4. password'[opened] = password[opened]
    BY <2>1, <2>2, <2>3 DEF TerminalTypes
  <2> QED
    BY <1>1, <1>2, <2>1, <2>4 DEF Opened, InstallOpensBoard, Secrets, Lines, records
<1>8. ASSUME NEW c \in Boards, EmptyOnce(c) PROVE EmptyOnce(c)'
  <2>1. CASE c = b
    BY <1>8, <2>1, AnsweringNoEmpty
  <2>2. CASE c # b
    BY <1>8, <2>2, <1>1 DEF EmptyOnce, Lines
  <2> QED
    BY <2>1, <2>2
<1>9. NoneForPasswd'
  <2>1. (Fresh => board \in Boards) /\ (opened # NoBoard => opened \in Boards)
    BY DEF CommandTypes, Fresh
  <2>2. Fresh /\ stage = "knock" => b # board
    BY DEF NoneForPasswd, AtBoot, Answer
  <2>3. Fresh /\ stage = "knock" => AtBoot(board)'
    BY <1>1, <1>2, <2>1, <2>2 DEF NoneForPasswd, AtBoot
  <2> QED
    BY <1>2, <1>8, <2>1, <2>3 DEF NoneForPasswd, Fresh
<1> QED
  BY <1>1, <1>3, <1>4, <1>5, <1>6, <1>7, <1>9

LEMMA RebootKeeps == ASSUME AccessInv, NEW b \in Boards, Reboot(b) PROVE AccessInv'
<1> USE DEF AccessInv, Kinds
<1>1. UNCHANGED <<access, pending, archives, backup, digest, flash, password, stage, command, board, output, opened>>
  BY DEF Reboot, records, recovery, commandVars
<1>2. /\ tty' \in [Boards -> {"off", "login", "password", "shell", "new", "retype"}]
      /\ typed' \in [Boards -> Passwords \cup {"", "root", "other"}]
      /\ queue' \in [Boards -> Seq(Words \cup Passwords)]
      /\ \A c \in Boards : Secrets(c)' \subseteq Secrets(c)
      /\ \A c \in Boards : tty'[c] \in {"login", "off"} \/ (tty'[c] = tty[c] /\ typed'[c] = typed[c])
      /\ \A c \in Boards : IF c = b THEN AtBoot(c)' ELSE UNCHANGED <<tty[c], typed[c], queue[c]>>
  BY Booting DEF Reboot
<1>3. RecordTypes' /\ TerminalTypes' /\ CommandTypes'
  BY <1>1, <1>2 DEF RecordTypes, TerminalTypes, CommandTypes, Fresh, PortOpen
<1>4. InCommand' /\ NeverUnknown'
  BY <1>1 DEF InCommand, Fresh, NeverUnknown, Recorded
<1>5. KnownLines'
  BY <1>1, <1>2 DEF KnownLines, Known, Recorded, Secrets, Lines
<1>6. Installing'
  <2>1. Fresh => board \in Boards
    BY DEF CommandTypes, Fresh
  <2> QED
    BY <1>1, <1>2, <2>1 DEF Installing, Fresh, Secrets, Lines
<1>7. Opened'
  <2>1. opened # NoBoard => opened \in Boards
    BY DEF CommandTypes
  <2> QED
    BY <1>1, <1>2, <2>1 DEF Opened, InstallOpensBoard, Secrets, Lines
<1>8. ASSUME NEW c \in Boards, EmptyOnce(c) PROVE EmptyOnce(c)'
  <2>1. CASE c = b
    BY <2>1, <1>2, NoLines, NoneEmpty DEF AtBoot, EmptyOnce, Lines
  <2>2. CASE c # b
    BY <1>8, <2>2, <1>2 DEF EmptyOnce, Lines
  <2> QED
    BY <2>1, <2>2
<1>9. NoneForPasswd'
  <2>1. (Fresh => board \in Boards) /\ (opened # NoBoard => opened \in Boards)
    BY DEF CommandTypes, Fresh
  <2>2. Fresh /\ stage = "knock" => AtBoot(board)'
    BY <1>1, <1>2, <2>1 DEF NoneForPasswd, AtBoot
  <2> QED
    BY <1>1, <1>8, <2>1, <2>2 DEF NoneForPasswd, Fresh
<1> QED
  BY <1>3, <1>4, <1>5, <1>6, <1>7, <1>9

LEMMA StartKeeps == ASSUME AccessInv, NEW b \in Boards, NEW c \in Commands, Start(c, b) PROVE AccessInv'
<1> USE DEF AccessInv, Kinds
<1>1. /\ UNCHANGED <<access, pending, archives, backup, digest, flash, password, output>>
      /\ stage = "idle" /\ command' = c /\ board' = b /\ opened' = NoBoard /\ output = {}
      /\ stage' = IF c = "execute" THEN "knock" ELSE "backup"
  BY DEF Start, records, recovery, CommandTypes, PortOpen, Waiting, Configuring
<1>2. /\ tty' \in [Boards -> {"off", "login", "password", "shell", "new", "retype"}]
      /\ typed' \in [Boards -> Passwords \cup {"", "root", "other"}]
      /\ queue' \in [Boards -> Seq(Words \cup Passwords)]
      /\ \A d \in Boards : Secrets(d)' \subseteq Secrets(d)
      /\ \A d \in Boards : tty'[d] \in {"login", "off"} \/ (tty'[d] = tty[d] /\ typed'[d] = typed[d])
  <2>1. CASE Boot(b, flash[b])
    BY <2>1, Booting
  <2>2. CASE UNCHANGED terminal
    BY <2>2 DEF terminal, TerminalTypes, Secrets, Lines
  <2> QED
    BY <2>1, <2>2 DEF Start
<1>3. RecordTypes' /\ TerminalTypes' /\ CommandTypes'
  BY <1>1, <1>2 DEF RecordTypes, TerminalTypes, CommandTypes, Fresh, Commands
<1>4. InCommand' /\ NeverUnknown'
  BY <1>1 DEF InCommand, Changing, NeverUnknown, Recorded
<1>5. KnownLines'
  BY <1>1, <1>2 DEF KnownLines, Known, Recorded, Secrets, Lines
<1>6. Installing' /\ Opened' /\ NoneForPasswd'
  BY <1>1 DEF Installing, Opened, NoneForPasswd, Fresh, Changing, Commands
<1> QED
  BY <1>3, <1>4, <1>5, <1>6

\* The backup and the flash.
LEMMA FlashKeeps ==
  ASSUME AccessInv, ReuseBackup \/ ReadBackup \/ VerifyBackup \/ WriteFlash PROVE AccessInv'
<1> USE DEF AccessInv, Kinds
<1>1. /\ UNCHANGED <<access, pending, archives, opened>>
      /\ board \in Boards /\ Fresh /\ opened = NoBoard /\ output = {} /\ output' = {}
      /\ stage \in {"backup", "verify", "write"}
      /\ \/ stage' \in {"verify", "write", "knock"} /\ UNCHANGED <<command, board>>
         \/ stage' = "idle" /\ command' = "none" /\ board' = NoBoard
  BY DEF ReuseBackup, ReadBackup, VerifyBackup, WriteFlash, Moves, Dies, Returns, records,
    CommandTypes, PortOpen, Waiting, Configuring, Opened
<1>2. /\ tty' \in [Boards -> {"off", "login", "password", "shell", "new", "retype"}]
      /\ typed' \in [Boards -> Passwords \cup {"", "root", "other"}]
      /\ queue' \in [Boards -> Seq(Words \cup Passwords)]
      /\ \A d \in Boards : Secrets(d)' \subseteq Secrets(d)
      /\ \A d \in Boards : tty'[d] \in {"login", "off"} \/ (tty'[d] = tty[d] /\ typed'[d] = typed[d])
      /\ stage' = "knock" => \A d \in Boards : d = board => Secrets(d)' = {} /\ AtBoot(d)'
  <2>1. CASE \E content : Boot(board, content)
    BY <2>1, <1>1, Booting
  <2>2. CASE UNCHANGED terminal /\ stage' = "write"
    BY <2>2 DEF terminal, TerminalTypes, Secrets, Lines
  <2> QED
    BY <2>1, <2>2 DEF ReuseBackup, ReadBackup, VerifyBackup, WriteFlash, Moves
<1>3. password' = password \/ password' = [password EXCEPT ![board] = Default]
  BY DEF ReuseBackup, ReadBackup, VerifyBackup, WriteFlash
<1>4. RecordTypes' /\ TerminalTypes' /\ CommandTypes'
  BY <1>1, <1>2, <1>3 DEF RecordTypes, TerminalTypes, CommandTypes, Fresh, Commands, PortOpen,
    Waiting, Configuring
<1>6. InCommand' /\ NeverUnknown'
  BY <1>1, <1>3 DEF InCommand, Changing, NeverUnknown, Recorded, TerminalTypes
<1>7. KnownLines'
  BY <1>1, <1>2 DEF KnownLines, Known, Recorded, Secrets, Lines
<1>8. Installing' /\ Opened'
  <2>1. stage' = "knock" => password' = [password EXCEPT ![board] = Default]
    BY DEF ReuseBackup, ReadBackup, VerifyBackup, WriteFlash, Moves, Dies, Returns
  <2>2. Opened'
    BY <1>1 DEF Opened
  <2>3. Installing'
    <3>1. CASE stage' = "knock"
      <4>1. board' = board /\ board \in Boards /\ password'[board] = Default /\ "success" \notin output'
        BY <1>1, <2>1, <3>1 DEF TerminalTypes
      <4>2. \A d \in Boards : d = board => Secrets(d)' = {}
        BY <1>2, <3>1
      <4> QED
        BY <3>1, <4>1, <4>2 DEF Installing, Changing, Secrets, Lines
    <3>2. CASE stage' # "knock"
      BY <1>1, <3>2 DEF Installing, Changing, Fresh
    <3> QED
      BY <3>1, <3>2
  <2> QED
    BY <2>2, <2>3
<1>9. NoneForPasswd'
  <2>1. CASE stage' = "knock"
    <3>1. board' = board /\ board \in Boards
      BY <1>1, <2>1
    <3>2. \A d \in Boards : d = board => AtBoot(d)' /\ EmptyOnce(d)'
      BY <1>2, <2>1, NoLines, NoneEmpty DEF AtBoot, EmptyOnce, Lines
    <3> QED
      BY <1>1, <3>1, <3>2 DEF NoneForPasswd, AtBoot, EmptyOnce, Lines
  <2>2. CASE stage' # "knock"
    BY <1>1, <2>2 DEF NoneForPasswd, Fresh
  <2> QED
    BY <2>1, <2>2
<1> QED
  BY <1>4, <1>6, <1>7, <1>8, <1>9

LEMMA OneLine ==
  ASSUME NEW line \in Words \cup Passwords
  PROVE <<line>> \in Seq(Words \cup Passwords) /\ LinesOf(<<line>>) = {line}
<1>1. <<line>> \in Seq(Words \cup Passwords) /\ DOMAIN <<line>> = {1} /\ <<line>>[1] = line
  OBVIOUS
<1> QED
  BY <1>1 DEF LinesOf

\* The login: an install types the default password, execute that of the record.
LEMMA LoginKeeps == ASSUME AccessInv, Knock \/ Login \/ LoggedIn PROVE AccessInv'
<1> USE DEF AccessInv, Kinds
<1>1. /\ UNCHANGED <<access, pending, archives, backup, digest, flash, password, command, board, opened>>
      /\ board \in Boards /\ opened = NoBoard /\ output' \subseteq output
      /\ stage \in {"knock", "prompt", "user", "secret", "ready"}
      /\ stage' \in {"prompt", "user", "secret", "ready", "secured"}
      /\ stage = "knock" => stage' = "prompt" /\ (~Fresh /\ access # NoFile => access.board = board)
      /\ stage \in {"ready", "secret"} => stage' \in {"ready", "secured"}
  BY DEF Knock, Login, LoggedIn, Moves, Hears, records, recovery, CommandTypes, Opened
<1>2. "" \in Words /\ "root" \in Words /\ Default \in Words /\ \A w \in Words : w \notin Passwords
  BY AccessAssumption DEF Words
<1>3. LoginPassword \in Words \cup Passwords
      /\ (stage = "user" /\ LoginPassword \in Passwords => ~Fresh /\ LoginPassword \in Known(board))
  <2>1. CASE Fresh \/ access = NoFile
    BY <2>1, <1>2 DEF LoginPassword
  <2>2. CASE ~Fresh /\ access # NoFile
    <3>1. access \in Access /\ access.password \in Passwords /\ LoginPassword = access.password
      BY <2>2 DEF RecordTypes, LoginPassword, Access
    <3>2. access \in Recorded
      BY <3>1, AccessAssumption DEF Recorded, Access
    <3>3. stage = "user" => access = Record(board, access.password)
      BY <2>2, <3>1 DEF InCommand, Access, Record
    <3> QED
      BY <2>2, <3>1, <3>2, <3>3 DEF Known
  <2> QED
    BY <2>1, <2>2
<1>4. /\ queue' \in [Boards -> Seq(Words \cup Passwords)] /\ UNCHANGED <<tty, typed>>
      /\ \A c \in Boards : c # board \/ Fresh => Secrets(c)' \subseteq Secrets(c)
      /\ \A c \in Boards : c = board => Secrets(c)' \subseteq Secrets(c) \cup Known(c)
  <2>1. CASE Run
    BY <2>1, <1>1, TypingOfRun
  <2>2. CASE \E line \in Words \cup Passwords :
               /\ Types(<<line>>) \/ TypesNew(<<line>>)
               /\ line \in Passwords => ~Fresh /\ line \in Known(board)
    <3> PICK line \in Words \cup Passwords :
               /\ Types(<<line>>) \/ TypesNew(<<line>>)
               /\ line \in Passwords => ~Fresh /\ line \in Known(board)
      BY <2>2
    <3>1. /\ queue' \in [Boards -> Seq(Words \cup Passwords)] /\ UNCHANGED <<tty, typed>>
          /\ \A c \in Boards : c # board => Secrets(c)' = Secrets(c)
          /\ \A c \in Boards : Secrets(c)' \subseteq Secrets(c) \cup {line}
      BY <1>1, OneLine, Typing
    <3>2. \A c \in Boards : Secrets(c)' \subseteq Passwords
      BY DEF Secrets
    <3> QED
      BY <3>1, <3>2
  <2>3. Types(<<"root">>) \/ TypesNew(<<"">>) \/ (Types(<<LoginPassword>>) /\ stage = "user") \/ Run
    BY DEF Knock, Login, LoggedIn, Moves
  <2> QED
    BY <2>1, <2>2, <2>3, <1>2, <1>3
<1>5. RecordTypes' /\ TerminalTypes' /\ NeverUnknown'
  BY <1>1, <1>4 DEF RecordTypes, TerminalTypes, NeverUnknown, Recorded
<1>6. CommandTypes' /\ InCommand'
  BY <1>1 DEF CommandTypes, InCommand, Fresh, Changing, PortOpen, Waiting, Configuring
<1>7. KnownLines'
  BY <1>1, <1>4 DEF KnownLines, Known, Recorded, Secrets, Lines
<1>8. Installing' /\ Opened'
  BY <1>1, <1>4 DEF Installing, Opened, Fresh, Changing, Secrets, Lines
<1>9. NoneForPasswd'
  <2>1. CASE Fresh /\ stage = "knock"
    <3>1. AtBoot(board) /\ TypesNew(<<"">>)
      BY <2>1 DEF NoneForPasswd, Knock, Login, LoggedIn, Moves
    <3>2. /\ queue'[board] \in {<<>>, <<"">>} /\ (tty'[board] = "login" \/ queue'[board] = <<>>)
          /\ tty'[board] # "retype"
      <4>1. ASSUME NEW q, q = <<>> PROVE [i \in DOMAIN q |-> Outdated(q[i])] = <<>>
        BY <4>1
      <4>2. <<>> \o <<"">> = <<"">>
        OBVIOUS
      <4> DEFINE o == [i \in DOMAIN queue[board] |-> Outdated(queue[board][i])]
      <4>3. queue'[board] = IF tty[board] = "off" THEN queue[board] ELSE o \o <<"">>
        BY <1>1, <3>1 DEF TypesNew, TerminalTypes
      <4>4. tty' = tty
        BY <3>1 DEF TypesNew
      <4> HIDE DEF o
      <4> QED
        BY <3>1, <4>1, <4>2, <4>3, <4>4 DEF AtBoot, o
    <3>3. OneEmpty(<<>>) /\ OneEmpty(<<"">>) /\ "" \notin LinesOf(<<>>)
      <4>1. DOMAIN <<"">> = {1}
        OBVIOUS
      <4> QED
        BY <4>1, NoLines, NoneEmpty DEF OneEmpty
    <3>4. EmptyOnce(board)'
      BY <3>2, <3>3, <1>1 DEF EmptyOnce, Lines
    <3> QED
      BY <1>1, <2>1, <3>4 DEF NoneForPasswd, Fresh
  <2>2. CASE Fresh /\ stage # "knock"
    <3>1. EmptyOnce(board)
      BY <1>1, <2>2 DEF NoneForPasswd
    <3>2. CASE Run
      <4>1. ASSUME NEW b \in Boards, b = board PROVE EmptyOnce(b)'
        BY <3>1, <3>2, <4>1, RunNoEmpty
      <4> QED
        BY <1>1, <4>1 DEF NoneForPasswd
    <3>3. CASE \E line \in {"root", Default} : Types(<<line>>)
      <4> PICK line \in {"root", Default} : Types(<<line>>)
        BY <3>3
      <4>1. <<line>> \in Seq(Words \cup Passwords) /\ LinesOf(<<line>>) = {line} /\ line # ""
        BY <1>2, OneLine DEF Default
      <4>2. ASSUME NEW b \in Boards, b = board PROVE EmptyOnce(b)'
        BY <3>1, <4>1, <4>2, TypingNoEmpty
      <4> QED
        BY <1>1, <4>2 DEF NoneForPasswd
    <3>4. Types(<<"root">>) \/ Types(<<Default>>) \/ Run
      BY <2>2 DEF Knock, Login, LoggedIn, Moves, LoginPassword
    <3> QED
      BY <3>2, <3>3, <3>4
  <2>3. CASE ~Fresh
    BY <2>3, <1>1 DEF NoneForPasswd, Fresh
  <2> QED
    BY <2>1, <2>2, <2>3
<1> QED
  BY <1>5, <1>6, <1>7, <1>8, <1>9

\* An install without a configuration leaves the default password and no record.
LEMMA RenameKeeps == ASSUME AccessInv, Rename PROVE AccessInv'
<1> USE DEF AccessInv, Kinds
<1>1. /\ UNCHANGED <<pending, backup, digest, flash, password, tty, typed, queue>>
      /\ stage = "ready" /\ board \in Boards /\ Fresh /\ opened' = board /\ access' = NoFile
      /\ archives' = archives \cup ({access} \ {NoFile})
      /\ stage' = "idle" /\ command' = "none" /\ board' = NoBoard /\ output' = {}
  BY DEF Rename, Returns, recovery, terminal, CommandTypes, Fresh
<1>2. RecordTypes' /\ TerminalTypes' /\ CommandTypes' /\ InCommand'
  BY <1>1 DEF RecordTypes, TerminalTypes, CommandTypes, InCommand, Changing
<1>3. Recorded \subseteq Recorded'
  BY <1>1, AccessAssumption DEF Recorded, RecordTypes, Access
<1>4. KnownLines' /\ NeverUnknown'
  BY <1>1, <1>3 DEF KnownLines, Known, NeverUnknown, Secrets, Lines
<1>5. Installing' /\ Opened'
  BY <1>1 DEF Installing, Opened, InstallOpensBoard, Fresh, Changing, Secrets, Lines
<1>6. NoneForPasswd'
  BY <1>1 DEF NoneForPasswd, Fresh, EmptyOnce, Lines
<1> QED
  BY <1>2, <1>4, <1>5, <1>6

\* The password change begins: the new password is saved for this board.
LEMMA SavePendingKeeps == ASSUME AccessInv, Secured \/ SavePending PROVE AccessInv'
<1> USE DEF AccessInv, Kinds
<1>1. /\ UNCHANGED <<access, archives, backup, digest, flash, password, tty, typed, queue, opened>>
      /\ board \in Boards /\ opened = NoBoard /\ output' \subseteq output
      /\ stage \in {"secured", "create"}
      /\ \/ UNCHANGED <<command, board>> /\ stage' = "create" /\ UNCHANGED pending
         \/ UNCHANGED <<command, board>> /\ stage' = "connect" /\ UNCHANGED pending /\ ~Fresh
         \/ /\ UNCHANGED <<command, board>> /\ stage' = "ask"
            /\ \E p \in Passwords : pending' = Record(board, p)
         \/ stage' = "idle" /\ command' = "none" /\ board' = NoBoard /\ output' = {} /\ pending' = TornFile
      /\ pending' # pending => stage = "create"
  BY DEF Secured, SavePending, Moves, Dies, Returns, Hears, Rotates, Unused, records, recovery,
    terminal, CommandTypes, Opened
<1>2. Recorded \subseteq Recorded'
  <2>1. pending = NoFile \/ pending' = pending
    BY <1>1 DEF InCommand
  <2> QED
    BY <1>1, <2>1 DEF Recorded
<1>3. /\ \A p \in Passwords : Record(board, p) \in Access /\ Record(board, p).board = board
                              /\ Record(board, p).password = p
      /\ NoFile \notin Access /\ TornFile \notin Access
  BY <1>1, AccessAssumption DEF Record, Access
<1>4. RecordTypes' /\ TerminalTypes' /\ CommandTypes'
  BY <1>1, <1>3 DEF RecordTypes, TerminalTypes, CommandTypes, Fresh, PortOpen, Waiting,
    Configuring
<1>5. InCommand'
  <2>1. stage' = "create" => pending' = NoFile
    BY DEF Secured, SavePending, Moves, Dies, Returns, records
  <2> QED
    BY <1>1, <1>3, <2>1 DEF InCommand, Changing
<1>6. KnownLines' /\ NeverUnknown'
  BY <1>1, <1>2 DEF KnownLines, Known, NeverUnknown, Secrets, Lines
<1>7. Installing' /\ Opened'
  BY <1>1, <1>3 DEF Installing, Opened, Fresh, Changing, Secrets, Lines
<1>8. NoneForPasswd'
  BY <1>1 DEF NoneForPasswd, Fresh, EmptyOnce, Lines
<1> QED
  BY <1>4, <1>5, <1>6, <1>7, <1>8

\* passwd is given the pending password twice, and believed once it says so; then the pending
\* record becomes the record, and the old one stays.
LEMMA ChangeKeeps ==
  ASSUME AccessInv, ChangePassword \/ Changed \/ AdoptPending PROVE AccessInv'
<1> USE DEF AccessInv, Kinds
<1>1. /\ UNCHANGED <<backup, digest, flash, password, tty, typed, command, board, opened>>
      /\ board \in Boards /\ opened = NoBoard /\ output' \subseteq output
      /\ stage \in Changing /\ stage' \in Changing \cup {"connect"} /\ stage' # "ask"
      /\ stage' = "archive" /\ stage # "archive" => "success" \in output
      /\ \/ UNCHANGED <<access, pending, archives>> /\ stage' # "connect"
         \/ /\ stage = "archive" /\ stage' = "archive" /\ access # NoFile
            /\ archives' = archives \cup {access} /\ access' = NoFile /\ UNCHANGED pending
         \/ /\ stage = "archive" /\ stage' = "connect" /\ access = NoFile
            /\ access' = pending /\ pending' = NoFile /\ UNCHANGED archives
  BY DEF ChangePassword, Changed, AdoptPending, Archived, Moves, Hears, Types, records, recovery,
    terminal, CommandTypes, Opened, Changing
<1>2. /\ pending \in Access /\ pending = Record(board, pending.password) /\ pending.password \in Passwords
      /\ NoFile \notin Access /\ TornFile \notin Access /\ pending \in Recorded
  BY <1>1, AccessAssumption DEF InCommand, Access, Record, Recorded
<1>3. Recorded \subseteq Recorded'
  BY <1>1, <1>2 DEF Recorded
<1>4. /\ queue' \in [Boards -> Seq(Words \cup Passwords)]
      /\ \A c \in Boards : c # board => Secrets(c)' \subseteq Secrets(c)
      /\ \A c \in Boards : Secrets(c)' \subseteq Secrets(c) \cup {pending.password}
  <2>1. CASE UNCHANGED queue
    BY <2>1 DEF TerminalTypes, Secrets, Lines
  <2>2. CASE \E line \in {"passwd", pending.password} : Types(<<line>>)
    <3> PICK line \in {"passwd", pending.password} : Types(<<line>>)
      BY <2>2
    <3>1. line \in Words \cup Passwords /\ "passwd" \notin Passwords
      BY <1>2, AccessAssumption DEF Words
    <3>2. /\ queue' \in [Boards -> Seq(Words \cup Passwords)]
          /\ \A c \in Boards : c # board => Secrets(c)' = Secrets(c)
          /\ \A c \in Boards : Secrets(c)' \subseteq Secrets(c) \cup {line}
      BY <1>1, <3>1, OneLine, Typing
    <3>3. \A c \in Boards : Secrets(c)' \subseteq Passwords
      BY DEF Secrets
    <3> QED
      BY <3>1, <3>2, <3>3
  <2> QED
    BY <2>1, <2>2 DEF ChangePassword, Changed, AdoptPending, terminal
<1>5. RecordTypes' /\ TerminalTypes'
  BY <1>1, <1>2, <1>4 DEF RecordTypes, TerminalTypes, Changing
<1>6. CommandTypes' /\ InCommand'
  BY <1>1, <1>2 DEF CommandTypes, InCommand, Changing, Fresh, PortOpen, Waiting, Configuring
<1>7. KnownLines'
  <2>1. \A c \in Boards : c = board => pending.password \in Known(c)
    BY <1>2 DEF Known
  <2>2. \A c \in Boards : Known(c) \subseteq Known(c)'
    BY <1>3 DEF Known
  <2> QED
    BY <1>1, <1>4, <2>1, <2>2 DEF KnownLines, Known, Secrets, Lines
<1>8. NeverUnknown'
  BY <1>1, <1>3 DEF NeverUnknown
<1>9. Installing' /\ Opened'
  BY <1>1, <1>2, <1>4 DEF Installing, Opened, Fresh, Changing, Secrets, Lines
<1>10. NoneForPasswd'
  <2>1. ASSUME NEW b \in Boards, b = board, EmptyOnce(b) PROVE EmptyOnce(b)'
    <3>1. CASE UNCHANGED queue
      BY <2>1, <3>1, <1>1 DEF EmptyOnce, Lines
    <3>2. CASE \E line \in {"passwd", pending.password} : Types(<<line>>)
      <4> PICK line \in {"passwd", pending.password} : Types(<<line>>)
        BY <3>2
      <4>1. line \in Words \cup Passwords /\ line # ""
        BY <1>2, AccessAssumption DEF Words
      <4>2. <<line>> \in Seq(Words \cup Passwords) /\ LinesOf(<<line>>) = {line}
        BY <4>1, OneLine
      <4> QED
        BY <1>1, <2>1, <4>1, <4>2, TypingNoEmpty
    <3> QED
      BY <3>1, <3>2 DEF ChangePassword, Changed, AdoptPending, terminal
  <2> QED
    BY <1>1, <2>1 DEF NoneForPasswd, Fresh, Changing
<1> QED
  BY <1>5, <1>6, <1>7, <1>8, <1>9, <1>10

\* A command ends, by itself or not; what it types then is no secret.
LEMMA EndKeeps == ASSUME AccessInv, Connect \/ Abandon \/ HostKilled PROVE AccessInv'
<1> USE DEF AccessInv, Kinds
<1>1. /\ UNCHANGED <<access, pending, archives, backup, digest, flash, password>>
      /\ stage # "idle" /\ board \in Boards /\ opened = NoBoard
      /\ stage' = "idle" /\ command' = "none" /\ board' = NoBoard /\ output' = {}
      /\ opened' = NoBoard \/ (opened' = board /\ stage = "connect" /\ Fresh)
  BY DEF Connect, Abandon, HostKilled, Returns, records, recovery, CommandTypes, Opened,
    Configuring
<1>2. /\ queue' \in [Boards -> Seq(Words \cup Passwords)] /\ UNCHANGED <<tty, typed>>
      /\ \A c \in Boards : Secrets(c)' \subseteq Secrets(c)
  <2>1. CASE Run
    BY <2>1, <1>1, TypingOfRun
  <2>2. CASE UNCHANGED terminal
    BY <2>2 DEF terminal, TerminalTypes, Secrets, Lines
  <2> QED
    BY <2>1, <2>2 DEF Connect, Abandon, HostKilled
<1>3. RecordTypes' /\ TerminalTypes' /\ CommandTypes' /\ InCommand'
  BY <1>1, <1>2 DEF RecordTypes, TerminalTypes, CommandTypes, InCommand, Changing
<1>4. KnownLines' /\ NeverUnknown'
  BY <1>1, <1>2 DEF KnownLines, Known, Recorded, NeverUnknown, Secrets, Lines
<1>5. Installing' /\ Opened'
  <2>1. CASE opened' = NoBoard
    BY <2>1, <1>1 DEF Installing, Opened, Fresh, Changing
  <2>2. CASE opened' = board /\ stage = "connect" /\ Fresh
    <3>1. access = Record(board, password[board]) /\ Secrets(board) \subseteq {password[board]}
      BY <2>2 DEF Installing
    <3>2. access = NoFile => password[board] = Default
      <4>1. NoFile \notin Access
        BY AccessAssumption DEF Access
      <4>2. Record(board, password[board]) \in Access
        BY <1>1, <2>2 DEF Installing, Access, Record
      <4> QED
        BY <3>1, <4>1, <4>2
    <3>3. ASSUME NEW b \in Boards, b = board PROVE Secrets(b)' \subseteq {password[b]}
      BY <3>1, <3>3, <1>2
    <3>4. Opened'
      BY <2>2, <3>1, <3>2, <3>3, <1>1 DEF Opened, InstallOpensBoard, Secrets, Lines
    <3> QED
      BY <3>4, <1>1 DEF Installing, Fresh
  <2> QED
    BY <1>1, <2>1, <2>2
<1>6. NoneForPasswd'
  <2>1. CASE opened' = NoBoard
    BY <2>1, <1>1 DEF NoneForPasswd, Fresh
  <2>2. CASE opened' = board /\ stage = "connect" /\ Fresh
    <3>1. EmptyOnce(board) /\ Run
      BY <2>2, <1>1, AccessAssumption DEF NoneForPasswd, Connect, Abandon, HostKilled, Configuring
    <3>2. ASSUME NEW b \in Boards, b = board PROVE EmptyOnce(b)'
      BY <3>1, <3>2, RunNoEmpty
    <3>3. board \in Boards /\ opened' = board /\ ~Fresh'
      BY <2>2, <1>1 DEF Fresh
    <3> QED
      BY <3>2, <3>3 DEF NoneForPasswd
  <2> QED
    BY <1>1, <2>1, <2>2
<1> QED
  BY <1>3, <1>4, <1>5, <1>6

\* A pending record is dropped only when it does not open its board and is on its way nowhere.
LEMMA InspectKeeps == ASSUME AccessInv, Inspect PROVE AccessInv'
<1> USE DEF AccessInv, Kinds
<1>1. /\ UNCHANGED <<backup, digest, flash, password, tty, typed, queue, stage, command, board, output>>
      /\ stage = "idle" /\ pending # NoFile /\ pending' = NoFile /\ opened' = NoBoard
  BY DEF Inspect, recovery, terminal
<1>2. \/ pending = TornFile /\ UNCHANGED <<access, archives>>
      \/ /\ pending \in Access /\ queue[pending.board] = <<>>
         /\ \/ /\ password[pending.board] = pending.password
               /\ access' = pending /\ archives' = archives \cup ({access} \ {NoFile})
            \/ password[pending.board] # pending.password /\ UNCHANGED <<access, archives>>
  BY <1>1 DEF Inspect, RecordTypes
<1>3. RecordTypes' /\ TerminalTypes' /\ CommandTypes' /\ InCommand'
  BY <1>1, <1>2 DEF RecordTypes, TerminalTypes, CommandTypes, InCommand, Changing, Fresh,
    PortOpen, Waiting, Configuring
<1>4. KnownLines' /\ NeverUnknown'
  <2>1. CASE Recorded \subseteq Recorded'
    BY <1>1, <2>1 DEF KnownLines, Known, NeverUnknown, Secrets, Lines
  <2>2. CASE /\ pending \in Access /\ queue[pending.board] = <<>>
             /\ password[pending.board] # pending.password /\ UNCHANGED <<access, archives>>
    <3>1. Recorded \subseteq Recorded' \cup {pending}
      BY <1>1, <2>2 DEF Recorded
    <3>2. pending.board \in Boards /\ Secrets(pending.board) = {}
      BY <2>2, NoLines DEF Access, Secrets, Lines
    <3>3. ASSUME NEW b \in Boards, NEW p \in Passwords, b # pending.board \/ p # pending.password
          PROVE  Record(b, p) \in Recorded => Record(b, p) \in Recorded'
      <4>1. Record(b, p) # pending
        BY <3>3, <2>2 DEF Record, Access
      <4> QED
        BY <3>1, <4>1
    <3>4. ASSUME NEW b \in Boards PROVE Secrets(b)' \subseteq Known(b)'
      <4>1. CASE b = pending.board
        BY <4>1, <3>2, <1>1 DEF Secrets, Lines
      <4>2. CASE b # pending.board
        BY <4>2, <3>3, <1>1 DEF KnownLines, Known, Secrets, Lines
      <4> QED
        BY <4>1, <4>2
    <3>5. KnownLines'
      BY <3>4, <1>1 DEF KnownLines
    <3>6. ASSUME NEW b \in Boards, password[b] \notin {Default, ""} PROVE Record(b, password[b]) \in Recorded'
      <4>1. password[b] \in Passwords /\ Record(b, password[b]) \in Recorded
        BY <3>6 DEF TerminalTypes, NeverUnknown
      <4>2. b # pending.board \/ password[b] # pending.password
        BY <2>2
      <4> QED
        BY <3>3, <4>1, <4>2
    <3> QED
      BY <3>5, <3>6, <1>1 DEF NeverUnknown
  <2>3. CASE pending = TornFile /\ UNCHANGED <<access, archives>>
    <3>1. Recorded \subseteq Recorded'
      BY <2>3, <1>1 DEF Recorded
    <3> QED
      BY <2>1, <3>1
  <2>4. CASE access' = pending /\ archives' = archives \cup ({access} \ {NoFile}) /\ pending \in Access
    <3>1. Recorded \subseteq Recorded'
      BY <2>4, <1>1, AccessAssumption DEF Recorded, RecordTypes, Access
    <3> QED
      BY <2>1, <3>1
  <2> QED
    BY <1>2, <2>2, <2>3, <2>4
<1>5. Installing' /\ Opened' /\ NoneForPasswd'
  BY <1>1 DEF Installing, Opened, NoneForPasswd, Fresh, Changing, CommandTypes
<1> QED
  BY <1>3, <1>4, <1>5
-----------------------------------------------------------------------------
\* The boards have their stock firmware and the default password, and there is no record.
LEMMA AccessBegins == AccessInit => AccessInv
<1> SUFFICES ASSUME AccessInit PROVE AccessInv
  OBVIOUS
<1>1. RecordTypes /\ CommandTypes
  BY DEF AccessInit, RecordTypes, CommandTypes
<1>2. TerminalTypes /\ \A b \in Boards : Secrets(b) = {} /\ tty[b] = "off"
  BY NoLines DEF AccessInit, TerminalTypes, Secrets, Lines
<1>3. InCommand /\ KnownLines /\ NeverUnknown /\ Installing /\ Opened /\ NoneForPasswd
  BY <1>2 DEF AccessInit, InCommand, KnownLines, NeverUnknown, Installing, Opened, NoneForPasswd,
    Fresh, Changing
<1> QED
  BY <1>1, <1>2, <1>3 DEF AccessInv, Kinds

LEMMA AccessStep == ASSUME AccessInv, [AccessNext]_accessVars PROVE AccessInv'
<1>1. CASE UNCHANGED accessVars
  <2> USE <1>1 DEF accessVars, AccessInv, Kinds
  <2>1. RecordTypes' /\ TerminalTypes'
    BY DEF RecordTypes, TerminalTypes
  <2>2. CommandTypes' /\ InCommand'
    BY DEF CommandTypes, InCommand, Fresh, PortOpen, Changing
  <2>3. KnownLines' /\ NeverUnknown'
    BY DEF KnownLines, Known, Recorded, NeverUnknown, Secrets, Lines
  <2>4. Installing' /\ Opened' /\ NoneForPasswd'
    BY DEF Installing, Opened, InstallOpensBoard, NoneForPasswd, AtBoot, EmptyOnce, Fresh,
      Changing, Secrets, Lines
  <2> QED
    BY <2>1, <2>2, <2>3, <2>4
<1>2. CASE AccessNext
  BY <1>2, AnswerKeeps, RebootKeeps, StartKeeps, FlashKeeps, LoginKeeps, RenameKeeps,
    SavePendingKeeps, ChangeKeeps, EndKeeps, InspectKeeps DEF AccessNext
<1> QED
  BY <1>1, <1>2

LEMMA AccessAlways == AccessSpec => []AccessInv
BY AccessBegins, AccessStep, PTL DEF AccessSpec
-----------------------------------------------------------------------------
\* Whatever is interrupted, root's password on every board is the default, empty, or in a record
\* (network.py:89-125): no password this code chose is lost.
THEOREM NoPasswordLost == AccessSpec => []NeverUnknown
<1>1. AccessInv => NeverUnknown
  BY DEF AccessInv
<1> QED
  BY <1>1, AccessAlways, PTL

\* After an install that succeeded the next login to its board finds the right password, whatever
\* passwd accepts (cli.py:104-116, network.py:93-125).
THEOREM InstallsOpen == AccessSpec => []InstallOpensBoard
<1>1. AccessInv => InstallOpensBoard
  BY DEF AccessInv, Opened, InstallOpensBoard
<1> QED
  BY <1>1, AccessAlways, PTL

\* The backups need no fact about the terminals.
FlashTypes ==
  /\ flash \in [Boards -> {"stock", "torn", "image"}]
  /\ backup \in [Boards -> {"absent", "partial", "stock"}]
  /\ digest \in [Boards -> {"absent", "partial", "whole"}]
\* The flash is written once a whole backup of the stock firmware is there.
BackedUp == stage = "write" => GoodBackup(board)
StockInv == FlashTypes /\ BackedUp /\ StockKept /\ (stage # "idle" => board \in Boards)

LEMMA StockStep == StockInv /\ [AccessNext]_accessVars => StockInv'
<1> SUFFICES ASSUME StockInv, [AccessNext]_accessVars PROVE StockInv'
  OBVIOUS
<1> USE DEF StockInv
<1>1. CASE ReuseBackup \/ ReadBackup \/ VerifyBackup \/ WriteFlash
  BY <1>1 DEF FlashTypes, BackedUp, StockKept, GoodBackup, ReuseBackup, ReadBackup, VerifyBackup,
    WriteFlash, Moves, Dies, Returns, recovery
<1>2. ASSUME NEW b \in Boards, NEW c \in Commands, Start(c, b) PROVE StockInv'
  BY <1>2 DEF FlashTypes, BackedUp, StockKept, GoodBackup, Start, recovery
<1>3. CASE /\ UNCHANGED <<flash, recovery>> /\ stage' # "write"
           /\ (stage' = "idle" \/ UNCHANGED board)
           /\ (stage = "idle" => stage' = "idle")
  BY <1>3 DEF FlashTypes, BackedUp, StockKept, recovery
<1>4. CASE UNCHANGED <<flash, recovery, stage, board>>
  BY <1>4 DEF FlashTypes, BackedUp, StockKept, GoodBackup, recovery
<1>5. ASSUME NEW b \in Boards, Answer(b) \/ Reboot(b) PROVE StockInv'
  BY <1>4, <1>5 DEF Answer, Reboot, commandVars
<1>6. CASE UNCHANGED accessVars \/ Inspect
  BY <1>4, <1>6 DEF accessVars, Inspect, recovery
<1>7. CASE Knock \/ Login \/ LoggedIn \/ Rename \/ Secured \/ SavePending \/ ChangePassword \/ Changed
           \/ AdoptPending \/ Connect \/ Abandon \/ HostKilled
  BY <1>3, <1>7 DEF Knock, Login, LoggedIn, Rename, Secured, SavePending, ChangePassword, Changed,
    AdoptPending, Connect, Abandon, HostKilled, Moves, Dies, Returns, Configuring
<1> QED
  BY <1>1, <1>2, <1>5, <1>6, <1>7 DEF AccessNext

\* No board is written to before its stock firmware is backed up, and no backup is replaced
\* (cli.py:92-107).
THEOREM StockIsKept == AccessSpec => []StockKept
<1>1. AccessInit => StockInv
  BY DEF AccessInit, StockInv, FlashTypes, BackedUp, StockKept
<1>2. StockInv => StockKept
  BY DEF StockInv
<1> QED
  BY <1>1, <1>2, StockStep, PTL DEF AccessSpec
=============================================================================
