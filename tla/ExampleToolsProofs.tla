--------------------------- MODULE ExampleToolsProofs ---------------------------
(***************************************************************************)
(* Theorems of the two halves of runtime/fx_example_tools.c: the file tools *)
(* (ProjectTools), for all contents, sizes and process ids, and run_tests   *)
(* (TestRunner), for every limit, reserve and size of the pipe.             *)
(*                                                                         *)
(* The file tools.  A replacement that has not failed is complete from      *)
(* "sync" on, and synchronised from "close" on (InFlight); only then is it  *)
(* given the name.  So neither the file nor what a loss of power may make   *)
(* of it is ever partial, and until the rename, which is the last thing a   *)
(* call does to a file, the project is what it was before (InCall).         *)
(*                                                                         *)
(* run_tests.  Every path to a return goes through the kill and the wait    *)
(* (Processes), both guards are out until then (Lent), and every byte that  *)
(* was written is in the reply or in the pipe until the end of the output,  *)
(* after which nobody is left to write (Counted).                           *)
(***************************************************************************)
EXTENDS ProjectTools, TestRunner, TLAPS

\* What is known of the temporary file while a replacement writes it.
InFlight ==
  pc \in {"write", "sync", "close", "rename"} =>
    /\ temp[pid].of = call.content /\ temp[pid].len = used /\ temp[pid] # NoFile
    /\ used <= Length
    /\ pc # "write" /\ ~failed => used = Length
    /\ pc \in {"close", "rename"} /\ ~failed => temp[pid].synced

\* A call in progress belongs to a process, has not answered and changed nothing.
InCall ==
  pc # "idle" =>
    /\ pid \in Pids /\ project = before /\ reply = NoReply
    /\ pc \in {"open", "create"} => used = 0 /\ ~failed
    /\ pc = "write" => ~failed
    /\ pc = "read" => used <= File.len

DiskWhole == \A f \in disk : f.len = Size[f.of]

IInv == TypeOK /\ FilesWhole /\ DiskWhole /\ InFlight /\ InCall /\ RepliesTrue
-----------------------------------------------------------------------------
\* A text, or the -3 in its place, is a reply without a file.
LEMMA TextIsReply ==
  ASSUME NEW text \in Texts, NEW cap \in Nat
  PROVE  /\ Text(text, cap) \in [text : Texts \cup {"file", "garbled", None}, got : Prefix \cup {Nothing}]
         /\ Text(text, cap).text \in {text, None}
BY DEF Text

\* The first state satisfies the invariant.
LEMMA InitHolds == Init => IInv
<1> SUFFICES ASSUME Init PROVE IInv
  OBVIOUS
<1>1. \A p \in Paths : Whole(Original[p]) \in Prefix /\ Whole(Original[p]).len = Size[Whole(Original[p]).of]
  BY ToolsAssumption DEF Whole, Prefix
<1>2. project \in [Paths -> Prefix] /\ FilesWhole
  BY <1>1 DEF Init, FilesWhole
<1>3. TypeOK
  BY <1>2 DEF Init, TypeOK, NoReply, TempFile, Paths
<1>4. DiskWhole
  BY <1>2 DEF Init, DiskWhole, FilesWhole, Paths
<1>5. InFlight /\ InCall
  BY DEF Init, InFlight, InCall
<1>6. RepliesTrue
  BY DEF Init, RepliesTrue, NoReply, None
<1> QED
  BY <1>2, <1>3, <1>4, <1>5, <1>6 DEF IInv
-----------------------------------------------------------------------------
\* A call begins: the history is taken, nothing is open.
LEMMA CallKeeps == IInv /\ (\E c \in Calls : Call(c)) => IInv'
<1> SUFFICES ASSUME IInv, NEW c \in Calls, Call(c) PROVE IInv'
  OBVIOUS
<1> USE DEF IInv
<1>1. c.cap \in Nat /\ "invalid" \in Texts
  BY ToolsAssumption DEF Calls, Texts
<1>2. /\ reply' \in [text : Texts \cup {"file", "garbled", None}, got : Prefix \cup {Nothing}]
      /\ reply'.text \in {"invalid", None}
  BY <1>1, TextIsReply DEF Call, Return, NoReply
<1>3. pid # None /\ pid \in Pids
  BY DEF Call, At, TypeOK
<1>4. TypeOK'
  BY <1>2 DEF TypeOK, Call, Return, files
<1>5. FilesWhole' /\ DiskWhole'
  BY DEF Call, files, FilesWhole, DiskWhole
<1>6. InFlight' /\ InCall'
  BY <1>3 DEF Call, Return, files, InFlight, InCall
<1>7. RepliesTrue'
  BY <1>2 DEF Call, files, RepliesTrue, None
<1> QED
  BY <1>4, <1>5, <1>6, <1>7

\* open and the checks: only a replacement of battery.sh goes on to write.
LEMMA OpenKeeps == IInv /\ Open => IInv'
<1> SUFFICES ASSUME IInv, Open PROVE IInv'
  OBVIOUS
<1> USE DEF IInv
<1>1. call.cap \in Nat /\ "denied" \in Texts
  BY ToolsAssumption DEF TypeOK, Calls, Texts
<1>2. CASE Deny
  <2>1. /\ reply' \in [text : Texts \cup {"file", "garbled", None}, got : Prefix \cup {Nothing}]
        /\ reply'.text \in {"denied", None}
    BY <1>1, <1>2, TextIsReply DEF Deny, Return
  <2> QED
    BY <1>2, <2>1 DEF Open, At, Deny, Return, files, TypeOK, FilesWhole, DiskWhole,
                      InFlight, InCall, RepliesTrue, None
<1>3. CASE Skip("read") \/ Skip("create")
  <2>1. pid \in Pids /\ used = 0 /\ ~failed /\ reply = NoReply /\ project = before
    BY DEF Open, At, InCall
  <2>2. File.len \in Nat
    BY DEF File, TypeOK, Calls, Prefix
  <2>3. TypeOK'
    BY <1>1, <1>3, <2>1 DEF Open, Skip, files, TypeOK
  <2>4. InFlight' /\ InCall' /\ RepliesTrue'
    BY <1>3, <2>1, <2>2 DEF Open, Skip, files, InFlight, InCall, RepliesTrue, File
  <2> QED
    BY <2>3, <2>4 DEF Open, files, FilesWhole, DiskWhole
<1> QED
  BY <1>2, <1>3 DEF Open

\* The steps of read_project touch no file.
LEMMA ReadingKeeps == IInv /\ (Read \/ ReadEnd \/ ReadTooLong \/ ReadFails) => IInv'
<1> SUFFICES ASSUME IInv, Read \/ ReadEnd \/ ReadTooLong \/ ReadFails PROVE IInv'
  OBVIOUS
<1> USE DEF IInv
<1>1. /\ pc = "read" /\ pid \in Pids /\ project = before /\ used <= File.len
      /\ reply = NoReply /\ UNCHANGED <<pid, call, failed, project, temp, disk, before>>
  BY DEF Read, ReadEnd, ReadTooLong, ReadFails, At, InCall, files
<1>2. call.cap \in Nat /\ "denied" \in Texts /\ File \in Prefix /\ File.of \in Contents /\ File.len \in Nat
  BY ToolsAssumption DEF TypeOK, Calls, Texts, File, Prefix
<1>3. FilesWhole' /\ DiskWhole'
  BY <1>1 DEF FilesWhole, DiskWhole
<1>4. CASE Read
  <2>1. PICK n \in 1 .. (Bound - used) : used + n <= File.len /\ used' = used + n
    BY <1>4 DEF Read
  <2>2. used \in Nat /\ FileLimit \in Nat /\ Bound \in Nat /\ Bound <= call.cap
    BY <1>2, ToolsAssumption DEF TypeOK, Bound
  <2>3. used' \in Nat /\ used' <= call.cap /\ used' <= File.len
    BY <1>2, <2>1, <2>2
  <2>4. pc' = "read" /\ reply' = reply
    BY <1>4 DEF Read, Skip
  <2>5. TypeOK'
    BY <1>1, <2>3, <2>4 DEF TypeOK
  <2>6. InFlight' /\ InCall' /\ RepliesTrue'
    BY <1>1, <2>3, <2>4 DEF InFlight, InCall, RepliesTrue, File
  <2> QED
    BY <1>3, <2>5, <2>6
<1>5. CASE ReadEnd
  <2>1. used = File.len /\ used' = used /\ pc' = "idle"
        /\ reply' = [text |-> "file", got |-> [of |-> File.of, len |-> used]]
    BY <1>5 DEF ReadEnd, AtEnd, Return
  <2>2. reply'.got = File /\ reply'.text = "file" /\ [of |-> File.of, len |-> used] \in Prefix
    BY <1>2, <2>1 DEF Prefix
  <2>3. TypeOK'
    BY <1>1, <2>1, <2>2 DEF TypeOK
  <2>4. RepliesTrue'
    BY <1>1, <2>2 DEF RepliesTrue, File
  <2> QED
    BY <1>3, <2>1, <2>3, <2>4 DEF InFlight, InCall
<1>6. CASE ReadTooLong \/ ReadFails
  <2>1. /\ reply' \in [text : Texts \cup {"file", "garbled", None}, got : Prefix \cup {Nothing}]
        /\ reply'.text \in {"denied", "garbled", None} /\ pc' = "idle" /\ used' = used
    BY <1>2, <1>6, TextIsReply DEF ReadTooLong, ReadFails, Deny, Return, NoReply
  <2> QED
    BY <1>1, <1>3, <2>1 DEF TypeOK, InFlight, InCall, RepliesTrue, None
<1> QED
  BY <1>4, <1>5, <1>6

\* The temporary file of the call in progress.
LEMMA OwnFile ==
  ASSUME IInv, pc \in {"write", "sync", "close", "rename"}
  PROVE  /\ pid \in Pids /\ project = before /\ reply = NoReply
         /\ call.content \in Contents /\ Length \in Nat /\ used \in Nat
         /\ temp[pid] \in [of : Contents, len : Nat, synced : BOOLEAN]
<1> USE DEF IInv
<1>1. pid \in Pids /\ temp[pid] \in TempFile /\ temp[pid] # NoFile
  BY DEF InCall, InFlight, TypeOK
<1> QED
  BY <1>1, ToolsAssumption DEF InCall, TypeOK, TempFile, Calls, Length

\* Creating the temporary file, and writing it piece by piece.
LEMMA WritingKeeps == IInv /\ (Create \/ Write \/ WriteDone) => IInv'
<1> SUFFICES ASSUME IInv, Create \/ Write \/ WriteDone PROVE IInv'
  OBVIOUS
<1> USE DEF IInv
<1>0. /\ pid \in Pids /\ project = before /\ reply = NoReply
      /\ call.content \in Contents /\ Length \in Nat /\ used \in Nat
      /\ call.cap \in Nat /\ "denied" \in Texts
      /\ UNCHANGED <<pid, call, project, disk, before>>
  BY ToolsAssumption DEF Create, Write, WriteDone, At, InCall, TypeOK, Calls, Length, files, Texts
<1>1. FilesWhole' /\ DiskWhole'
  BY <1>0 DEF FilesWhole, DiskWhole
<1>2. CASE Create /\ Deny
  <2>1. /\ reply' \in [text : Texts \cup {"file", "garbled", None}, got : Prefix \cup {Nothing}]
        /\ reply'.text \in {"denied", None} /\ pc' = "idle"
    BY <1>0, <1>2, TextIsReply DEF Deny, Return
  <2>2. temp' \in [Pids -> TempFile]
    <3>1. [of |-> call.content, len |-> 0, synced |-> FALSE] \in TempFile
      BY <1>0 DEF TempFile
    <3> QED
      BY <1>0, <1>2, <3>1 DEF Create, TypeOK
  <2> QED
    BY <1>0, <1>1, <1>2, <2>1, <2>2 DEF Create, TypeOK, InFlight, InCall, RepliesTrue, None
<1>3. CASE Create /\ Skip("write")
  <2> DEFINE new == [of |-> call.content, len |-> 0, synced |-> FALSE]
  <2>1. pc = "create" /\ used = 0 /\ ~failed /\ used' = used /\ failed' = failed /\ pc' = "write"
        /\ reply' = reply
    BY <1>3 DEF Create, At, InCall, Skip
  <2>2. temp' = [temp EXCEPT ![pid] = new]
    BY <1>0, <1>3 DEF Create, Skip, Deny, Return
  <2>3. new \in [of : Contents, len : Nat, synced : BOOLEAN] /\ new # NoFile
    BY <1>0, ToolsAssumption DEF NoFile
  <2>4. temp' \in [Pids -> TempFile] /\ temp'[pid] = new
    BY <1>0, <2>2, <2>3 DEF TypeOK, TempFile
  <2>5. TypeOK'
    BY <1>0, <2>1, <2>4 DEF TypeOK
  <2>6. InFlight'
    BY <1>0, <2>1, <2>3, <2>4 DEF InFlight, Length
  <2>7. InCall' /\ RepliesTrue'
    BY <1>0, <2>1 DEF InCall, RepliesTrue, NoReply, None
  <2> QED
    BY <1>1, <2>5, <2>6, <2>7
<1>4. CASE Write
  <2>1. PICK n \in 1 .. (Length - used) :
          used' = used + n /\ temp' = [temp EXCEPT ![pid].len = used + n, ![pid].synced = FALSE]
    BY <1>4 DEF Write
  <2>2. /\ pc = "write" /\ ~failed /\ pc' = "write" /\ failed' = failed /\ reply' = reply
        /\ temp[pid].of = call.content
        /\ temp[pid] \in [of : Contents, len : Nat, synced : BOOLEAN]
    BY <1>4, OwnFile DEF Write, At, Skip, InCall, InFlight
  <2>3. used' \in Nat /\ used' <= Length
    BY <1>0, <2>1
  <2> DEFINE new == [temp[pid] EXCEPT !.len = used', !.synced = FALSE]
  <2>4. temp' = [temp EXCEPT ![pid] = new]
    BY <2>1, <1>0 DEF TypeOK
  <2>5. /\ new \in [of : Contents, len : Nat, synced : BOOLEAN]
        /\ new.of = call.content /\ new.len = used'
    BY <2>2, <2>3
  <2>6. new # NoFile
    BY <2>5, ToolsAssumption DEF NoFile
  <2> HIDE DEF new
  <2>7. temp' \in [Pids -> TempFile] /\ temp'[pid] = new
    BY <1>0, <2>4, <2>5 DEF TypeOK, TempFile
  <2>8. TypeOK'
    BY <1>0, <2>2, <2>3, <2>7 DEF TypeOK
  <2>9. InFlight'
    BY <1>0, <2>2, <2>3, <2>5, <2>6, <2>7 DEF InFlight, Length
  <2>10. InCall' /\ RepliesTrue'
    BY <1>0, <2>2 DEF InCall, RepliesTrue, NoReply, None
  <2> QED
    BY <1>1, <2>8, <2>9, <2>10
<1>5. CASE WriteDone
  <2>1. /\ pc = "write" /\ pc' = "sync" /\ reply' = reply /\ used' = used /\ temp' = temp
        /\ failed' \in BOOLEAN /\ (~failed' => used = Length)
    BY <1>5 DEF WriteDone, At, Skip, files, TypeOK
  <2> QED
    BY <1>0, <1>1, <2>1 DEF TypeOK, InFlight, InCall, RepliesTrue, Length, NoReply, None
<1> QED
  BY <1>2, <1>3, <1>4, <1>5 DEF Create

\* fsync and close can fail, and change no file of the project.
LEMMA ClosingKeeps == IInv /\ (Sync \/ Close) => IInv'
<1> SUFFICES ASSUME IInv, Sync \/ Close PROVE IInv'
  OBVIOUS
<1> USE DEF IInv
<1>1. /\ pc \in {"sync", "close"} /\ reply' = reply
      /\ UNCHANGED <<pid, call, used, project, disk, before>>
      /\ failed' \in BOOLEAN /\ (~failed' => ~failed)
  BY DEF Sync, Close, At, Skip, TypeOK, files
<1>2. /\ pid \in Pids /\ project = before /\ reply = NoReply
      /\ temp[pid] \in [of : Contents, len : Nat, synced : BOOLEAN]
  BY <1>1, OwnFile
<1>3. FilesWhole' /\ DiskWhole'
  BY <1>1 DEF FilesWhole, DiskWhole
<1>4. RepliesTrue'
  BY <1>1, <1>2 DEF RepliesTrue, NoReply, None
<1>5. CASE Sync /\ UNCHANGED temp
  BY <1>1, <1>2, <1>3, <1>4, <1>5
     DEF Sync, At, Skip, TypeOK, InFlight, InCall, Length
<1>6. CASE Sync /\ temp' = [temp EXCEPT ![pid].synced = TRUE]
  <2> DEFINE new == [temp[pid] EXCEPT !.synced = TRUE]
  <2>1. /\ new \in [of : Contents, len : Nat, synced : BOOLEAN]
        /\ new.of = temp[pid].of /\ new.len = temp[pid].len /\ new.synced
    BY <1>2
  <2>2. new # NoFile
    BY <2>1, ToolsAssumption DEF NoFile
  <2>3. temp' = [temp EXCEPT ![pid] = new]
    BY <1>2, <1>6 DEF TypeOK
  <2> HIDE DEF new
  <2>4. temp' \in [Pids -> TempFile] /\ temp'[pid] = new
    BY <1>2, <2>1, <2>3 DEF TypeOK, TempFile
  <2>5. pc = "sync" /\ pc' = "close"
    BY <1>6 DEF Sync, At, Skip
  <2>6. TypeOK' /\ InCall'
    BY <1>1, <1>2, <2>4, <2>5 DEF TypeOK, InCall
  <2>7. InFlight'
    BY <1>1, <1>2, <2>1, <2>2, <2>4, <2>5 DEF InFlight, Length
  <2> QED
    BY <1>3, <1>4, <2>6, <2>7
<1>7. CASE Close
  BY <1>1, <1>2, <1>3, <1>4, <1>7
     DEF Close, At, Skip, files, TypeOK, InFlight, InCall, Length
<1> QED
  BY <1>5, <1>6, <1>7 DEF Sync

\* The rename gives the name to a whole, synchronised file, and the call says so;
\* or the temporary file is discarded, and nothing has changed.
LEMMA RenameKeeps == IInv /\ (Rename \/ Discard) => IInv'
<1> SUFFICES ASSUME IInv, Rename \/ Discard PROVE IInv'
  OBVIOUS
<1> USE DEF IInv
<1>1. pc = "rename" /\ pc' = "idle" /\ UNCHANGED <<pid, call, used, failed, before>>
  BY DEF Rename, Discard, Return, Deny, At
<1>2. /\ pid \in Pids /\ project = before /\ call.content \in Contents
      /\ temp[pid] \in [of : Contents, len : Nat, synced : BOOLEAN]
      /\ call.cap \in Nat /\ {"denied", "wrote"} \subseteq Texts
  BY <1>1, OwnFile, ToolsAssumption DEF TypeOK, Calls, Texts
<1>3. NoFile \in TempFile
  BY DEF TempFile
<1>4. InFlight' /\ InCall'
  BY <1>1 DEF InFlight, InCall
<1>5. CASE Rename
  <2> DEFINE new == [of |-> temp[pid].of, len |-> temp[pid].len]
  <2>1. new = Whole(call.content) /\ temp[pid].synced
    BY <1>1, <1>5 DEF Rename, InFlight, Whole, Length
  <2>2. new \in Prefix /\ new.len = Size[new.of]
    BY <1>2, <2>1 DEF Prefix, Whole
  <2>3. Durable(temp[pid]) = {new}
    BY <1>2, <2>1 DEF Durable
  <2>4. project' = [project EXCEPT !["battery.sh"] = new] /\ disk' = disk \cup {new}
        /\ temp' = [temp EXCEPT ![pid] = NoFile] /\ reply' = Text("wrote", call.cap)
    BY <1>5, <2>3 DEF Rename, Return
  <2> HIDE DEF new
  <2>5. FilesWhole' /\ DiskWhole'
    BY <2>2, <2>4 DEF FilesWhole, DiskWhole, TypeOK, Paths
  <2>6. /\ reply' \in [text : Texts \cup {"file", "garbled", None}, got : Prefix \cup {Nothing}]
        /\ reply'.text \in {"wrote", None}
    BY <1>2, <2>4, TextIsReply
  <2>7. TypeOK'
    BY <1>1, <1>2, <1>3, <2>2, <2>4, <2>6 DEF TypeOK
  <2>8. RepliesTrue'
    BY <1>1, <1>2, <2>1, <2>4, <2>6 DEF RepliesTrue, Whole, None
  <2> QED
    BY <1>4, <2>5, <2>7, <2>8
<1>6. CASE Discard
  <2>1. /\ reply' \in [text : Texts \cup {"file", "garbled", None}, got : Prefix \cup {Nothing}]
        /\ reply'.text \in {"denied", None}
    BY <1>2, <1>6, TextIsReply DEF Discard, Deny, Return
  <2>2. temp' \in [Pids -> TempFile]
    BY <1>3, <1>6 DEF Discard, TypeOK
  <2>3. UNCHANGED <<project, disk>>
    BY <1>6 DEF Discard
  <2>4. TypeOK'
    BY <1>1, <2>1, <2>2, <2>3 DEF TypeOK
  <2>5. FilesWhole' /\ DiskWhole' /\ RepliesTrue'
    BY <1>1, <1>2, <2>1, <2>3 DEF FilesWhole, DiskWhole, RepliesTrue, None
  <2> QED
    BY <1>4, <2>4, <2>5
<1> QED
  BY <1>5, <1>6

\* The end of a process, its successor, the kernel's write-back, a loss of power.
LEMMA SurroundingsKeep ==
  IInv /\ (Die \/ (\E p \in Pids : StartProcess(p)) \/ WriteBack \/ LosePower) => IInv'
<1> SUFFICES ASSUME IInv, Die \/ (\E p \in Pids : StartProcess(p)) \/ WriteBack \/ LosePower
             PROVE  IInv'
  OBVIOUS
<1> USE DEF IInv
<1>1. NoReply \in [text : Texts \cup {"file", "garbled", None}, got : Prefix \cup {Nothing}]
      /\ NoReply.text = None
  BY DEF NoReply
<1>2. CASE Die
  BY <1>1, <1>2 DEF Die, files, TypeOK, FilesWhole, DiskWhole, InFlight, InCall, RepliesTrue, None
<1>3. ASSUME NEW p \in Pids, StartProcess(p) PROVE IInv'
  <2>1. pc = "idle"
    BY <1>3, ToolsAssumption DEF StartProcess, InCall
  <2> QED
    BY <1>3, <2>1 DEF StartProcess, files, TypeOK, FilesWhole, DiskWhole, InFlight, InCall,
                      RepliesTrue, File
<1>4. CASE WriteBack
  <2> DEFINE new(p) == IF temp[p] = NoFile THEN NoFile ELSE [temp[p] EXCEPT !.synced = TRUE]
  <2>1. ASSUME NEW p \in Pids
        PROVE  /\ new(p) \in TempFile /\ new(p).of = temp[p].of /\ new(p).len = temp[p].len
               /\ temp[p] # NoFile => new(p) # NoFile /\ new(p).synced
    <3>1. CASE temp[p] = NoFile
      BY <3>1 DEF TempFile, NoFile
    <3>2. CASE temp[p] # NoFile
      <4>1. temp[p] \in [of : Contents, len : Nat, synced : BOOLEAN]
        BY <3>2 DEF TypeOK, TempFile
      <4>2. new(p) = [temp[p] EXCEPT !.synced = TRUE]
        BY <3>2
      <4> QED
        BY <4>1, <4>2, ToolsAssumption DEF TempFile, NoFile
    <3> QED
      BY <3>1, <3>2
  <2>2. /\ temp' = [p \in Pids |-> new(p)] /\ disk' = {project["battery.sh"]}
        /\ UNCHANGED <<pid, pc, call, used, failed, reply, project, before>>
    BY <1>4 DEF WriteBack
  <2> HIDE DEF new
  <2>3. project["battery.sh"] \in Prefix
    BY DEF TypeOK, Paths
  <2>4. TypeOK'
    BY <2>1, <2>2, <2>3 DEF TypeOK
  <2>5. FilesWhole' /\ DiskWhole'
    BY <2>2 DEF FilesWhole, DiskWhole, Paths
  <2>6. InFlight'
    BY <2>1, <2>2 DEF InFlight, InCall, Length
  <2>7. InCall' /\ RepliesTrue'
    BY <2>2 DEF InCall, RepliesTrue, File
  <2> QED
    BY <2>4, <2>5, <2>6, <2>7
<1>5. CASE LosePower
  <2>1. PICK f \in disk :
          project' = [project EXCEPT !["battery.sh"] = f] /\ disk' = {f}
    BY <1>5 DEF LosePower
  <2>2. f \in Prefix /\ f.len = Size[f.of]
    BY DEF TypeOK, DiskWhole
  <2>3. temp' \in [Pids -> TempFile]
    BY <1>5 DEF LosePower, TypeOK, TempFile
  <2>4. FilesWhole' /\ DiskWhole'
    BY <2>1, <2>2 DEF FilesWhole, DiskWhole, TypeOK, Paths
  <2>5. TypeOK'
    BY <1>1, <1>5, <2>1, <2>2, <2>3 DEF LosePower, TypeOK
  <2> QED
    BY <1>1, <1>5, <2>4, <2>5 DEF LosePower, InFlight, InCall, RepliesTrue, None
<1> QED
  BY <1>2, <1>3, <1>4, <1>5

\* Every step keeps the invariant.
LEMMA StepKeeps == IInv /\ [Next]_vars => IInv'
<1> SUFFICES ASSUME IInv, [Next]_vars PROVE IInv'
  OBVIOUS
<1>1. CASE UNCHANGED vars
  BY <1>1 DEF vars, IInv, TypeOK, FilesWhole, DiskWhole, InFlight, InCall, RepliesTrue, File, Length
<1> QED
  BY <1>1, CallKeeps, OpenKeeps, ReadingKeeps, WritingKeeps, ClosingKeeps, RenameKeeps,
     SurroundingsKeep DEF Next
-----------------------------------------------------------------------------
\* The inductive invariant holds in every state.
THEOREM InvariantHolds == Spec => []IInv
BY InitHolds, StepKeeps, PTL DEF Spec

\* Types are kept, and read_project never fills more than its caller's room.
THEOREM TypeCorrect == Spec => []TypeOK
<1>1. IInv => TypeOK
  BY DEF IInv
<1> QED
  BY <1>1, InvariantHolds, PTL

\* No file of the project is ever found partly written, whichever process is
\* killed where and whenever the power goes.
THEOREM FilesStayWhole == Spec => []FilesWhole
<1>1. IInv => FilesWhole
  BY DEF IInv
<1> QED
  BY <1>1, InvariantHolds, PTL

\* What a call answers is what happened to the files.
THEOREM RepliesAreTrue == Spec => []RepliesTrue
<1>1. IInv => RepliesTrue
  BY DEF IInv
<1> QED
  BY <1>1, InvariantHolds, PTL
-----------------------------------------------------------------------------
(* run_tests. *)

\* What a process may be, what is counted, and the rest of the types.
Kinds ==
  /\ child \in [state : {"none", "running", "exited", "reaped"}, out : BOOLEAN,
                code : {0, 1, KilledCode}, doomed : BOOLEAN]
  /\ desc \in [state : {"none", "live", "doomed"}, out : BOOLEAN]
Sizes ==
  /\ pipe \in [unread : 0 .. PipeSize, reader : BOOLEAN]
  /\ written \in 0 .. Limit + 1 /\ length \in 0 .. Limit - Reserve
Flags ==
  /\ step \in {"guest", "request", "spawn", "reading", "read_over", "waiting", "kill",
               "reap", "rearm"}
  /\ guards \subseteq Guards
  /\ runFailed \in BOOLEAN /\ late \in BOOLEAN
  /\ result \in {"none", "error", "failed", "exit_0", "exit_other"}

\* Where the process and its descendant may be at each step: none outlives a
\* call, and after the kill the process is dead or dying.
Processes ==
  /\ step \in {"guest", "request", "spawn", "rearm"} =>
       child.state \in {"none", "reaped"} /\ desc.state # "live"
  /\ step = "spawn" => ~child.out /\ ~desc.out
  /\ step \in {"reading", "read_over", "waiting", "reap"} =>
       child.state \in {"running", "exited"}
  /\ step = "kill" => child.state # "none"
  /\ step = "kill" /\ ~runFailed => child.state = "reaped"
  /\ step = "reap" => desc.state # "live" /\ (Running => child.doomed)

\* Both guards are out for as long as the call lasts.
Lent == step \notin {"guest", "request"} => guards = {}

\* What was written is in the reply or still in the pipe; past the end of the
\* output all of it is in the reply and nobody is left to write more.
Counted ==
  /\ step \in {"spawn", "reading"} => ~runFailed /\ length + pipe.unread = written
  /\ step \in {"read_over", "waiting", "kill", "reap", "rearm"} /\ ~runFailed =>
       ~Writers /\ length = written

RunInv == Kinds /\ Sizes /\ Flags /\ Processes /\ Lent /\ Counted
-----------------------------------------------------------------------------
\* Whatever a call on the guards leaves is a set of guards.
LEMMA GuardSets ==
  ASSUME guards \subseteq Guards
  PROVE  /\ LendFailed(guards) \subseteq SUBSET Guards
         /\ Rearmed(guards) \subseteq SUBSET Guards
         /\ RearmFailed(guards) \subseteq SUBSET Guards
BY DEF LendFailed, Rearmed, RearmFailed, Unmap, Guards

\* The pipe a call opens, and the one it closes.
LEMMA FreshPipe ==
  /\ NoPipe \in [unread : 0 .. PipeSize, reader : BOOLEAN]
  /\ [unread |-> 0, reader |-> TRUE] \in [unread : 0 .. PipeSize, reader : BOOLEAN]
BY RunnerAssumption DEF NoPipe

\* The guards are mapped and nobody runs.
LEMMA RunBegins == TestInit => RunInv
<1> SUFFICES ASSUME TestInit PROVE RunInv
  OBVIOUS
<1> USE DEF RunInv
<1>1. Kinds
  BY DEF Kinds, TestInit, NoChild, NoDesc, NoPipe, Guards, KilledCode
<1>2. Sizes
  BY RunnerAssumption DEF Sizes, TestInit, NoChild, NoDesc, NoPipe, Guards
<1>3. Flags /\ Lent
  BY RunnerAssumption DEF Flags, Lent, TestInit, NoChild, NoDesc, NoPipe, Guards
<1>4. Processes
  BY DEF Kinds, Flags, Processes, Running, TestInit, NoChild, NoDesc, NoPipe, Guards
<1>5. Counted
  BY RunnerAssumption DEF Kinds, Sizes, Flags, Counted, Writers, TestInit, NoChild, NoDesc,
      NoPipe, Guards
<1> QED
  BY <1>1, <1>2, <1>3, <1>4, <1>5

\* A call begins with nobody alive and both guards lent, or not at all.
LEMMA RunTestsKeeps == RunInv /\ RunTests => RunInv'
<1> SUFFICES ASSUME RunInv, RunTests PROVE RunInv'
  OBVIOUS
<1> USE DEF RunInv
<1>1. child' \in {NoChild, child} /\ desc' \in {desc, [desc EXCEPT !.out = FALSE]}
      /\ pipe' \in {pipe, [unread |-> 0, reader |-> TRUE]} /\ written' = 0 /\ length' = 0
  BY DEF RunTests
<1>2. Kinds' /\ Sizes'
  <2>1. 0 \in 0 .. Limit + 1 /\ 0 \in 0 .. Limit - Reserve
    BY RunnerAssumption
  <2>2. pipe' \in [unread : 0 .. PipeSize, reader : BOOLEAN]
    BY <1>1, FreshPipe DEF Sizes, NoPipe
  <2>3. NoChild \in [state : {"none", "running", "exited", "reaped"}, out : BOOLEAN,
                   code : {0, 1, KilledCode}, doomed : BOOLEAN]
    BY DEF NoChild
  <2>4. [desc EXCEPT !.out = FALSE] \in [state : {"none", "live", "doomed"}, out : BOOLEAN]
    BY DEF Kinds
  <2> QED
    BY <1>1, <2>1, <2>2, <2>3, <2>4 DEF Kinds, Sizes
<1>3. Flags' /\ Lent'
  BY GuardSets, RunnerAssumption DEF Flags, Lent, RunTests, CanLend, CallReturns, NoChild, Guards
<1>4. Processes'
  BY DEF Kinds, Flags, Processes, Running, RunTests, CanLend, CallReturns, NoChild, Guards
<1>5. Counted'
  BY RunnerAssumption DEF Kinds, Sizes, Flags, Counted, Writers, RunTests, CanLend, CallReturns,
      NoChild, Guards
<1> QED
  BY <1>2, <1>3, <1>4, <1>5

\* The process starts, starts as one that failed, or the call is over.
LEMMA SpawnKeeps == RunInv /\ (Spawn \/ SpawnFails) => RunInv'
<1> SUFFICES ASSUME RunInv, Spawn \/ SpawnFails PROVE RunInv'
  OBVIOUS
<1> USE DEF RunInv
<1>1. Kinds'
  <2>1. CASE Spawn
    BY <2>1 DEF Kinds, Spawn, CallReturns, NoChild, NoPipe, group, verdict, KilledCode
  <2>2. CASE SpawnFails
    BY <2>2 DEF Kinds, SpawnFails, CallReturns, NoChild, NoPipe, group, verdict, KilledCode
  <2> QED
    BY <2>1, <2>2
<1>2. Sizes'
  <2>1. pipe' \in {pipe, NoPipe} /\ UNCHANGED <<written, length>>
    BY DEF Spawn, SpawnFails, group, verdict
  <2> QED
    BY <2>1, FreshPipe DEF Sizes
<1>3. Flags' /\ Lent'
  BY GuardSets, RunnerAssumption DEF Flags, Lent, Spawn, SpawnFails, CallReturns, NoChild,
      NoPipe, group, verdict
<1>4. Processes'
  BY DEF Kinds, Flags, Processes, Running, Spawn, SpawnFails, CallReturns, NoChild, NoPipe,
      group, verdict
<1>5. Counted'
  BY RunnerAssumption DEF Kinds, Sizes, Flags, Counted, Writers, Spawn, SpawnFails, CallReturns,
      NoChild, NoPipe, group, verdict
<1> QED
  BY <1>1, <1>2, <1>3, <1>4, <1>5

\* Bytes move from the pipe to the reply, and the reply keeps its reserve.
LEMMA ReadKeeps == RunInv /\ (ReadPiece \/ ReadEof \/ ReadGivesUp \/ ReadError) => RunInv'
<1> SUFFICES ASSUME RunInv, ReadPiece \/ ReadEof \/ ReadGivesUp \/ ReadError PROVE RunInv'
  OBVIOUS
<1> USE DEF RunInv
<1>1. Kinds'
  BY DEF Kinds, ReadPiece, Exceeds, ReadEof, AtEof, PipeEmpty, ReadGivesUp, ReadError, Writers,
      group, verdict, KilledCode
<1>2. Sizes'
  BY RunnerAssumption DEF Sizes, ReadPiece, Exceeds, ReadEof, AtEof, PipeEmpty, ReadGivesUp,
      ReadError, Writers, group, verdict
<1>3. Flags' /\ Lent'
  BY RunnerAssumption DEF Flags, Lent, ReadPiece, Exceeds, ReadEof, AtEof, PipeEmpty,
      ReadGivesUp, ReadError, Writers, group, verdict
<1>4. Processes'
  BY DEF Kinds, Flags, Processes, Running, ReadPiece, Exceeds, ReadEof, AtEof, PipeEmpty,
      ReadGivesUp, ReadError, Writers, group, verdict
<1>5. Counted'
  BY RunnerAssumption DEF Kinds, Sizes, Flags, Counted, Writers, ReadPiece, Exceeds, ReadEof,
      AtEof, PipeEmpty, ReadGivesUp, ReadError, Writers, group, verdict
<1> QED
  BY <1>1, <1>2, <1>3, <1>4, <1>5

\* Only a process that was reaped passes the wait without a failure.
LEMMA WaitKeeps == RunInv /\ (CloseReadEnd \/ WaitReaps \/ WaitGivesUp \/ WaitError) => RunInv'
<1> SUFFICES ASSUME RunInv, CloseReadEnd \/ WaitReaps \/ WaitGivesUp \/ WaitError PROVE RunInv'
  OBVIOUS
<1> USE DEF RunInv
<1>1. Kinds'
  BY DEF Kinds, CloseReadEnd, WaitReaps, WaitGivesUp, WaitError, Reap, group, verdict, KilledCode
<1>2. Sizes'
  BY RunnerAssumption DEF Sizes, CloseReadEnd, WaitReaps, WaitGivesUp, WaitError, Reap, group,
      verdict
<1>3. Flags' /\ Lent'
  BY RunnerAssumption DEF Flags, Lent, CloseReadEnd, WaitReaps, WaitGivesUp, WaitError, Reap,
      group, verdict
<1>4. Processes'
  BY DEF Kinds, Flags, Processes, Running, CloseReadEnd, WaitReaps, WaitGivesUp, WaitError, Reap,
      group, verdict
<1>5. Counted'
  BY RunnerAssumption DEF Kinds, Sizes, Flags, Counted, Writers, CloseReadEnd, WaitReaps,
      WaitGivesUp, WaitError, Reap, group, verdict
<1> QED
  BY <1>1, <1>2, <1>3, <1>4, <1>5

\* The kill dooms what is alive; only then is the process waited for.
LEMMA KillKeeps == RunInv /\ (Kill \/ ReapKilled) => RunInv'
<1> SUFFICES ASSUME RunInv, Kill \/ ReapKilled PROVE RunInv'
  OBVIOUS
<1> USE DEF RunInv
<1>1. Kinds'
  BY DEF Kinds, Kill, ReapKilled, Reap, Running, verdict, KilledCode
<1>2. Sizes'
  BY RunnerAssumption DEF Sizes, Kill, ReapKilled, Reap, Running, verdict
<1>3. Flags' /\ Lent'
  BY RunnerAssumption DEF Flags, Lent, Kill, ReapKilled, Reap, Running, verdict
<1>4. Processes'
  BY DEF Kinds, Flags, Processes, Running, Kill, ReapKilled, Reap, Running, verdict
<1>5. Counted'
  BY RunnerAssumption DEF Kinds, Sizes, Flags, Counted, Writers, Kill, ReapKilled, Reap, Running,
      verdict
<1> QED
  BY <1>1, <1>2, <1>3, <1>4, <1>5

\* The call returns, whatever guards it got back.
LEMMA RearmKeeps == RunInv /\ Rearm => RunInv'
<1> SUFFICES ASSUME RunInv, Rearm PROVE RunInv'
  OBVIOUS
<1> USE DEF RunInv
<1>1. Kinds'
  BY DEF Kinds, Rearm, CallReturns, Outcome, group, KilledCode
<1>2. Sizes'
  BY RunnerAssumption DEF Sizes, Rearm, CallReturns, Outcome, group
<1>3. Flags' /\ Lent'
  BY GuardSets, RunnerAssumption DEF Flags, Lent, Rearm, CallReturns, Outcome, group
<1>4. Processes'
  BY DEF Kinds, Flags, Processes, Running, Rearm, CallReturns, Outcome, group
<1>5. Counted'
  BY RunnerAssumption DEF Kinds, Sizes, Flags, Counted, Writers, Rearm, CallReturns, Outcome, group
<1> QED
  BY <1>1, <1>2, <1>3, <1>4, <1>5

\* The process writes into a pipe somebody reads; a doomed one starts nothing.
LEMMA ChildKeeps == RunInv /\ (ChildWrites \/ ChildClosesOutput \/ ChildForks) => RunInv'
<1> SUFFICES ASSUME RunInv, ChildWrites \/ ChildClosesOutput \/ ChildForks PROVE RunInv'
  OBVIOUS
<1> USE DEF RunInv
<1>1. Kinds'
  <2>1. CASE ChildWrites
    BY <2>1 DEF Kinds, ChildWrites, WriteByte, Running, verdict, KilledCode
  <2>2. CASE ChildClosesOutput
    BY <2>2 DEF Kinds, ChildClosesOutput, WriteByte, Running, verdict, KilledCode
  <2>3. CASE ChildForks
    BY <2>3 DEF Kinds, ChildForks, WriteByte, Running, verdict, KilledCode
  <2> QED
    BY <2>1, <2>2, <2>3
<1>2. Sizes'
  BY RunnerAssumption DEF Sizes, ChildWrites, ChildClosesOutput, ChildForks, WriteByte, Running,
      verdict
<1>3. Flags' /\ Lent'
  BY RunnerAssumption DEF Flags, Lent, ChildWrites, ChildClosesOutput, ChildForks, WriteByte,
      Running, verdict
<1>4. Processes'
  BY DEF Kinds, Flags, Processes, Running, ChildWrites, ChildClosesOutput, ChildForks, WriteByte,
      Running, verdict
<1>5. Counted'
  BY RunnerAssumption DEF Kinds, Sizes, Flags, Counted, Writers, ChildWrites, ChildClosesOutput,
      ChildForks, WriteByte, Running, verdict
<1> QED
  BY <1>1, <1>2, <1>3, <1>4, <1>5

\* It may exit at any time.
LEMMA ChildExitKeeps == RunInv /\ (\E code \in {0, 1, KilledCode} : ChildExits(code)) => RunInv'
<1> SUFFICES ASSUME RunInv, \E code \in {0, 1, KilledCode} : ChildExits(code) PROVE RunInv'
  OBVIOUS
<1> USE DEF RunInv
<1>1. Kinds'
  BY DEF Kinds, ChildExits, Running, verdict, KilledCode
<1>2. Sizes'
  BY RunnerAssumption DEF Sizes, ChildExits, Running, verdict
<1>3. Flags' /\ Lent'
  BY RunnerAssumption DEF Flags, Lent, ChildExits, Running, verdict
<1>4. Processes'
  BY DEF Kinds, Flags, Processes, Running, ChildExits, Running, verdict
<1>5. Counted'
  BY RunnerAssumption DEF Kinds, Sizes, Flags, Counted, Writers, ChildExits, Running, verdict
<1> QED
  BY <1>1, <1>2, <1>3, <1>4, <1>5

\* So may its descendant, which starts nothing either.
LEMMA DescKeeps == RunInv /\ (DescWrites \/ DescClosesOutput \/ DescExits) => RunInv'
<1> SUFFICES ASSUME RunInv, DescWrites \/ DescClosesOutput \/ DescExits PROVE RunInv'
  OBVIOUS
<1> USE DEF RunInv
<1>1. Kinds'
  <2>1. CASE DescWrites
    BY <2>1 DEF Kinds, DescWrites, WriteByte, Surviving, NoDesc, verdict, KilledCode
  <2>2. CASE DescClosesOutput
    BY <2>2 DEF Kinds, DescClosesOutput, WriteByte, Surviving, NoDesc, verdict, KilledCode
  <2>3. CASE DescExits
    BY <2>3 DEF Kinds, DescExits, WriteByte, Surviving, NoDesc, verdict, KilledCode
  <2> QED
    BY <2>1, <2>2, <2>3
<1>2. Sizes'
  BY RunnerAssumption DEF Sizes, DescWrites, DescClosesOutput, DescExits, WriteByte, Surviving,
      NoDesc, verdict
<1>3. Flags' /\ Lent'
  BY RunnerAssumption DEF Flags, Lent, DescWrites, DescClosesOutput, DescExits, WriteByte,
      Surviving, NoDesc, verdict
<1>4. Processes'
  BY DEF Kinds, Flags, Processes, Running, DescWrites, DescClosesOutput, DescExits, WriteByte,
      Surviving, NoDesc, verdict
<1>5. Counted'
  BY RunnerAssumption DEF Kinds, Sizes, Flags, Counted, Writers, DescWrites, DescClosesOutput,
      DescExits, WriteByte, Surviving, NoDesc, verdict
<1> QED
  BY <1>1, <1>2, <1>3, <1>4, <1>5

\* Nothing else changes what the invariant speaks of.
LEMMA ElsewhereKeeps ==
  RunInv /\ (ProviderRequest \/ ProviderAnswer \/ TimePasses \/ UNCHANGED testVars) => RunInv'
<1> SUFFICES ASSUME RunInv, ProviderRequest \/ ProviderAnswer \/ TimePasses \/ UNCHANGED testVars
             PROVE  RunInv'
  OBVIOUS
<1> USE DEF RunInv
<1>1. Kinds'
  BY DEF Kinds, ProviderRequest, ProviderAnswer, TimePasses, testVars, group, verdict, KilledCode
<1>2. Sizes'
  BY RunnerAssumption DEF Sizes, ProviderRequest, ProviderAnswer, TimePasses, testVars, group,
      verdict
<1>3. Flags' /\ Lent'
  BY RunnerAssumption DEF Flags, Lent, ProviderRequest, ProviderAnswer, TimePasses, testVars,
      group, verdict
<1>4. Processes'
  BY DEF Kinds, Flags, Processes, Running, ProviderRequest, ProviderAnswer, TimePasses, testVars,
      group, verdict
<1>5. Counted'
  BY RunnerAssumption DEF Kinds, Sizes, Flags, Counted, Writers, ProviderRequest, ProviderAnswer,
      TimePasses, testVars, group, verdict
<1> QED
  BY <1>1, <1>2, <1>3, <1>4, <1>5

LEMMA RunStep == RunInv /\ [TestNext]_testVars => RunInv'
BY RunTestsKeeps, SpawnKeeps, ReadKeeps, WaitKeeps, KillKeeps, RearmKeeps, ChildKeeps,
  ChildExitKeeps, DescKeeps, ElsewhereKeeps DEF TestNext, Runner, CallFails, Process

LEMMA RunAlways == TestSpec => []RunInv
BY RunBegins, RunStep, PTL DEF TestSpec
-----------------------------------------------------------------------------
\* Types; and the reply has room for the exit line before every return.
THEOREM RunnerTypes == TestSpec => []TestTypeOK
<1>1. RunInv => TestTypeOK
  BY RunnerAssumption DEF RunInv, Kinds, Sizes, Flags, TestTypeOK
<1> QED
  BY <1>1, RunAlways, PTL

\* Between calls the process is reaped and its descendant dead or doomed.
THEOREM NothingSurvives == TestSpec => []NoSurvivors
<1>1. RunInv => NoSurvivors
  BY DEF RunInv, Processes, NoSurvivors
<1> QED
  BY <1>1, RunAlways, PTL

\* The guards stay unmapped while the process may run.
THEOREM GuardsStayLent == TestSpec => []LentWhileRunning
<1>1. RunInv => LentWhileRunning
  BY DEF RunInv, Flags, Processes, Lent, LentWhileRunning
<1> QED
  BY <1>1, RunAlways, PTL

\* A run that reports exit_0 ended so, was read whole and has its guards back.
THEOREM SuccessIsTruthful == TestSpec => TruthfulSuccess
<1>1. ASSUME RunInv, [TestNext]_testVars, step = "rearm", step' = "guest", result' = "exit_0"
      PROVE  child.code = 0 /\ length = written /\ guards' = Guards
  <2>1. Rearm
    BY <1>1 DEF TestNext, Runner, CallFails, Process, testVars, ProviderRequest, ProviderAnswer,
      RunTests, Spawn, SpawnFails, ReadPiece, ReadEof, AtEof, PipeEmpty, ReadGivesUp, ReadError,
      CloseReadEnd, WaitReaps, WaitGivesUp, WaitError, Kill, ReapKilled, ChildWrites, DescWrites,
      ChildClosesOutput, DescClosesOutput, ChildForks, ChildExits, DescExits, TimePasses
  <2> QED
    BY <1>1, <2>1 DEF Rearm, CallReturns, Outcome, Rearmed, RunInv, Counted
<1>2. RunInv /\ [TestNext]_testVars =>
        [(step = "rearm" /\ step' = "guest" /\ result' = "exit_0") =>
           child.code = 0 /\ length = written /\ guards' = Guards]_testVars
  BY <1>1
<1> QED
  BY <1>2, RunAlways, PTL DEF TestSpec, TruthfulSuccess
=============================================================================
