------------------------------ MODULE ProjectTools ------------------------------
(***************************************************************************)
(* read_project and replace_battery of the coding example                   *)
(* (runtime/fx_example_tools.c), in processes that may be killed, on a      *)
(* board that may lose its power, system call by system call.               *)
(*                                                                         *)
(* A file holds a prefix of some content: [of |-> content, len |-> bytes].  *)
(* The file system is the environment.  What is assumed of it: a rename     *)
(* replaces the name at once, and after a loss of power a name stands for   *)
(* what it stood for at some moment since the last write-back, with all     *)
(* the bytes that were synchronised and any number of the others.           *)
(***************************************************************************)
EXTENDS Integers

CONSTANTS
  Contents,    \* contents of project files
  Size,        \* their length in bytes
  Original,    \* what battery.sh and SPEC.md hold at first
  FileLimit,   \* FILE_LIMIT, 4096
  TextBytes,   \* length of the texts "denied", "invalid" and "wrote"
  Caps,        \* room the caller has for the reply
  Pids         \* process ids; they come round again after a reset

Paths == {"battery.sh", "SPEC.md"}    \* test.sh is treated as SPEC.md is
Texts == {"denied", "invalid", "wrote"}
None == "none"

ASSUME ToolsAssumption ==
  /\ Size \in [Contents -> Nat]
  /\ Original \in [Paths -> Contents]
  /\ FileLimit \in Nat
  /\ TextBytes \in [Texts -> Nat]
  /\ Caps \subseteq Nat
  /\ None \notin Contents \cup Pids

VARIABLES
  pid,       \* the running fx-wamr, or None
  pc,        \* the system call its tool call is at, "idle" between calls
  call,      \* the call: tool, path, content, cap
  used,      \* bytes read or written so far
  failed,    \* failed
  reply,     \* the text returned (None for a negative result) and the file read
  project,   \* the files of the project
  temp,      \* the temporary files, by process id
  disk,      \* what a loss of power may make of battery.sh
  before     \* the project when the call began (history)

vars == <<pid, pc, call, used, failed, reply, project, temp, disk, before>>
files == <<project, temp, disk>>

Calls == [tool : {"read_project", "replace_battery"}, path : Paths,
          content : Contents, cap : Caps]
Whole(c) == [of |-> c, len |-> Size[c]]
NoFile == [of |-> None, len |-> 0, synced |-> FALSE]
Nothing == [of |-> None, len |-> 0]
NoReply == [text |-> None, got |-> Nothing]

Init ==
  /\ pid = None /\ pc = "idle" /\ used = 0 /\ failed = FALSE /\ reply = NoReply
  /\ call \in Calls
  /\ project = [p \in Paths |-> Whole(Original[p])] /\ before = project
  /\ temp = [p \in Pids |-> NoFile]
  /\ disk = {project["battery.sh"]}

At(step) == pid # None /\ pc = step
Length == Size[call.content]
File == project[call.path]

\* A text that does not fit the caller's room becomes -3.
Text(text, cap) ==
  [text |-> IF TextBytes[text] > cap THEN None ELSE text, got |-> Nothing]
Return(r) == reply' = r /\ pc' = "idle"
Deny == Return(Text("denied", call.cap))
Skip(step) == reply' = reply /\ pc' = step

\* The arguments are parsed: a content above FILE_LIMIT is invalid, as is
\* anything else that is not exactly what the tool takes; calloc may fail.
Call(c) ==
  /\ At("idle")
  /\ call' = c /\ before' = project /\ used' = 0 /\ failed' = FALSE
  /\ \/ Size[c.content] <= FileLimit /\ reply' = NoReply /\ pc' = "open"
     \/ Return(Text("invalid", c.cap))
     \/ Return(NoReply)
  /\ UNCHANGED <<pid, files>>

\* The path, the directories and the file are checked; what is not a plain file
\* of at most FILE_LIMIT bytes is denied.
Permitted == call.tool = "read_project" \/ call.path = "battery.sh"
Open ==
  /\ At("open")
  /\ \/ Deny
     \/ /\ Permitted /\ File.len <= FileLimit
        /\ \/ call.tool = "read_project" /\ Skip("read")
           \/ call.tool = "replace_battery" /\ Length > 0 /\ Skip("create")
  /\ UNCHANGED <<pid, call, used, failed, files, before>>
-----------------------------------------------------------------------------
\* read_project

\* What the loop may read: what the caller has room for, a file at most.
Bound == IF call.cap < FileLimit THEN call.cap ELSE FileLimit

Read ==
  /\ At("read") /\ used < Bound
  /\ \E n \in 1 .. (Bound - used) : used + n <= File.len /\ used' = used + n
  /\ Skip("read")
  /\ UNCHANGED <<pid, call, failed, files, before>>

\* Faulty: room that is used up is taken for the end of the file.
AtEndOrFull == used = File.len \/ used = Bound
\* read returned 0, in the loop or, when the room is used up, for one byte more.
AtEnd == used = File.len

ReadEnd ==
  /\ At("read") /\ AtEnd
  /\ Return([text |-> "file", got |-> [of |-> File.of, len |-> used]])
  /\ UNCHANGED <<pid, call, used, failed, files, before>>

\* There is more than the caller has room for, or looking for it failed.
ReadTooLong ==
  /\ At("read") /\ used = Bound
  /\ Return(NoReply)
  /\ UNCHANGED <<pid, call, used, failed, files, before>>

\* The text was put down before the file was read: what was read is over it.
ReadFails ==
  /\ At("read") /\ used < Bound
  /\ IF used > 0 /\ Text("denied", call.cap).text = "denied"
     THEN Return([text |-> "garbled", got |-> Nothing])
     ELSE Deny
  /\ UNCHANGED <<pid, call, used, failed, files, before>>
-----------------------------------------------------------------------------
\* replace_battery

\* O_EXCL: a file that is left under this process's name denies the call.
Create ==
  /\ At("create")
  /\ \/ Deny /\ UNCHANGED temp
     \/ /\ temp[pid] = NoFile
        /\ temp' = [temp EXCEPT ![pid] = [of |-> call.content, len |-> 0, synced |-> FALSE]]
        /\ Skip("write")
  /\ UNCHANGED <<pid, call, used, failed, project, disk, before>>

Write ==
  /\ At("write") /\ used < Length
  /\ \E n \in 1 .. (Length - used) :
       /\ used' = used + n
       /\ temp' = [temp EXCEPT ![pid].len = used + n, ![pid].synced = FALSE]
  /\ Skip("write")
  /\ UNCHANGED <<pid, call, failed, project, disk, before>>

WriteDone ==
  /\ At("write")
  /\ \/ used = Length /\ UNCHANGED failed
     \/ used < Length /\ failed' = TRUE
  /\ Skip("sync")
  /\ UNCHANGED <<pid, call, used, files, before>>

\* Faulty: only the mode is set.
SyncNothing ==
  /\ At("sync")
  /\ failed' \in {failed, TRUE}
  /\ Skip("close")
  /\ UNCHANGED <<pid, call, used, files, before>>
\* fchmod and fsync.
Sync ==
  /\ At("sync")
  /\ \/ temp' = [temp EXCEPT ![pid].synced = TRUE] /\ UNCHANGED failed
     \/ failed' = TRUE /\ UNCHANGED temp
  /\ Skip("close")
  /\ UNCHANGED <<pid, call, used, project, disk, before>>

Close ==
  /\ At("close")
  /\ failed' \in {failed, TRUE}
  /\ Skip("rename")
  /\ UNCHANGED <<pid, call, used, files, before>>

\* What a loss of power may make of a file.
Durable(f) ==
  {[of |-> f.of, len |-> n] : n \in IF f.synced THEN {f.len} ELSE 0 .. f.len}

Rename ==
  /\ At("rename") /\ ~failed
  /\ project' = [project EXCEPT !["battery.sh"] = [of |-> temp[pid].of, len |-> temp[pid].len]]
  /\ disk' = disk \cup Durable(temp[pid])
  /\ temp' = [temp EXCEPT ![pid] = NoFile]
  /\ Return(Text("wrote", call.cap))
  /\ UNCHANGED <<pid, call, used, failed, before>>

\* Something failed, the rename too perhaps: the temporary file goes, unless
\* unlink fails as well.
Discard ==
  /\ At("rename")
  /\ temp' \in {temp, [temp EXCEPT ![pid] = NoFile]}
  /\ Deny
  /\ UNCHANGED <<pid, call, used, failed, project, disk, before>>
-----------------------------------------------------------------------------
\* The process ends, between two calls or in one, and a later one is started.
Die ==
  /\ pid # None
  /\ pid' = None /\ pc' = "idle" /\ used' = 0 /\ failed' = FALSE /\ reply' = NoReply
  /\ UNCHANGED <<call, files, before>>
StartProcess(p) ==
  /\ pid = None
  /\ pid' = p
  /\ UNCHANGED <<pc, call, used, failed, reply, files, before>>

\* The kernel writes back what it has.
WriteBack ==
  /\ temp' = [p \in Pids |-> IF temp[p] = NoFile THEN NoFile
                             ELSE [temp[p] EXCEPT !.synced = TRUE]]
  /\ disk' = {project["battery.sh"]}
  /\ UNCHANGED <<pid, pc, call, used, failed, reply, project, before>>
LosePower ==
  /\ \E f \in disk :
       project' = [project EXCEPT !["battery.sh"] = f] /\ disk' = {f}
  /\ \E lost \in SUBSET Pids :
       temp' = [p \in Pids |-> IF p \in lost THEN NoFile ELSE temp[p]]
  /\ pid' = None /\ pc' = "idle" /\ used' = 0 /\ failed' = FALSE /\ reply' = NoReply
  /\ UNCHANGED <<call, before>>

Next ==
  \/ \E c \in Calls : Call(c)
  \/ Open
  \/ Read \/ ReadEnd \/ ReadTooLong \/ ReadFails
  \/ Create \/ Write \/ WriteDone \/ Sync \/ Close \/ Rename \/ Discard
  \/ Die \/ (\E p \in Pids : StartProcess(p)) \/ WriteBack \/ LosePower

Spec == Init /\ [][Next]_vars
-----------------------------------------------------------------------------
Prefix == [of : Contents, len : Nat]
TempFile == [of : Contents, len : Nat, synced : BOOLEAN] \cup {NoFile}

TypeOK ==
  /\ pid \in Pids \cup {None}
  /\ pc \in {"idle", "open", "read", "create", "write", "sync", "close", "rename"}
  /\ call \in Calls
  /\ used \in Nat /\ failed \in BOOLEAN
  /\ pc = "read" => used <= call.cap
  /\ reply \in [text : Texts \cup {"file", "garbled", None}, got : Prefix \cup {Nothing}]
  /\ project \in [Paths -> Prefix] /\ before \in [Paths -> Prefix]
  /\ temp \in [Pids -> TempFile]
  /\ disk \subseteq Prefix /\ disk # {}

\* Whatever is interrupted where, no file of the project is ever found partly
\* written, by this process or by a later one, after a loss of power too.
FilesWhole == \A p \in Paths : project[p].len = Size[project[p].of]

\* A reply is true: what read_project returned is the whole file, "wrote" means
\* that battery.sh is what was asked for, and after a refusal nothing changed.
RepliesTrue ==
  /\ reply.text = "file" => reply.got = File
  /\ reply.text = "wrote" => project = [before EXCEPT !["battery.sh"] = Whole(call.content)]
  /\ reply.text \in {"denied", "invalid", "garbled"} => project = before
=============================================================================
