--------------------------------- MODULE Deploy ---------------------------------
(***************************************************************************)
(* A module of the user's own: load uploads it to RAM or to the SD card       *)
(* (tools/deploy.py), execute --module has the board hash it again and start  *)
(* fx-wamr on it (tools/cli.py), whose life is RunnerLifecycle.               *)
(*                                                                         *)
(* Both are one line typed to the board's shell, a chain of && in which every  *)
(* command may fail.  The host may give up at any moment, and the board goes   *)
(* on.  Power may fail at any moment: RAM is then empty, and what was written  *)
(* to the card since the last sync may or may not be there.                   *)
(***************************************************************************)
EXTENDS RunnerLifecycle

CONSTANTS
  Modules,           \* what is uploaded under one name; a module stands for its digest too
  NoModule, Torn     \* no current.sha256; one that is no digest

Firmware == "flash"
ByHand == "a file" \* fx-wamr may also be started without execute

ASSUME ModulesAssumption ==
  NoModule # Torn /\ {NoModule, Torn, Firmware, ByHand} \cap Modules = {}

VARIABLES
  storage,   \* where the modules are kept
  object,    \* the file of each module
  current,   \* current.sha256
  writes,    \* "saved", "unsaved" since the last sync, or "lost" with the power
  step, job, \* the command of the line the shell has come to, and the module it is about
  incoming,  \* the file curl writes; its name is not used again
  waiting, served, status, \* load: it runs, it sent the module, the status it can read
  image,     \* what fx-wamr was started on
  loaded     \* the module of the last load that succeeded, and of those tried since (history)

deployVars == <<storage, object, current, writes, step, job, incoming, waiting, served, status, image, loaded>>
files == <<object, current, incoming>>
host == <<waiting, served, status, loaded>>

DeployInit ==
  /\ Init
  /\ storage \in {"ram", "sd"} /\ object = [m \in Modules |-> "absent"] /\ current = NoModule
  /\ writes = "saved" /\ step = "none" /\ job = NoModule /\ incoming = "absent"
  /\ waiting = FALSE /\ served = FALSE /\ status = "none" /\ image = Firmware /\ loaded = {}

Running == pc \notin {"returned", "killed"}
\* login waits for a prompt, and Console holds the lock of the port.
ShellIsFree == step = "none" /\ ~waiting /\ ~Running

Goes(from, to) == step = from /\ step' = to /\ UNCHANGED <<storage, image, vars>>
Writes == writes' = IF storage = "sd" THEN "unsaved" ELSE writes
-----------------------------------------------------------------------------
(* load *)

\* prepare_launch has the board sync first.
Load(m) ==
  /\ ShellIsFree /\ Goes("none", "curl") /\ job' = m /\ writes' = "saved"
  /\ incoming' = "absent" /\ waiting' = TRUE /\ served' = FALSE /\ status' = "none"
  /\ loaded' = loaded \cup {m} /\ UNCHANGED <<object, current>>
\* The server's thread sends the module and then says so.
Serve ==
  /\ waiting /\ ~served /\ served' = TRUE
  /\ UNCHANGED <<vars, storage, files, writes, step, job, waiting, status, image, loaded>>
\* What was sent may still arrive when the host has given up.
Curl ==
  /\ Goes("curl", "check") /\ incoming' \in {"bad", "whole"}
  /\ Writes /\ UNCHANGED <<object, current, job, host>>
\* Faulty: what curl accepts is moved.
CurlAccepts == TRUE
Matches == incoming = "whole"
VerifyUpload == Goes("check", "mv") /\ Matches /\ UNCHANGED <<files, writes, job, host>>
Move ==
  /\ Goes("mv", "truncate") /\ object' = [object EXCEPT ![job] = incoming] /\ incoming' = "absent"
  /\ Writes /\ UNCHANGED <<current, job, host>>
Switch ==
  /\ \/ Goes("truncate", "printf") /\ current' = Torn
     \/ Goes("printf", "path") /\ current' = job
  /\ Writes /\ UNCHANGED <<object, incoming, job, host>>
\* current.path is read by nobody.
WritePath ==
  /\ Goes("path", "none") /\ status' = (IF waiting THEN "zero" ELSE "none")
  /\ Writes /\ UNCHANGED <<files, job, waiting, served, loaded>>
CommandFails ==
  /\ step # "none" /\ Goes(step, "none") /\ status' = (IF waiting THEN "nonzero" ELSE "none")
  /\ incoming' = "absent" /\ UNCHANGED <<object, current, writes, job, waiting, served, loaded>>

\* Faulty: a module that was sent was loaded.
SentIsLoaded == served
Succeeded == status = "zero" /\ served
LoadEnds ==
  /\ waiting /\ status # "none" /\ waiting' = FALSE /\ status' = "none"
  /\ loaded' = IF Succeeded /\ writes # "lost" THEN {job} ELSE loaded
  /\ UNCHANGED <<vars, storage, files, writes, step, job, served, image>>
\* The time is over, Ctrl-C, or load is killed.
GiveUp ==
  /\ waiting /\ waiting' = FALSE /\ status' = "none"
  /\ UNCHANGED <<vars, storage, files, writes, step, job, served, image, loaded>>
-----------------------------------------------------------------------------
(* execute *)

Execute ==
  /\ ShellIsFree /\ Goes("none", "digest") /\ writes' = "saved"
  /\ UNCHANGED <<files, job, host>>
\* 64 hexadecimal digits
ReadDigest ==
  /\ Goes("digest", "hash") /\ current \in Modules /\ job' = current
  /\ UNCHANGED <<files, writes, host>>
\* Faulty: the file is started if it is there.
Exists == object[job] # "absent"
Rehashed == object[job] = "whole"
Launch ==
  /\ step = "hash" /\ Rehashed /\ step' = "none" /\ StartProcess /\ image' = job
  /\ UNCHANGED <<storage, files, writes, job, host>>
LaunchOther ==
  /\ ShellIsFree /\ StartProcess /\ image' \in {Firmware, ByHand}
  /\ UNCHANGED <<storage, files, writes, step, job, host>>

\* fx-wamr goes on: the firmware's module is in flash, any other is a file, and execute asks
\* for no mapping.
Process ==
  /\ ProcessSteps /\ UNCHANGED deployVars
  /\ (input' = "flash" => image = Firmware) /\ (pc' = "opened" => image # Firmware)
  /\ (input' = "mapped" => image = ByHand)

PowerFails ==
  /\ IF Running THEN Killed ELSE UNCHANGED vars
  /\ step' = "none" /\ incoming' = "absent"
  /\ \/ storage = "ram" /\ object' = [m \in Modules |-> "absent"] /\ current' = NoModule
        /\ writes' = "lost" /\ UNCHANGED loaded
     \/ storage = "sd" /\ writes = "saved" /\ UNCHANGED <<object, current, writes, loaded>>
     \/ /\ storage = "sd" /\ writes # "saved" /\ writes' = "lost" /\ loaded' = Modules
        /\ \E content \in {"absent", "bad", "whole"} : object' = [object EXCEPT ![job] = content]
        /\ current' \in Modules \cup {NoModule, Torn}
  /\ UNCHANGED <<storage, job, waiting, served, status, image>>

DeployNext ==
  \/ (\E m \in Modules : Load(m)) \/ Serve \/ Curl \/ VerifyUpload \/ Move \/ Switch \/ WritePath
  \/ CommandFails \/ LoadEnds \/ GiveUp
  \/ Execute \/ ReadDigest \/ Launch \/ LaunchOther \/ Process \/ PowerFails

DeploySpec == DeployInit /\ [][DeployNext]_<<vars, deployVars>>
-----------------------------------------------------------------------------
\* architecture.md: load "verifies size/hash, and records its digest", execute "rehashes that
\* object before invoking WAMR".  What fx-wamr is started on is a whole module: the one of the
\* last load that succeeded, or of one tried since, whatever failed on the way; only a loss of
\* power before a sync may bring an older one back.  And a load that succeeds has put its
\* module there for execute to find.
RunsWhatWasLoaded ==
  /\ Running /\ image \in Modules => object[image] = "whole" /\ image \in loaded
  /\ waiting /\ Succeeded /\ writes # "lost" => current = job /\ object[job] = "whole"
=============================================================================
