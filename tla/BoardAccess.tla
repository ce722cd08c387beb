------------------------------- MODULE BoardAccess -------------------------------
(***************************************************************************)
(* Who can log in to a board: the commands load (install) and execute of    *)
(* tools/cli.py, the password change of tools/network.py, their records     *)
(* under private/, and the terminal of the board they talk to.              *)
(*                                                                         *)
(* A line that is typed is taken by the board whenever it gets to it; what  *)
(* it prints is lost unless a command has the port open.  A wait of the     *)
(* host may time out at any moment, and a command be interrupted (its       *)
(* finally runs) or killed (it does not).  Boards reboot at any moment.     *)
(* getty and passwd are the board's, and modelled as this code uses them.   *)
(***************************************************************************)
EXTENDS Naturals, Sequences, FiniteSets

CONSTANTS
  Boards,
  Passwords,     \* what secrets.token_urlsafe may return
  MaxTyped,      \* lines the terminal of a board holds
  NoFile, TornFile,  \* no record; a record that was not written to its end
  NoBoard

Default == "changeme123"
\* The lines of this code that are no random password; "stale" is a marker that is no longer
\* waited for.  "other" is an answer no line of it repeats.
Words == {"", "root", "passwd", "command", "printf", "stale", Default}

ASSUME AccessAssumption ==
  /\ Words \cap Passwords = {} /\ "other" \notin Passwords
  /\ NoFile # TornFile /\ {NoFile, TornFile} \cap [board : Boards, password : Passwords] = {}
  /\ MaxTyped \in Nat /\ NoBoard \notin Boards

VARIABLES
  access, pending,  \* example-board-access.json, its .pending.json
  archives,         \* records moved aside
  backup, digest,   \* backup-<MAC>.bin and its .sha256, of each board
  flash,            \* what a board's flash holds
  password,         \* root's on the board
  tty, typed, queue, \* the terminal: its mode, what was answered to it, lines not taken yet
  stage, command, board, \* the running command
  output,           \* what the board printed and the command has not read
  opened            \* the board of the install that has just succeeded

accessVars == <<access, pending, archives, backup, digest, flash, password, tty, typed, queue,
          stage, command, board, output, opened>>
records == <<access, pending, archives>>
recovery == <<backup, digest>>
terminal == <<tty, typed, queue>>
commandVars == <<stage, command, board, output, opened>>

Commands == {"install", "installPlain", "execute"}
Record(b, p) == [board |-> b, password |-> p]
InFlight(b) == {queue[b][i] : i \in DOMAIN queue[b]} \cup {typed[b], password[b]}
Recorded == archives \cup ({access, pending} \ {NoFile, TornFile})
\* A random password is none of those that were chosen before.
Unused == {p \in Passwords :
  /\ \A r \in Recorded : r.password # p
  /\ \A b \in Boards : p \notin InFlight(b)}

AccessInit ==
  /\ access = NoFile /\ pending = NoFile /\ archives = {}
  /\ backup = [b \in Boards |-> "absent"] /\ digest = [b \in Boards |-> "absent"]
  /\ flash = [b \in Boards |-> "stock"] /\ password = [b \in Boards |-> Default]
  /\ tty = [b \in Boards |-> "off"] /\ typed = [b \in Boards |-> ""]
  /\ queue = [b \in Boards |-> <<>>]
  /\ stage = "idle" /\ command = "none" /\ board = NoBoard /\ output = {} /\ opened = NoBoard

Boot(b, content) ==
  /\ tty' = [tty EXCEPT ![b] = IF content = "image" THEN "login" ELSE "off"]
  /\ typed' = [typed EXCEPT ![b] = ""] /\ queue' = [queue EXCEPT ![b] = <<>>]

Fresh == command \in {"install", "installPlain"}
Configuring == {"secured", "create", "ask", "new", "retype", "changed", "archive", "connect"}
Waiting == {"prompt", "user", "secret", "ready"}
PortOpen == stage \in Waiting \cup Configuring
-----------------------------------------------------------------------------
(* The board *)

Says(b, words) == output' = IF board = b /\ PortOpen THEN output \cup words ELSE output
\* A prompt for a secret may drop what was typed before it.
Takes(b) == queue' = [queue EXCEPT ![b] = Tail(@)]
TakesForSecret(b) == Takes(b) \/ queue' = [queue EXCEPT ![b] = <<>>]
Turns(b, mode, answer) == tty' = [tty EXCEPT ![b] = mode] /\ typed' = [typed EXCEPT ![b] = answer]

\* getty and login: a user name, then the password.
AtLogin(b, line) ==
  /\ tty[b] = "login"
  /\ \/ line = "" /\ Turns(b, "login", "") /\ Says(b, {"loginPrompt"}) /\ Takes(b)
     \/ /\ line # "" /\ Turns(b, "password", IF line = "root" THEN line ELSE "other")
        /\ Says(b, {"passwordPrompt"}) /\ TakesForSecret(b)
  /\ UNCHANGED password
AtPassword(b, line) ==
  /\ tty[b] = "password"
  /\ IF typed[b] = "root" /\ line = password[b]
       THEN Turns(b, "shell", "") /\ Says(b, {"shellPrompt"})
       ELSE Turns(b, "login", "") /\ Says(b, {"loginPrompt"})
  /\ Takes(b) /\ UNCHANGED password
AtShell(b, line) ==
  /\ tty[b] = "shell"
  /\ IF line = "passwd"
       THEN Turns(b, "new", "") /\ Says(b, {"newPrompt"}) /\ TakesForSecret(b)
       ELSE /\ Turns(b, "shell", "") /\ Takes(b)
            /\ Says(b, IF line = "printf" THEN {"marker", "shellPrompt"} ELSE {"shellPrompt"})
  /\ UNCHANGED password
\* passwd (BusyBox, README.md:89-90) asks twice; it may refuse, and says so in its exit
\* status, but root may choose any password, the empty one too.  Of the lines of this code
\* only a password and the empty line are ever typed twice in a row.
AtNew(b, line) ==
  /\ tty[b] = "new" /\ Says(b, {"retypePrompt"}) /\ TakesForSecret(b) /\ UNCHANGED password
  /\ Turns(b, "retype", IF line \in Passwords \cup {""} THEN line ELSE "other")
AtRetype(b, line) ==
  /\ tty[b] = "retype" /\ Turns(b, "shell", "") /\ Takes(b)
  /\ \/ /\ line = typed[b]
        /\ password' = [password EXCEPT ![b] = line] /\ Says(b, {"success", "shellPrompt"})
     \/ Says(b, {"failure", "shellPrompt"}) /\ UNCHANGED password

Answer(b) ==
  /\ queue[b] # <<>> /\ tty[b] # "off"
  /\ LET line == Head(queue[b])
     IN AtLogin(b, line) \/ AtPassword(b, line) \/ AtShell(b, line) \/ AtNew(b, line) \/ AtRetype(b, line)
  /\ UNCHANGED <<records, recovery, flash, stage, command, board, opened>>

Reboot(b) ==
  /\ Boot(b, flash[b])
  /\ UNCHANGED <<records, recovery, flash, password, commandVars>>
-----------------------------------------------------------------------------
(* The commands *)

Moves(step, next) == stage = step /\ stage' = next /\ UNCHANGED <<command, board, opened>>
Returns == stage' = "idle" /\ command' = "none" /\ board' = NoBoard /\ output' = {}
Dies(step) == stage = step /\ Returns /\ UNCHANGED opened
\* Console.until: a word it waits for was printed; what came along with it is dropped.
Hears(word) == word \in output /\ output' = {}
Types(lines) ==
  /\ Len(queue[board]) + Len(lines) <= MaxTyped
  /\ queue' = [queue EXCEPT ![board] = IF tty[board] = "off" THEN @ ELSE @ \o lines]
  /\ UNCHANGED <<tty, typed>>
\* Console.run waits for a marker of its own, which no line that is still to be taken prints.
Outdated(line) == IF line = "printf" THEN "stale" ELSE line
TypesNew(lines) ==
  /\ Len(queue[board]) + Len(lines) <= MaxTyped
  /\ queue' = [queue EXCEPT ![board] = IF tty[board] = "off" THEN @
                 ELSE [i \in DOMAIN @ |-> Outdated(@[i])] \o lines]
  /\ UNCHANGED <<tty, typed>>
Run == TypesNew(<<"command", "printf">>)

\* install begins with a probe; esptool resets the board whenever it is done with it.
Start(c, b) ==
  /\ stage = "idle" /\ command' = c /\ board' = b /\ opened' = NoBoard
  /\ IF c = "execute" THEN stage' = "knock" /\ UNCHANGED terminal ELSE stage' = "backup" /\ Boot(b, flash[b])
  /\ UNCHANGED <<records, recovery, flash, password, output>>

\* Faulty: a backup that is there is a backup.
AnyBackup(b) == backup[b] # "absent"
\* A backup that is whole and matches its digest.
GoodBackup(b) == backup[b] \notin {"absent", "partial"} /\ digest[b] = "whole"
\* install: the backup is taken once, and verified before anything is written.
ReuseBackup ==
  /\ Moves("backup", "write") /\ GoodBackup(board)
  /\ UNCHANGED <<records, recovery, flash, password, terminal, output>>
ReadBackup ==
  /\ Moves("backup", "verify") /\ backup[board] = "absent"
  /\ \E content \in {flash[board], "partial"} : backup' = [backup EXCEPT ![board] = content]
  /\ Boot(board, flash[board]) /\ UNCHANGED <<records, digest, flash, password, output>>
VerifyBackup ==
  /\ stage = "verify" /\ backup[board] = flash[board]
  /\ \/ Moves("verify", "write") /\ digest' = [digest EXCEPT ![board] = "whole"] /\ UNCHANGED output
     \/ Dies("verify") /\ digest' = [digest EXCEPT ![board] = "partial"]
  /\ Boot(board, flash[board]) /\ UNCHANGED <<records, backup, flash, password>>
WriteFlash ==
  /\ \/ /\ Dies("write") /\ flash' = [flash EXCEPT ![board] = "torn"] /\ UNCHANGED password
     \/ /\ Moves("write", "knock") /\ flash' = [flash EXCEPT ![board] = "image"]
        /\ password' = [password EXCEPT ![board] = Default] /\ UNCHANGED output
  /\ Boot(board, flash'[board]) /\ UNCHANGED <<records, recovery>>

\* login: a shell that is open already is used; otherwise the saved password, or the default.
LoginPassword == IF Fresh \/ access = NoFile THEN Default ELSE access.password
Knock ==
  /\ Moves("knock", "prompt") /\ (~Fresh /\ access # NoFile => access.board = board)
  /\ TypesNew(<<"">>) /\ UNCHANGED <<records, recovery, flash, password, output>>
Login ==
  /\ \/ Moves("prompt", "user") /\ Hears("loginPrompt") /\ Types(<<"root">>)
     \/ Moves("user", "secret") /\ Hears("passwordPrompt") /\ Types(<<LoginPassword>>)
     \/ (Moves("prompt", "ready") \/ Moves("secret", "ready")) /\ Hears("shellPrompt") /\ Run
  /\ UNCHANGED <<records, recovery, flash, password>>
LoggedIn ==
  /\ Moves("ready", "secured") /\ command # "installPlain" /\ Hears("marker") /\ Run
  /\ UNCHANGED <<records, recovery, flash, password>>
\* Nothing to configure: the board has its default password, and the old record is moved away.
Rename ==
  /\ stage = "ready" /\ command = "installPlain" /\ Hears("marker") /\ Returns /\ opened' = board
  /\ archives' = archives \cup ({access} \ {NoFile}) /\ access' = NoFile
  /\ UNCHANGED <<pending, recovery, flash, password, terminal>>

\* network.configure: the new password is saved before it is applied.
\* Faulty: a record that exists is right.
RotatesOnce == access = NoFile
Rotates == access = NoFile \/ Fresh
Secured ==
  /\ Hears("marker")
  /\ \/ Moves("secured", "create") /\ Rotates /\ pending = NoFile
     \/ Moves("secured", "connect") /\ ~Rotates
  /\ UNCHANGED <<records, recovery, flash, password, terminal>>
SavePending ==
  /\ \/ Moves("create", "ask") /\ \E p \in Unused : pending' = Record(board, p) /\ UNCHANGED output
     \/ Dies("create") /\ pending' = TornFile
  /\ UNCHANGED <<access, archives, recovery, flash, password, terminal>>
ChangePassword ==
  /\ \/ Moves("ask", "new") /\ Types(<<"passwd">>) /\ UNCHANGED output
     \/ Moves("new", "retype") /\ Hears("newPrompt") /\ Types(<<pending.password>>)
     \/ Moves("retype", "changed") /\ Hears("retypePrompt") /\ Types(<<pending.password>>)
  /\ UNCHANGED <<records, recovery, flash, password>>
Changed ==
  /\ Moves("changed", "archive") /\ Hears("success")
  /\ UNCHANGED <<records, recovery, flash, password, terminal>>
\* Faulty: the superseded record is dropped.
ArchivesNothing == archives
Archived == archives \cup {access}
AdoptPending ==
  /\ \/ Moves("archive", "archive") /\ access # NoFile
        /\ archives' = Archived /\ access' = NoFile /\ UNCHANGED pending
     \/ Moves("archive", "connect") /\ access = NoFile
        /\ access' = pending /\ pending' = NoFile /\ UNCHANGED archives
  /\ UNCHANGED <<recovery, flash, password, terminal, output>>
\* finally: "stty echo", whether the board answers it or not.
Connect ==
  /\ stage = "connect" /\ Run /\ Returns /\ opened' = IF Fresh THEN board ELSE NoBoard
  /\ UNCHANGED <<records, recovery, flash, password>>

\* A wait timed out, a step failed, or Ctrl-C.
Abandon ==
  /\ stage # "idle" /\ Returns
  /\ IF stage \in Configuring THEN Run ELSE UNCHANGED terminal
  /\ UNCHANGED <<records, recovery, flash, password, opened>>
HostKilled ==
  /\ stage \in Configuring /\ Returns
  /\ UNCHANGED <<records, recovery, flash, password, terminal, opened>>
\* "pending access record exists; inspect it before retrying": whoever finds that it opens
\* the board makes it the record, and else removes it.
Inspect ==
  /\ stage = "idle" /\ pending # NoFile /\ pending' = NoFile /\ opened' = NoBoard
  /\ IF pending = TornFile THEN UNCHANGED <<access, archives>>
     ELSE LET b == pending.board
          IN /\ queue[b] = <<>> /\ tty[b] \in {"login", "shell"}
             /\ IF password[b] = pending.password
                  THEN access' = pending /\ archives' = archives \cup ({access} \ {NoFile})
                  ELSE UNCHANGED <<access, archives>>
  /\ UNCHANGED <<recovery, flash, password, terminal, stage, command, board, output>>

AccessNext ==
  \/ \E b \in Boards : Answer(b) \/ Reboot(b) \/ \E c \in Commands : Start(c, b)
  \/ ReuseBackup \/ ReadBackup \/ VerifyBackup \/ WriteFlash
  \/ Knock \/ Login \/ LoggedIn \/ Rename
  \/ Secured \/ SavePending \/ ChangePassword \/ Changed \/ AdoptPending \/ Connect
  \/ Abandon \/ HostKilled \/ Inspect

AccessSpec == AccessInit /\ [][AccessNext]_accessVars
-----------------------------------------------------------------------------
\* A password this code chose is never lost: whatever is interrupted, on whichever board,
\* root's password is the default, empty, or in a record of that board on the host
\* (network.py:89-125, cli.py:104-116).
NeverUnknown == \A b \in Boards :
  password[b] \notin {Default, ""} => Record(b, password[b]) \in Recorded

\* "Save before applying so an interrupted password change remains recoverable"
\* (network.py:89): the default and the records are all the passwords there are.  They are
\* not: the empty lines that the next two logins begin with (cli.py:42) answer both questions
\* of a passwd that a killed command left behind.
Recoverable == \A b \in Boards : password[b] # Default => Record(b, password[b]) \in Recorded

\* After an install that succeeded, the next login to that board finds the right password.
InstallOpensBoard == opened # NoBoard =>
  IF access = NoFile THEN password[opened] = Default ELSE access = Record(opened, password[opened])

\* hardware.md: a full, verified backup is kept before the flash is written, and it is never
\* replaced by one of what was written since.
StockKept == \A b \in Boards : flash[b] # "stock" => backup[b] = "stock" /\ digest[b] = "whole"
=============================================================================
