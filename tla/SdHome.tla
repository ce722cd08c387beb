--------------------------------- MODULE SdHome ---------------------------------
(***************************************************************************)
(* The home directory on a microSD card: board/rootfs/fx-sd and its start at  *)
(* boot, S07fx-sd-home.  A card is adopted once: the files of the internal    *)
(* home are copied to it before it is marked and bound over /home.            *)
(*                                                                         *)
(* Every write of a file makes a new version of it.  A command may fail or be  *)
(* killed between any two steps and in the middle of a copy.  The board shuts  *)
(* down cleanly, and the card is changed while it is off.                     *)
(***************************************************************************)
EXTENDS Naturals, FiniteSets

CONSTANTS
  Cards, NoCard,
  Files,      \* names in /home/root
  MaxWrites,  \* bound: versions written
  ForeignHome \* whether the user also writes to /media/sd/home/root

ASSUME SdAssumption == NoCard \notin Cards /\ MaxWrites \in Nat /\ ForeignHome \in BOOLEAN

None == 0
Torn == MaxWrites + 1

VARIABLES
  internal,  \* /home/root on the flash: the version of each file
  home,      \* home/root on each card
  marked,    \* cards with .fx-sd-home-initialized
  enabled,   \* /etc/fx-sd-home
  slot, mounted, \* the card in the slot; the card at /media/sd
  bound,     \* the card whose home is bound over /home
  pc, command, todo, \* the running command, and the files it has still to copy
  written, live  \* versions written, and those no later write of the user replaced (history)

vars == <<internal, home, marked, enabled, slot, mounted, bound, pc, command, todo, written, live>>
files == <<internal, home, written, live>>
mounts == <<slot, mounted, bound>>

Init ==
  /\ internal = [f \in Files |-> None] /\ home = [c \in Cards |-> [f \in Files |-> None]]
  /\ marked = {} /\ enabled = FALSE /\ slot \in Cards \cup {NoCard}
  /\ mounted = NoCard /\ bound = NoCard /\ pc = "idle" /\ command = "none" /\ todo = {}
  /\ written = 0 /\ live = {}
-----------------------------------------------------------------------------
Goes(step, next) == pc = step /\ pc' = next
Idle == pc = "idle" /\ UNCHANGED <<pc, command, todo>>

\* The user writes to /home/root, or to the card.
WriteFile(f, place) ==
  /\ Idle /\ written < MaxWrites /\ written' = written + 1
  /\ IF place = "flash" THEN internal' = [internal EXCEPT ![f] = written'] /\ UNCHANGED home
     ELSE home' = [home EXCEPT ![mounted][f] = written'] /\ UNCHANGED internal
  /\ live' = (live \ {IF place = "flash" THEN internal[f] ELSE home[mounted][f]}) \cup {written'}
  /\ UNCHANGED <<marked, enabled, mounts>>
Places ==
  {IF bound # NoCard THEN "card" ELSE "flash"} \cup (IF ForeignHome /\ mounted # NoCard THEN {"card"} ELSE {})

Start(c) ==
  /\ Goes("idle", "mount") /\ command' = c
  /\ UNCHANGED <<files, marked, enabled, mounts, todo>>
\* mount_sd: the card that is mounted, or the one in the slot; then mount_home.
\* Faulty: a card is seeded whenever its home is used.
Anew(card) == TRUE
Unadopted(card) == card \notin marked
Mount ==
  /\ pc = "mount" /\ mounted' = (IF mounted # NoCard THEN mounted ELSE slot) /\ mounted' # NoCard
  /\ pc' = CASE command = "mount" -> "idle" [] Unadopted(mounted') -> "seed" [] OTHER -> "bind"
  /\ todo' = IF pc' = "seed" THEN {f \in Files : internal[f] # None} ELSE {}
  /\ UNCHANGED <<files, marked, enabled, slot, bound, command>>
\* cp -a of the internal home, one file after the other.
Seed(f) ==
  /\ pc = "seed" /\ f \in todo /\ todo' = todo \ {f}
  /\ home' = [home EXCEPT ![mounted][f] = internal[f]]
  /\ UNCHANGED <<internal, written, live, marked, enabled, mounts, pc, command>>
\* Faulty: the card is marked while files are copied.
MarkedEarly == TRUE
AllCopied == todo = {}
Mark ==
  /\ Goes("seed", "bind") /\ AllCopied /\ marked' = marked \cup {mounted} /\ todo' = {}
  /\ UNCHANGED <<files, enabled, mounts, command>>
Bind ==
  /\ pc = "bind" /\ pc' = (IF command = "enable-home" THEN "enable" ELSE "idle") /\ bound' = mounted
  /\ UNCHANGED <<files, marked, enabled, slot, mounted, command, todo>>
Enable ==
  /\ Goes("enable", "idle") /\ enabled' = TRUE
  /\ UNCHANGED <<files, marked, mounts, command, todo>>
\* A step fails (set -e), or the command is killed.
Dies ==
  /\ pc # "idle" /\ pc' = "idle" /\ todo' = {}
  /\ \/ UNCHANGED home
     \/ pc = "seed" /\ \E f \in todo : home' = [home EXCEPT ![mounted][f] = Torn]
  /\ UNCHANGED <<internal, written, live, marked, enabled, mounts, command>>

HomeIsInternal == bound = NoCard
Unmount ==
  /\ Idle /\ HomeIsInternal /\ mounted' = NoCard
  /\ UNCHANGED <<files, marked, enabled, slot, bound>>
\* disable-home: /home may be in use, and is then not unmounted.
Disable ==
  /\ Idle /\ enabled' = FALSE /\ bound' \in {NoCard, bound}
  /\ UNCHANGED <<files, marked, slot, mounted>>
\* S07fx-sd-home runs fx-sd init when the board starts.
Reboot ==
  /\ pc = "idle" /\ slot' \in Cards \cup {NoCard} /\ mounted' = NoCard /\ bound' = NoCard
  /\ IF enabled THEN pc' = "mount" /\ command' = "init" ELSE UNCHANGED <<pc, command>>
  /\ UNCHANGED <<files, marked, enabled, todo>>

Next ==
  \/ \E f \in Files : Seed(f) \/ \E place \in Places : WriteFile(f, place)
  \/ \E c \in {"mount", "home", "enable-home"} : Start(c)
  \/ Mount \/ Mark \/ Bind \/ Enable \/ Dies \/ Unmount \/ Disable \/ Reboot

Spec == Init /\ [][Next]_vars
-----------------------------------------------------------------------------
\* No version of a file that the user did not replace himself is lost, whatever is
\* interrupted and whichever card is in the slot: it is on the flash or on a card.
Somewhere == {internal[f] : f \in Files} \cup {home[c][f] : c \in Cards, f \in Files}
NothingLost == live \subseteq Somewhere

\* A card becomes marked only with every file of the internal home on it: an adoption that
\* was interrupted is not taken for one that is done.
MarkedWhenWhole == [][\A c \in marked' \ marked, f \in Files :
  internal[f] # None => home[c][f] = internal[f]]_vars

\* /home never leads to a card that is not adopted, or that /media/sd has let go.
HomeOnAdoptedCard == bound # NoCard => bound = mounted /\ bound \in marked

\* fx-sd: "Seed, but never overwrite, any existing SD home on first adoption".
SeedNeverOverwrites == [][\A c \in Cards, f \in Files :
  pc = "seed" /\ home[c][f] \in live => home'[c][f] = home[c][f]]_vars
=============================================================================
