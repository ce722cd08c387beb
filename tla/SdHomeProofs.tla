------------------------------ MODULE SdHomeProofs ------------------------------
(***************************************************************************)
(* Theorems of SdHome, for any cards, files and number of writes, where the   *)
(* user leaves /media/sd/home/root alone.                                   *)
(*                                                                         *)
(* The argument: what only a card has is on a marked card (Kept), because     *)
(* /home leads only there (Leads); and files are copied only to a card that   *)
(* is not marked (Seeding), where nothing is that is not elsewhere too.      *)
(***************************************************************************)
EXTENDS SdHome, TLAPS

TypeInv ==
  /\ internal \in [Files -> Nat] /\ home \in [Cards -> [Files -> Nat]]
  /\ marked \subseteq Cards /\ {slot, mounted} \subseteq Cards \cup {NoCard}
  /\ todo \subseteq Files /\ written \in Nat

Kept == \A v \in live :
  \/ \E f \in Files : internal[f] = v
  \/ \E c \in marked, f \in Files : home[c][f] = v

Leads == (bound # NoCard => bound = mounted /\ mounted \in marked) /\ (pc = "bind" => mounted \in marked)

Seeding == pc = "seed" =>
  /\ mounted \in Cards \ marked
  /\ \A f \in Files \ todo : internal[f] # None => home[mounted][f] = internal[f]

IInv == TypeInv /\ Kept /\ Leads /\ Seeding
-----------------------------------------------------------------------------
LEMMA InitSafe == Init => IInv
BY SdAssumption DEF Init, IInv, TypeInv, Kept, Leads, Seeding, None

\* A version the user replaces is no longer live; every other one stays where it was.
LEMMA WriteSafe ==
  ASSUME IInv, ~ForeignHome, NEW f \in Files, NEW place \in Places, WriteFile(f, place)
  PROVE  IInv'
<1> USE DEF IInv
<1>1. CASE place = "flash"
  <2>1. /\ internal' = [internal EXCEPT ![f] = written'] /\ written' = written + 1
        /\ home' = home /\ live' = (live \ {internal[f]}) \cup {written'}
        /\ UNCHANGED <<marked, slot, mounted, bound, pc, todo>> /\ pc = "idle"
    BY <1>1 DEF WriteFile, Idle, mounts
  <2>2. TypeInv'
    BY <2>1 DEF TypeInv
  <2>3. Kept'
    <3> SUFFICES ASSUME NEW v \in live'
                 PROVE  \/ \E g \in Files : internal'[g] = v
                        \/ \E c \in marked', g \in Files : home'[c][g] = v
      BY DEF Kept
    <3>1. CASE v = written'
      BY <3>1, <2>1 DEF TypeInv
    <3>2. CASE v \in live /\ v # internal[f]
      BY <3>2, <2>1 DEF TypeInv, Kept
    <3> QED BY <3>1, <3>2, <2>1
  <2> QED BY <2>1, <2>2, <2>3 DEF Leads, Seeding
<1>2. CASE place # "flash"
  <2>0. mounted \in marked /\ mounted \in Cards
    BY <1>2 DEF Places, Leads, TypeInv
  <2>1. /\ home' = [home EXCEPT ![mounted][f] = written'] /\ written' = written + 1
        /\ internal' = internal /\ live' = (live \ {home[mounted][f]}) \cup {written'}
        /\ UNCHANGED <<marked, slot, mounted, bound, pc, todo>> /\ pc = "idle"
    BY <1>2 DEF WriteFile, Idle, mounts
  <2>2. TypeInv'
    BY <2>0, <2>1 DEF TypeInv
  <2>3. Kept'
    <3> SUFFICES ASSUME NEW v \in live'
                 PROVE  \/ \E g \in Files : internal'[g] = v
                        \/ \E c \in marked', g \in Files : home'[c][g] = v
      BY DEF Kept
    <3>1. CASE v = written'
      BY <3>1, <2>0, <2>1 DEF TypeInv
    <3>2. CASE v \in live /\ v # home[mounted][f]
      BY <3>2, <2>0, <2>1 DEF TypeInv, Kept
    <3> QED BY <3>1, <3>2, <2>1
  <2> QED BY <2>1, <2>2, <2>3 DEF Leads, Seeding
<1> QED BY <1>1, <1>2

\* Only an unmarked card is seeded: nothing that is Kept on a card is overwritten.
LEMMA SeedSafe ==
  ASSUME IInv, (\E f \in Files : Seed(f)) \/ Dies
  PROVE  IInv'
<1> USE DEF IInv
<1>1. CASE home' = home /\ Dies
  BY <1>1 DEF Dies, mounts, TypeInv, Kept, Leads, Seeding
<1>2. CASE /\ pc = "seed" /\ UNCHANGED <<internal, live, written, marked, slot, mounted, bound>>
           /\ \E g \in todo, v \in Nat : home' = [home EXCEPT ![mounted][g] = v]
           /\ todo' \subseteq Files /\ pc' \in {"idle", "seed"}
           /\ Seeding'
  <2>1. PICK g \in todo, v \in Nat : home' = [home EXCEPT ![mounted][g] = v]
    BY <1>2
  <2>2. TypeInv'
    BY <1>2, <2>1 DEF TypeInv, Seeding
  <2>3. \A c \in marked : home'[c] = home[c]
    BY <1>2, <2>1 DEF TypeInv, Seeding
  <2>4. Kept'
    BY <1>2, <2>3 DEF Kept
  <2> QED BY <1>2, <2>2, <2>4 DEF Leads
<1>3. CASE \E f \in Files : Seed(f)
  <2>1. PICK f \in Files : Seed(f)
    BY <1>3
  <2>2. internal[f] \in Nat
    BY DEF TypeInv
  <2>3. /\ pc = "seed" /\ pc' = "seed" /\ f \in todo /\ todo' = todo \ {f}
        /\ UNCHANGED <<internal, live, written, marked, slot, mounted, bound>>
        /\ home' = [home EXCEPT ![mounted][f] = internal[f]]
    BY <2>1 DEF Seed, mounts
  <2>4. \E g \in todo, v \in Nat : home' = [home EXCEPT ![mounted][g] = v]
    BY <2>2, <2>3
  <2>5. todo' \subseteq Files
    BY <2>3 DEF TypeInv
  <2>6. Seeding'
    BY <2>2, <2>3 DEF Seeding, TypeInv
  <2> QED BY <1>2, <2>3, <2>4, <2>5, <2>6
<1>4. CASE Dies /\ home' # home
  <2>1. Torn \in Nat
    BY SdAssumption DEF Torn
  <2>2. Seeding'
    BY <1>4 DEF Dies, Seeding
  <2> QED BY <1>2, <1>4, <2>1, <2>2 DEF Dies, mounts, TypeInv
<1> QED BY <1>1, <1>3, <1>4

LEMMA StepSafe ==
  ASSUME IInv, ~ForeignHome, [Next]_vars
  PROVE  IInv'
<1> USE DEF IInv
<1>1. CASE UNCHANGED vars
  BY <1>1 DEF vars, TypeInv, Kept, Leads, Seeding
<1>2. ASSUME NEW f \in Files, Seed(f) \/ \E place \in Places : WriteFile(f, place) PROVE IInv'
  BY <1>2, WriteSafe, SeedSafe
<1>3. ASSUME NEW c, Start(c) PROVE IInv'
  BY <1>3 DEF Start, Goes, files, mounts, TypeInv, Kept, Leads, Seeding
<1>4. CASE Mount
  <2>1. /\ mounted' \in Cards /\ (mounted' = mounted \/ mounted = NoCard)
        /\ UNCHANGED <<internal, home, written, live, marked, slot, bound>>
    BY <1>4, SdAssumption DEF Mount, files, TypeInv
  <2>2. TypeInv'
    BY <1>4, <2>1 DEF Mount, TypeInv
  <2>3. Kept'
    BY <2>1 DEF Kept
  <2>4. Leads'
    BY <1>4, <2>1, SdAssumption DEF Mount, Leads, Unadopted, TypeInv
  <2>5. pc' = "seed" => mounted' \notin marked
    BY <1>4 DEF Mount, Unadopted
  <2>6. pc' = "seed" => todo' = {g \in Files : internal[g] # None}
    BY <1>4 DEF Mount
  <2>7. Seeding'
    BY <2>1, <2>5, <2>6 DEF Seeding
  <2> QED BY <2>2, <2>3, <2>4, <2>7
<1>5. CASE Mark
  BY <1>5 DEF Mark, Goes, files, mounts, TypeInv, Kept, Leads, Seeding
<1>6. CASE Bind \/ Enable
  BY <1>6 DEF Bind, Enable, Goes, files, mounts, TypeInv, Kept, Leads, Seeding
<1>7. CASE Unmount
  <2>1. UNCHANGED <<internal, home, written, live, marked, slot, bound, pc, todo>> /\ bound = NoCard
    BY <1>7 DEF Unmount, HomeIsInternal, Idle, files
  <2>2. mounted' = NoCard /\ pc = "idle"
    BY <1>7 DEF Unmount, Idle
  <2>3. TypeInv' /\ Kept'
    BY <2>1, <2>2 DEF TypeInv, Kept
  <2>4. Leads' /\ Seeding'
    BY <2>1, <2>2 DEF Leads, Seeding
  <2> QED BY <2>3, <2>4
<1>10. CASE Disable
  <2>1. UNCHANGED <<internal, home, written, live, marked, slot, mounted, pc, todo>>
    BY <1>10 DEF Disable, Idle, files
  <2>2. pc = "idle" /\ bound' \in {NoCard, bound}
    BY <1>10 DEF Disable, Idle
  <2>3. TypeInv' /\ Kept'
    BY <2>1, <2>2 DEF TypeInv, Kept
  <2>4. Leads' /\ Seeding'
    BY <2>1, <2>2 DEF Leads, Seeding, TypeInv
  <2> QED BY <2>3, <2>4
<1>9. CASE Dies
  BY <1>9, SeedSafe
<1>8. CASE Reboot
  BY <1>8, SdAssumption DEF Reboot, files, TypeInv, Kept, Leads, Seeding
<1> QED BY <1>1, <1>2, <1>3, <1>4, <1>5, <1>6, <1>7, <1>8, <1>9, <1>10 DEF Next

\* Nothing the user wrote and did not replace is lost, with any number of cards and files.
THEOREM FilesSurvive == ASSUME ~ForeignHome PROVE Spec => []NothingLost
<1>1. IInv => NothingLost
  BY DEF IInv, TypeInv, Kept, NothingLost, Somewhere
<1> QED BY <1>1, InitSafe, StepSafe, PTL DEF Spec

\* /home leads to an adopted card or to none.
THEOREM HomeLeadsToAdopted == ASSUME ~ForeignHome PROVE Spec => []HomeOnAdoptedCard
<1>1. IInv => HomeOnAdoptedCard
  BY DEF IInv, Leads, HomeOnAdoptedCard
<1> QED BY <1>1, InitSafe, StepSafe, PTL DEF Spec

\* A card is marked only when the internal home is on it, whichever adoption was interrupted.
THEOREM MarksAreTrue == ASSUME ~ForeignHome PROVE Spec => MarkedWhenWhole
<1> DEFINE Whole == \A c \in marked' \ marked, f \in Files :
             internal[f] # None => home[c][f] = internal[f]
<1>1. ASSUME IInv, [Next]_vars PROVE [Whole]_vars
  <2>1. CASE Mark
    BY <1>1, <2>1 DEF IInv, Seeding, Mark, Goes, AllCopied, TypeInv
  <2>2. CASE ~Mark
    <3>1. marked' = marked
      BY <1>1, <2>2 DEF Next, Seed, WriteFile, Start, Mount, Bind, Enable, Dies, Unmount, Disable,
        Reboot, vars
    <3> QED BY <3>1
  <2> QED BY <2>1, <2>2
<1> QED BY <1>1, InitSafe, StepSafe, PTL DEF Spec, MarkedWhenWhole
=============================================================================
