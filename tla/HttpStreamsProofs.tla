--------------------------- MODULE HttpStreamsProofs ---------------------------
(***************************************************************************)
(* Theorems of HttpStreams, for any number of streams, sizes and responses.   *)
(*                                                                         *)
(* The argument: a slot that is not used is empty, so that nothing is freed   *)
(* through it (SlotsOK); a request fills a slot that is empty, and the lent   *)
(* buffer only while no stream is open (SinkOK); and each heap block belongs  *)
(* to one slot or to the request (Owners), so that a block the request is     *)
(* given holds nobody else's response.  What a sink holds is what was handed  *)
(* over and not refused (SinkOK): write_body never takes a piece in part.     *)
(***************************************************************************)
EXTENDS HttpStreams, WellFoundedInduction, TLAPS

Holds(bytes, tag, len) == len > 0 => bytes # Null /\ content[bytes] = [tag |-> tag, len |-> len]

SlotOK(s) ==
  /\ streams[s].cursor <= streams[s].len
  /\ ~streams[s].used => streams[s] = EmptySlot
  /\ streams[s].owned => streams[s].bytes \in HeapBuffers \cup {Null}
  /\ streams[s].used /\ ~streams[s].owned => streams[s].bytes = Fixed
  /\ streams[s].used => Holds(streams[s].bytes, streams[s].status, streams[s].len)
SlotsOK == \A s \in Slot : SlotOK(s)

SinkOK ==
  /\ sink.slot = 0 => ~sink.owned /\ sink.bytes \in {Guest, Null}
  /\ sink.slot # 0 =>
       /\ streams[sink.slot] = EmptySlot
       /\ sink.owned => sink.bytes \in HeapBuffers \cup {Null}
       /\ ~sink.owned => sink.bytes = Fixed /\ Used = {}
       /\ Holds(sink.bytes, sink.tag, sink.len)
  /\ sink.len <= sink.cap /\ sink.len = sink.given /\ sink.given <= sink.total

\* BuffersAccounted, block by block.
Owns(s, b) == streams[s].owned /\ streams[s].bytes = b
Carries(b) == sink.owned /\ sink.bytes = b
Owners ==
  /\ ~badFree
  /\ \A b \in HeapBuffers : b \in heap <=> (\E s \in Slot : Owns(s, b)) \/ Carries(b)
  /\ \A b \in HeapBuffers, s \in Slot : ~(Owns(s, b) /\ Carries(b))
  /\ \A b \in HeapBuffers, s, t \in Slot : s # t => ~(Owns(s, b) /\ Owns(t, b))

AllClosed == lib = "off" => sink = NoSink /\ \A s \in Slot : streams[s] = EmptySlot

IInv == StreamsTypeOK /\ SlotsOK /\ SinkOK /\ Owners /\ AllClosed
-----------------------------------------------------------------------------
LEMMA InitSafe == StreamsInit => IInv
<1> SUFFICES ASSUME StreamsInit PROVE IInv
  OBVIOUS
<1>1. StreamsTypeOK
  <2>1. EmptySlot \in SlotType
    BY StreamsAssumption DEF EmptySlot, SlotType, Buffer
  <2>2. Blank \in [tag : Tags \cup {NoTag}, len : 0 .. MaxBytes]
    BY StreamsAssumption DEF Blank
  <2>3. NoSink \in SinkType
    BY StreamsAssumption DEF NoSink, SinkType, Buffer
  <2> QED BY <2>1, <2>2, <2>3 DEF StreamsInit, StreamsTypeOK
<1>2. SlotsOK
  BY DEF StreamsInit, SlotsOK, SlotOK, EmptySlot, Holds
<1>3. SinkOK
  BY DEF StreamsInit, SinkOK, NoSink, Holds
<1>4. Owners
  BY DEF StreamsInit, Owners, Owns, Carries, EmptySlot, NoSink
<1>5. AllClosed
  BY DEF StreamsInit, AllClosed
<1> QED BY <1>1, <1>2, <1>3, <1>4, <1>5 DEF IInv

LEMMA SafeIsAccounted == IInv => BuffersAccounted
<1> SUFFICES ASSUME IInv PROVE BuffersAccounted
  OBVIOUS
<1>1. ASSUME NEW s \in Slot PROVE OwnedBy(s) \subseteq HeapBuffers /\ \A b : b \in OwnedBy(s) => Owns(s, b)
  BY <1>1 DEF IInv, SlotsOK, SlotOK, OwnedBy, Owns
<1>2. InFlight \subseteq HeapBuffers /\ \A b : b \in InFlight => Carries(b)
  BY DEF IInv, SinkOK, InFlight, Carries
<1>3. \A b \in HeapBuffers : /\ \A s \in Slot : Owns(s, b) => b \in OwnedBy(s)
                             /\ Carries(b) => b \in InFlight
  BY StreamsAssumption DEF Owns, Carries, OwnedBy, InFlight
<1> DEFINE Owned == UNION {OwnedBy(s) : s \in Slot}
<1>a. \A b : b \in Owned <=> \E s \in Slot : b \in OwnedBy(s)
  OBVIOUS
<1>b. \A b \in HeapBuffers : b \in heap <=> (\E s \in Slot : Owns(s, b)) \/ Carries(b)
  BY DEF IInv, Owners
<1>c. heap \subseteq HeapBuffers
  BY DEF IInv, StreamsTypeOK
<1> HIDE DEF Owned
<1>4. heap = Owned \cup InFlight
  BY <1>1, <1>2, <1>3, <1>a, <1>b, <1>c
<1>5. \A s \in Slot : OwnedBy(s) \cap InFlight = {}
  BY <1>1, <1>2 DEF IInv, Owners
<1>6. \A s, t \in Slot : s # t => OwnedBy(s) \cap OwnedBy(t) = {}
  BY <1>1 DEF IInv, Owners
<1>7. ~badFree
  BY DEF IInv, Owners
<1>8. heap = (UNION {OwnedBy(s) : s \in Slot}) \cup InFlight
  BY <1>4 DEF Owned
<1> QED BY <1>5, <1>6, <1>7, <1>8 DEF BuffersAccounted

LEMMA SafeReadsOwn == IInv => ReadsOwnResponse
BY DEF IInv, SlotsOK, SlotOK, Holds, ReadsOwnResponse, Used

LEMMA LeastOfNats ==
  ASSUME NEW S \in SUBSET Nat, S # {}
  PROVE  \E m \in S : \A n \in S : m <= n
<1>1. PICK m \in S : \A n \in S : ~(<<n, m>> \in OpToRel(<, Nat))
  BY WFMin, NatLessThanWellFounded
<1>2. ASSUME NEW n \in S, n < m PROVE FALSE
  <2>1. <<n, m>> \in OpToRel(<, Nat)
    BY <1>2 DEF OpToRel
  <2> QED BY <1>1, <2>1
<1> QED BY <1>2

LEMMA FirstIsUnused == Unused # {} => FirstUnused \in Unused
<1> SUFFICES ASSUME Unused # {} PROVE \E s \in Unused : \A t \in Unused : s <= t
  BY DEF FirstUnused
<1>1. Unused \in SUBSET Nat
  BY DEF Unused, Slot
<1> QED BY <1>1, LeastOfNats
-----------------------------------------------------------------------------
LEMMA EmptySlotType == EmptySlot \in SlotType
BY StreamsAssumption DEF EmptySlot, SlotType, Buffer
LEMMA NoSinkType == NoSink \in SinkType
BY StreamsAssumption DEF NoSink, SinkType, Buffer

LEMMA InitLibSafe ==
  ASSUME IInv, NEW lent \in BOOLEAN, InitNativeLib(lent)
  PROVE  IInv'
<1>1. /\ lib' = "on" /\ streams' = streams /\ sink = NoSink
      /\ borrowed' = lent /\ UNCHANGED <<sink, heap, content, badFree>>
  BY DEF IInv, AllClosed, InitNativeLib, StreamsTypeOK
<1>2. StreamsTypeOK'
  BY <1>1 DEF IInv, StreamsTypeOK
<1>3. SlotsOK' /\ Owners' /\ AllClosed'
  BY <1>1 DEF IInv, SlotsOK, SlotOK, Owners, AllClosed, Holds, Owns, Carries
<1>4. SinkOK'
  BY <1>1 DEF IInv, SinkOK, Holds, Used
<1> QED BY <1>2, <1>3, <1>4 DEF IInv

\* What is released belongs to slots that become empty.
LEMMA ReleaseSafe ==
  ASSUME IInv, GuestRuns, NEW S \in SUBSET Slot,
         Free({streams[s].bytes : s \in {t \in S : streams[t].owned}}),
         streams' = [s \in Slot |-> IF s \in S THEN EmptySlot ELSE streams[s]],
         UNCHANGED <<sink, content>>, borrowed' \in BOOLEAN,
         lib' = "on" \/ (lib' = "off" /\ S = Slot)
  PROVE  IInv'
<1>1. sink = NoSink /\ sink' = NoSink
  BY DEF GuestRuns
<1>2. heap' \subseteq heap
  BY DEF Free
<1>3. StreamsTypeOK'
  <2>1. streams' \in [Slot -> SlotType]
    BY EmptySlotType DEF IInv, StreamsTypeOK
  <2>2. heap' \subseteq HeapBuffers /\ badFree' \in BOOLEAN
    BY <1>2 DEF IInv, StreamsTypeOK, Free
  <2> QED BY <2>1, <2>2 DEF IInv, StreamsTypeOK
<1>4. SlotsOK'
  <2> SUFFICES ASSUME NEW s \in Slot PROVE SlotOK(s)'
    BY DEF SlotsOK
  <2>1. CASE s \in S
    <3>1. streams'[s] = EmptySlot
      BY <2>1
    <3> QED BY <3>1 DEF EmptySlot, SlotOK
  <2>2. CASE s \notin S
    <3>1. streams'[s] = streams[s]
      BY <2>2
    <3> QED BY <3>1 DEF IInv, SlotsOK, SlotOK, Holds
  <2> QED BY <2>1, <2>2
<1>5. SinkOK'
  BY <1>1 DEF SinkOK, NoSink, IInv
<1>6. Owners'
  <2>1. \A s \in S : \A b : streams[s].owned /\ streams[s].bytes = b /\ b # Null => b \in heap
    BY DEF IInv, Owners, Owns, SlotsOK, SlotOK
  <2>2. ~badFree'
    BY <2>1 DEF Free, IInv, Owners
  <2>3. ~sink.owned /\ ~sink'.owned
    BY <1>1 DEF NoSink
  <2>4. ASSUME NEW b \in HeapBuffers, NEW s \in Slot PROVE Owns(s, b)' <=> s \notin S /\ Owns(s, b)
    BY DEF Owns, EmptySlot
  <2>5. ASSUME NEW b \in HeapBuffers PROVE b \in heap' <=> b \in heap /\ ~\E s \in S : Owns(s, b)
    BY DEF Free, Owns
  <2>6. \A b \in HeapBuffers : b \in heap' <=> \E s \in Slot : Owns(s, b)'
    BY <2>3, <2>4, <2>5 DEF IInv, Owners, Carries
  <2> QED BY <2>2, <2>3, <2>4, <2>6 DEF IInv, Owners, Carries
<1>7. AllClosed'
  BY <1>1 DEF AllClosed
<1> QED BY <1>3, <1>4, <1>5, <1>6, <1>7 DEF IInv

LEMMA DeinitLibSafe == IInv /\ DeinitNativeLib => IInv'
<1> SUFFICES ASSUME IInv, DeinitNativeLib PROVE IInv'
  OBVIOUS
<1>1. streams' = [s \in Slot |-> IF s \in Slot THEN EmptySlot ELSE streams[s]]
  BY DEF DeinitNativeLib
<1> QED BY <1>1, ReleaseSafe DEF DeinitNativeLib

LEMMA StreamCloseSafe ==
  ASSUME IInv, NEW h \in Handle, StreamClose(h)
  PROVE  IInv'
<1>1. h \in Slot /\ GuestRuns /\ lib' = "on" /\ borrowed' \in BOOLEAN
  BY DEF StreamClose, Valid, GuestRuns, IInv, StreamsTypeOK
<1>2. streams' = [s \in Slot |-> IF s \in {h} THEN EmptySlot ELSE streams[s]]
  BY DEF StreamClose, IInv, StreamsTypeOK
<1>3. {streams[s].bytes : s \in {t \in {h} : streams[t].owned}}
        = IF streams[h].owned THEN {streams[h].bytes} ELSE {}
  OBVIOUS
<1>4. Free({streams[s].bytes : s \in {t \in {h} : streams[t].owned}})
  BY <1>3 DEF StreamClose
<1> QED BY <1>1, <1>2, <1>4, ReleaseSafe DEF StreamClose

LEMMA StreamNextSafe ==
  ASSUME IInv, NEW h \in Handle, NEW cap \in 0 .. MaxBytes, StreamNext(h, cap)
  PROVE  IInv'
<1>1. h \in Slot /\ lib = "on" /\ sink = NoSink /\ streams[h].used
  BY DEF StreamNext, Valid, GuestRuns
<1>2. /\ streams[h] \in SlotType /\ streams[h].cursor <= streams[h].len
  BY <1>1 DEF IInv, StreamsTypeOK, SlotsOK, SlotOK
<1> DEFINE moved == streams[h].cursor + ReadCount(Remaining(h), cap)
<1>3. moved \in 0 .. MaxBytes /\ moved <= streams[h].len
  BY <1>2, StreamsAssumption DEF ReadCount, Remaining, SlotType
<1>4. /\ streams' = [streams EXCEPT ![h].cursor = moved]
      /\ UNCHANGED <<lib, borrowed, sink, heap, content, badFree>>
  BY DEF StreamNext
<1> HIDE DEF moved
<1>5. StreamsTypeOK'
  <2>1. [streams[h] EXCEPT !.cursor = moved] \in SlotType
    BY <1>2, <1>3 DEF SlotType
  <2> QED BY <1>4, <2>1 DEF IInv, StreamsTypeOK
<1>6. ASSUME NEW s \in Slot
      PROVE  /\ streams'[s].used = streams[s].used /\ streams'[s].owned = streams[s].owned
             /\ streams'[s].bytes = streams[s].bytes /\ streams'[s].len = streams[s].len
             /\ streams'[s].status = streams[s].status /\ (s # h => streams'[s] = streams[s])
             /\ (s = h => streams'[s].cursor = moved)
  BY <1>1, <1>2, <1>4 DEF IInv, StreamsTypeOK, SlotType
<1>7. SlotsOK'
  <2> SUFFICES ASSUME NEW s \in Slot PROVE SlotOK(s)'
    BY DEF SlotsOK
  <2> QED BY <1>1, <1>3, <1>4, <1>6 DEF IInv, SlotsOK, SlotOK, Holds
<1>8. SinkOK'
  BY <1>1, <1>4 DEF IInv, SinkOK, NoSink
<1>9. Owners'
  BY <1>4, <1>6 DEF IInv, Owners, Owns, Carries
<1>10. AllClosed'
  BY <1>1, <1>4 DEF AllClosed
<1> QED BY <1>5, <1>7, <1>8, <1>9, <1>10 DEF IInv
-----------------------------------------------------------------------------
LEMMA StreamOpenSafe ==
  ASSUME IInv, NEW tag \in Tags, NEW total \in 0 .. Longest, StreamOpen(tag, total)
  PROVE  IInv'
<1>1. FirstUnused \in Slot /\ FirstUnused # 0 /\ ~streams[FirstUnused].used
  BY FirstIsUnused DEF StreamOpen, Admits, Unused, Used, Slot
<1>2. /\ sink' = [slot |-> FirstUnused, bytes |-> IF borrowed THEN Fixed ELSE Null,
                  owned |-> ~borrowed, cap |-> MaxBytes, len |-> 0, tag |-> tag, total |-> total,
                  given |-> 0, refused |-> FALSE]
      /\ sink = NoSink /\ lib = "on" /\ (borrowed => Used = {})
      /\ UNCHANGED <<lib, borrowed, streams, heap, content, badFree>>
  BY DEF StreamOpen, GuestRuns, Admits
<1>3. StreamsTypeOK'
  <2>1. sink' \in SinkType
    BY <1>1, <1>2, StreamsAssumption DEF SinkType, Buffer, IInv, StreamsTypeOK
  <2> QED BY <1>2, <2>1 DEF IInv, StreamsTypeOK
<1>4. SlotsOK'
  BY <1>2 DEF IInv, SlotsOK, SlotOK, Holds
<1>5. SinkOK'
  <2>1. streams[FirstUnused] = EmptySlot
    BY <1>1 DEF IInv, SlotsOK, SlotOK
  <2>2. /\ sink'.slot = FirstUnused /\ sink'.len = 0 /\ sink'.cap = MaxBytes /\ sink'.total = total
        /\ sink'.given = 0
        /\ sink'.owned = ~borrowed /\ (borrowed => sink'.bytes = Fixed) /\ (~borrowed => sink'.bytes = Null)
    BY <1>2
  <2>3. Used' = Used
    BY <1>2 DEF Used
  <2>4. Holds(sink.bytes, sink.tag, sink.len)'
    BY <2>2 DEF Holds
  <2>5. borrowed \in BOOLEAN /\ MaxBytes \in Nat /\ total \in Nat
    BY StreamsAssumption DEF IInv, StreamsTypeOK
  <2>6. streams'[sink'.slot] = EmptySlot /\ sink'.slot # 0
    BY <1>1, <1>2, <2>1, <2>2
  <2>7. sink'.owned => sink'.bytes \in HeapBuffers \cup {Null}
    BY <2>2, <2>5
  <2>8. ~sink'.owned => sink'.bytes = Fixed /\ Used' = {}
    BY <1>2, <2>2, <2>3, <2>5
  <2>9. sink'.len <= sink'.cap /\ sink'.len = sink'.given /\ sink'.given <= sink'.total
    BY <2>2, <2>5
  <2> QED BY <2>4, <2>6, <2>7, <2>8, <2>9 DEF SinkOK
<1>6. Owners'
  <2>1. \A b \in HeapBuffers : ~Carries(b)
    BY <1>2 DEF Carries, NoSink
  <2>2. sink'.bytes \in {Fixed, Null}
    BY <1>2
  <2>3. \A b \in HeapBuffers : ~Carries(b)'
    BY <2>2, StreamsAssumption DEF Carries
  <2>4. \A s \in Slot, b \in HeapBuffers : Owns(s, b)' <=> Owns(s, b)
    BY <1>2 DEF Owns
  <2> QED BY <1>2, <2>1, <2>3, <2>4 DEF IInv, Owners
<1> QED BY <1>2, <1>3, <1>4, <1>5, <1>6 DEF IInv, AllClosed

LEMMA HttpRequestSafe ==
  ASSUME IInv, NEW cap \in 0 .. MaxBytes, NEW tag \in Tags, NEW total \in 0 .. Longest,
         HttpRequest(cap, tag, total)
  PROVE  IInv'
<1>1. /\ sink' = [slot |-> 0, bytes |-> Guest, owned |-> FALSE,
                  cap |-> cap, len |-> 0, tag |-> tag, total |-> total,
                  given |-> 0, refused |-> FALSE]
      /\ sink = NoSink /\ lib = "on"
      /\ UNCHANGED <<lib, borrowed, streams, heap, content, badFree>>
  BY DEF HttpRequest, GuestRuns
<1>2. StreamsTypeOK'
  <2>1. sink' \in SinkType
    BY <1>1, StreamsAssumption DEF SinkType, Buffer
  <2> QED BY <1>1, <2>1 DEF IInv, StreamsTypeOK
<1>3. SlotsOK' /\ SinkOK' /\ Owners' /\ AllClosed'
  BY <1>1 DEF IInv, SlotsOK, SlotOK, SinkOK, Holds, Owners, Owns, Carries, NoSink, AllClosed
<1> QED BY <1>2, <1>3 DEF IInv

\* A piece that is stored: the request's block is kept, or moved to one that was free.
LEMMA StoreSafe ==
  ASSUME IInv, NEW count \in 1 .. Longest, Arrives(count), ~Overflows(count), Store(count, count),
         UNCHANGED <<lib, borrowed, streams, badFree>>
  PROVE  IInv'
<1>1. PICK b \in IF sink.owned THEN (HeapBuffers \ heap) \cup ({sink.bytes} \ {Null}) ELSE {sink.bytes} :
        /\ sink' = [sink EXCEPT !.bytes = b, !.len = @ + count, !.given = @ + count]
        /\ heap' = IF sink.owned THEN (heap \ {sink.bytes}) \cup {b} ELSE heap
        /\ content' = [c \in DOMAIN content |->
                         IF c = b THEN [tag |-> sink.tag, len |-> sink.len + count] ELSE content[c]]
  BY DEF Store
<1>2. /\ sink # NoSink /\ count \in 1 .. sink.total - sink.given /\ ~Overflows(count)
      /\ UNCHANGED <<lib, borrowed, streams, badFree>>
  BY DEF Arrives
<1>3. sink \in SinkType /\ heap \subseteq HeapBuffers /\ DOMAIN content = HeapBuffers \cup {Fixed}
  BY DEF IInv, StreamsTypeOK
<1>4. /\ sink'.slot = sink.slot /\ sink'.owned = sink.owned /\ sink'.cap = sink.cap
      /\ sink'.tag = sink.tag /\ sink'.total = sink.total /\ sink'.bytes = b
      /\ sink'.len = sink.len + count /\ sink'.len \in 1 .. MaxBytes
      /\ sink'.given = sink.given + count /\ sink'.given \in 1 .. sink.total
      /\ sink'.len <= sink.cap /\ sink'.refused = sink.refused
  BY <1>1, <1>2, <1>3, StreamsAssumption DEF SinkType, Overflows
<1>5. sink.slot # 0 => b # Null /\ b \in DOMAIN content /\ sink.slot \in Slot
  BY <1>1, <1>3, StreamsAssumption DEF IInv, SinkOK, SinkType
<1>6. sink.owned => sink.slot # 0 /\ b \in HeapBuffers /\ (b \notin heap \/ b = sink.bytes)
  BY <1>1, <1>3, StreamsAssumption DEF IInv, SinkOK
<1>7. StreamsTypeOK'
  <2>1. b \in Buffer
    BY <1>1, <1>3 DEF Buffer, SinkType
  <2>2. sink' \in SinkType
    <3>1. sink.len + count \in 0 .. MaxBytes /\ sink.given + count \in 0 .. Longest
      BY <1>3, <1>4, StreamsAssumption DEF SinkType
    <3> QED BY <1>1, <1>3, <2>1, <3>1 DEF SinkType
  <2>3. content' \in [HeapBuffers \cup {Fixed} -> [tag : Tags \cup {NoTag}, len : 0 .. MaxBytes]]
    BY <1>1, <1>3, <1>4 DEF IInv, StreamsTypeOK, SinkType
  <2>4. heap' \subseteq HeapBuffers
    BY <1>1, <1>3, <1>6
  <2> QED BY <1>2, <2>2, <2>3, <2>4 DEF IInv, StreamsTypeOK
\* No stream that is open reads from the block that is written.
<1>8. ASSUME NEW s \in Slot, streams[s].used, streams[s].len > 0
      PROVE  content'[streams[s].bytes] = content[streams[s].bytes]
  <2>1. streams[s].bytes # b \/ b \notin DOMAIN content
    <3>1. CASE sink.owned
      BY <1>6, <1>8, <3>1, StreamsAssumption DEF IInv, SlotsOK, SlotOK, Owners, Owns, Carries,
        Holds
    <3>2. CASE ~sink.owned
      BY <1>1, <1>3, <1>8, <3>2, StreamsAssumption DEF IInv, SinkOK, Used
    <3> QED BY <3>1, <3>2
  <2>2. streams[s].bytes \in DOMAIN content
    BY <1>3, <1>8 DEF IInv, SlotsOK, SlotOK, Holds, StreamsTypeOK, SlotType
  <2> QED BY <1>1, <2>1, <2>2
<1>9. SlotsOK'
  <2> SUFFICES ASSUME NEW s \in Slot PROVE SlotOK(s)'
    BY DEF SlotsOK
  <2> QED BY <1>2, <1>8 DEF IInv, SlotsOK, SlotOK, Holds
<1>10. SinkOK'
  BY <1>1, <1>2, <1>3, <1>4, <1>5, <1>6 DEF IInv, SinkOK, Holds, Used
<1>11. Owners'
  <2>1. ASSUME NEW s \in Slot, NEW c \in HeapBuffers PROVE Owns(s, c)' <=> Owns(s, c)
    BY <1>2 DEF Owns
  <2>2. CASE ~sink.owned
    BY <1>1, <1>2, <1>4, <2>1, <2>2 DEF IInv, Owners, Carries
  <2>3. CASE sink.owned
    <3>1. \A s \in Slot : ~Owns(s, b)
      BY <1>6, <2>3 DEF IInv, Owners, Carries
    <3>2. \A c \in HeapBuffers : Carries(c)' <=> c = b
      BY <1>4, <2>3 DEF Carries
    <3>3. \A c \in HeapBuffers : c \in heap' <=> c = b \/ (c \in heap /\ ~Carries(c))
      BY <1>1, <2>3 DEF Carries
    <3> QED BY <1>2, <2>1, <3>1, <3>2, <3>3 DEF IInv, Owners
  <2> QED BY <2>2, <2>3
<1>12. AllClosed'
  BY <1>2 DEF IInv, AllClosed
<1> QED BY <1>7, <1>9, <1>10, <1>11, <1>12 DEF IInv

\* A piece that is refused leaves the sink and its block as they are.
LEMMA WriteBodySafe ==
  ASSUME IInv, NEW count \in 1 .. Longest, WriteBody(count)
  PROVE  IInv'
<1>1. CASE ~Overflows(count) /\ Store(count, count)
  BY <1>1, StoreSafe DEF WriteBody
<1>2. CASE Refuse
  <2>1. /\ sink \in SinkType /\ sink' = [sink EXCEPT !.refused = TRUE] /\ sink # NoSink
        /\ UNCHANGED <<heap, content, lib, borrowed, streams, badFree>>
    BY <1>2 DEF IInv, StreamsTypeOK, WriteBody, Arrives, Refuse
  <2>2. sink' \in SinkType
    BY <2>1 DEF SinkType
  <2>3. /\ sink'.slot = sink.slot /\ sink'.bytes = sink.bytes /\ sink'.owned = sink.owned
        /\ sink'.cap = sink.cap /\ sink'.len = sink.len /\ sink'.tag = sink.tag
        /\ sink'.total = sink.total /\ sink'.given = sink.given
    BY <2>1 DEF SinkType
  <2>4. StreamsTypeOK'
    BY <2>1, <2>2 DEF IInv, StreamsTypeOK
  <2>5. SlotsOK'
    BY <2>1 DEF IInv, SlotsOK, SlotOK, Holds
  <2>6. SinkOK'
    BY <2>1, <2>3 DEF IInv, SinkOK, Holds, Used
  <2>7. Owners'
    BY <2>1, <2>3 DEF IInv, Owners, Owns, Carries
  <2>8. AllClosed'
    BY <2>1 DEF IInv, AllClosed
  <2> QED BY <2>4, <2>5, <2>6, <2>7, <2>8 DEF IInv
<1> QED BY <1>1, <1>2 DEF WriteBody

LEMMA RequestDoneSafe == IInv /\ RequestDone => IInv'
<1> SUFFICES ASSUME IInv, RequestDone PROVE IInv'
  OBVIOUS
<1> DEFINE opened == [used |-> TRUE, owned |-> sink.owned, status |-> sink.tag,
                      bytes |-> sink.bytes, len |-> sink.len, cursor |-> 0]
<1>1. /\ sink # NoSink /\ sink' = NoSink /\ UNCHANGED <<lib, borrowed, heap, content, badFree>>
      /\ streams' = IF sink.slot = 0 THEN streams ELSE [streams EXCEPT ![sink.slot] = opened]
  BY DEF RequestDone, Complete
<1>2. sink \in SinkType /\ streams \in [Slot -> SlotType]
  BY DEF IInv, StreamsTypeOK
<1>3. CASE sink.slot = 0
  <2>1. ~sink.owned /\ ~sink'.owned
    BY <1>1, <1>3 DEF IInv, SinkOK, NoSink
  <2> QED BY <1>1, <1>3, <2>1, NoSinkType DEF IInv, StreamsTypeOK, SlotsOK, SlotOK, SinkOK, Holds, Owners, Owns, Carries,
             NoSink, AllClosed
<1>4. CASE sink.slot # 0
  <2>1. sink.slot \in Slot /\ streams[sink.slot] = EmptySlot
    BY <1>2, <1>4 DEF IInv, SinkOK, SinkType
  <2>2. opened \in SlotType
    BY <1>2, StreamsAssumption DEF SinkType, SlotType
  <2>3. /\ streams'[sink.slot] = opened
        /\ \A s \in Slot : s # sink.slot => streams'[s] = streams[s]
    BY <1>1, <1>2, <1>4, <2>1
  <2>4. StreamsTypeOK'
    BY <1>1, <1>4, <2>2, NoSinkType DEF IInv, StreamsTypeOK
  <2>5. SlotsOK'
    <3> SUFFICES ASSUME NEW s \in Slot PROVE SlotOK(s)'
      BY DEF SlotsOK
    <3>1. CASE s = sink.slot
      BY <1>1, <1>2, <1>4, <2>3, <3>1 DEF IInv, SinkOK, SlotOK, Holds, SinkType
    <3>2. CASE s # sink.slot
      BY <1>1, <2>3, <3>2 DEF IInv, SlotsOK, SlotOK, Holds
    <3> QED BY <3>1, <3>2
  <2>6. SinkOK'
    BY <1>1 DEF SinkOK, NoSink
  <2>7. Owners'
    <3> PICK k \in Slot : k = sink.slot
      BY <2>1
    <3>1. \A b \in HeapBuffers : ~Carries(b)' /\ ~Owns(k, b)
      BY <1>1, <2>1 DEF Carries, NoSink, Owns, EmptySlot
    <3>2. \A b \in HeapBuffers : Owns(k, b)' <=> Carries(b)
      BY <2>3 DEF Owns, Carries
    <3>3. \A b \in HeapBuffers, s \in Slot : s # k => (Owns(s, b)' <=> Owns(s, b))
      BY <2>3 DEF Owns
    <3> QED BY <1>1, <3>1, <3>2, <3>3 DEF IInv, Owners
  <2>8. AllClosed'
    BY <1>1 DEF IInv, AllClosed
  <2> QED BY <2>4, <2>5, <2>6, <2>7, <2>8 DEF IInv
<1> QED BY <1>3, <1>4

LEMMA RequestFailedSafe == IInv /\ RequestFailed => IInv'
<1> SUFFICES ASSUME IInv, RequestFailed PROVE IInv'
  OBVIOUS
<1>1. /\ sink # NoSink /\ sink' = NoSink /\ UNCHANGED <<lib, borrowed, streams, content>>
      /\ Free(IF sink.owned THEN {sink.bytes} ELSE {})
  BY DEF RequestFailed
<1>2. StreamsTypeOK'
  BY <1>1, NoSinkType DEF IInv, StreamsTypeOK, Free
<1>3. SlotsOK' /\ SinkOK' /\ AllClosed'
  BY <1>1 DEF IInv, SlotsOK, SlotOK, SinkOK, Holds, NoSink, AllClosed
<1>4. Owners'
  <2>1. sink.owned => sink.bytes \in heap \cup {Null}
    BY DEF IInv, SinkOK, Owners, Carries
  <2>2. ~badFree'
    BY <1>1, <2>1 DEF Free, IInv, Owners
  <2>3. \A b \in HeapBuffers : b \in heap' <=> b \in heap /\ ~Carries(b)
    BY <1>1 DEF Free, Carries
  <2>4. \A b \in HeapBuffers : ~Carries(b)'
    BY <1>1 DEF Carries, NoSink
  <2>5. \A b \in HeapBuffers, s \in Slot : Owns(s, b)' <=> Owns(s, b)
    BY <1>1 DEF Owns
  <2> QED BY <2>2, <2>3, <2>4, <2>5 DEF IInv, Owners
<1> QED BY <1>2, <1>3, <1>4 DEF IInv
-----------------------------------------------------------------------------
LEMMA StepSafe == IInv /\ [StreamsNext]_streamsVars => IInv'
<1> SUFFICES ASSUME IInv, [StreamsNext]_streamsVars PROVE IInv'
  OBVIOUS
<1>1. CASE UNCHANGED streamsVars
  BY <1>1 DEF streamsVars, IInv, StreamsTypeOK, SlotsOK, SlotOK, SinkOK, Holds, Used, Owners,
    Owns, Carries, AllClosed
<1>2. CASE Request
  BY <1>2, StreamOpenSafe, HttpRequestSafe, WriteBodySafe, RequestDoneSafe, RequestFailedSafe DEF
    Request
<1>3. CASE (\E lent \in BOOLEAN : InitNativeLib(lent)) \/ DeinitNativeLib
  BY <1>3, InitLibSafe, DeinitLibSafe
<1>4. CASE \E h \in Handle : StreamClose(h) \/ \E cap \in 0 .. MaxBytes : StreamNext(h, cap)
  BY <1>4, StreamCloseSafe, StreamNextSafe
<1> QED BY <1>1, <1>2, <1>3, <1>4 DEF StreamsNext

\* Types, for any sizes: no cursor, sink or stream ever goes beyond MaxBytes.
THEOREM TypeCorrect == StreamsSpec => []StreamsTypeOK
<1>1. IInv => StreamsTypeOK
  BY DEF IInv
<1> QED BY <1>1, InitSafe, StepSafe, PTL DEF StreamsSpec

\* Every heap block has one owner: nothing leaks and nothing is freed twice, for any number of
\* slots and blocks.
THEOREM OneOwner == StreamsSpec => []BuffersAccounted
<1> QED BY SafeIsAccounted, InitSafe, StepSafe, PTL DEF StreamsSpec

\* What the guest reads from a stream is that stream's own response.
THEOREM OwnResponse == StreamsSpec => []ReadsOwnResponse
<1> QED BY SafeReadsOwn, InitSafe, StepSafe, PTL DEF StreamsSpec

\* A stream that was opened holds the whole response, for any sizes and any cutting into pieces:
\* the sender succeeds only when every piece was answered with its own count, and write_body
\* gives that answer only to a piece it has stored whole.
THEOREM WholeOrFailed == StreamsSpec => NeverTruncated
<1>1. IInv /\ [StreamsNext]_streamsVars =>
        [(sink # NoSink /\ sink' = NoSink /\ streams' # streams) =>
           streams'[sink.slot].len = sink.total]_streamsVars
  <2> SUFFICES ASSUME IInv, StreamsNext, sink # NoSink, sink' = NoSink, streams' # streams
               PROVE  streams'[sink.slot].len = sink.total
    OBVIOUS
  <2>1. RequestDone
    BY DEF StreamsNext, Request, InitNativeLib, DeinitNativeLib, GuestRuns, StreamOpen,
      HttpRequest, RequestFailed, StreamClose, StreamNext, WriteBody
  <2>2. sink.len = sink.total
    BY <2>1 DEF RequestDone, Complete, IInv, SinkOK
  <2> QED BY <2>1, <2>2 DEF RequestDone, IInv, StreamsTypeOK, SinkType
<1> QED BY <1>1, InitSafe, StepSafe, PTL DEF StreamsSpec, NeverTruncated
=============================================================================
