------------------------------ MODULE HttpStreams ------------------------------
(***************************************************************************)
(* The provider streams the runtime offers the guest                       *)
(* (runtime/fx_wamr_native.c): a request runs to completion into a byte     *)
(* sink, a successful one becomes a stream slot, the guest reads it in      *)
(* pieces and closes it.                                                   *)
(*                                                                         *)
(* The sink writes into one of three buffers: a heap block of its own, the  *)
(* one fixed buffer the runner lent ("borrowed" mode, on the board), or the *)
(* guest's memory (http_request, which makes no stream).  A response is a   *)
(* tag and a length; the tag stands for its status and its bytes.           *)
(***************************************************************************)
EXTENDS Integers

CONSTANTS
  MaxStreams,     \* FX_WAMR_MAX_STREAMS, 4
  MaxBytes,       \* FX_WAMR_MAX_STREAM_BYTES, also the size of the fixed buffer
  HeapBuffers,    \* addresses malloc can return
  Tags,           \* distinguishable responses
  Longest,        \* longest response a server sends
  Fixed, Guest, Null   \* the lent buffer, a guest buffer, no buffer

NoTag == "none"

ASSUME StreamsAssumption ==
  /\ MaxStreams \in Nat \ {0}
  /\ MaxBytes \in Nat /\ Longest \in Nat
  /\ Fixed # Guest /\ Fixed # Null /\ Guest # Null
  /\ {Fixed, Guest, Null} \cap HeapBuffers = {}
  /\ NoTag \notin Tags

VARIABLES
  lib,        \* "off" | "on": between init_native_lib and deinit_native_lib
  borrowed,   \* borrowed_stream_buffer is set
  streams,    \* the slots
  sink,       \* the request in progress, or NoSink
  heap,       \* heap buffers that are allocated
  content,    \* what the runtime's buffers hold: response tag and length
  badFree     \* free was called with a pointer that is not allocated

streamsVars == <<lib, borrowed, streams, sink, heap, content, badFree>>

Slot == 1 .. MaxStreams
Handle == 0 .. MaxStreams + 1     \* valid handles and one on either side
EmptySlot == [used |-> FALSE, owned |-> FALSE, status |-> NoTag,
              bytes |-> Null, len |-> 0, cursor |-> 0]
\* given and refused are the sender's: the bytes it has handed over, and whether a
\* piece was answered with another count than its own.
NoSink == [slot |-> 0, bytes |-> Null, owned |-> FALSE, cap |-> 0, len |-> 0,
           tag |-> NoTag, total |-> 0, given |-> 0, refused |-> FALSE]
Blank == [tag |-> NoTag, len |-> 0]

StreamsInit ==
  /\ lib = "off" /\ borrowed = FALSE
  /\ streams = [s \in Slot |-> EmptySlot]
  /\ sink = NoSink
  /\ heap = {}
  /\ content = [b \in HeapBuffers \cup {Fixed} |-> Blank]
  /\ badFree = FALSE

\* The guest is one thread and a request blocks it until it is over.
GuestRuns == lib = "on" /\ sink = NoSink

\* free(p) for each p in ps: NULL is harmless, anything else must be allocated.
Free(ps) ==
  /\ heap' = heap \ ps
  /\ badFree' = (badFree \/ ~((ps \ {Null}) \subseteq heap))

\* fx_wamr_set_stream_buffer and init_native_lib, at the start of a run.
InitNativeLib(lent) ==
  /\ lib = "off"
  /\ lib' = "on"
  /\ borrowed' = lent
  /\ streams' = [s \in Slot |-> EmptySlot]
  /\ UNCHANGED <<sink, heap, content, badFree>>

\* deinit_native_lib: whatever the guest left open is released.
DeinitNativeLib ==
  /\ GuestRuns
  /\ Free({streams[s].bytes : s \in {t \in Slot : streams[t].owned}})
  /\ lib' = "off"
  /\ borrowed' = FALSE
  /\ streams' = [s \in Slot |-> EmptySlot]
  /\ UNCHANGED <<sink, content>>
-----------------------------------------------------------------------------
(* A request, from the guest's call to the end of perform_request. *)

Used == {s \in Slot : streams[s].used}
Unused == Slot \ Used
FirstUnused == CHOOSE s \in Unused : \A t \in Unused : s <= t

\* Faulty: a second stream may be opened on the lent buffer.
AdmitsAny == Unused # {}

\* fx_http_stream_open_wrapper refuses at once when every slot is taken, and in
\* borrowed mode when any is.
Admits == Unused # {} /\ (borrowed => Used = {})

StreamOpen(tag, total) ==
  /\ GuestRuns
  /\ Admits
  /\ sink' = [slot |-> FirstUnused,
              bytes |-> IF borrowed THEN Fixed ELSE Null,
              owned |-> ~borrowed,
              cap |-> MaxBytes, len |-> 0, tag |-> tag, total |-> total,
              given |-> 0, refused |-> FALSE]
  /\ UNCHANGED <<lib, borrowed, streams, heap, content, badFree>>

\* fx_http_request_wrapper: the sink is the guest's own buffer.
HttpRequest(cap, tag, total) ==
  /\ GuestRuns
  /\ sink' = [slot |-> 0, bytes |-> Guest, owned |-> FALSE,
              cap |-> cap, len |-> 0, tag |-> tag, total |-> total,
              given |-> 0, refused |-> FALSE]
  /\ UNCHANGED <<lib, borrowed, streams, heap, content, badFree>>

\* Curl hands over the next piece, of any size, until one is refused.  The local
\* catalog and the fixture call write_body piece by piece in the same way.
Arrives(count) == sink # NoSink /\ ~sink.refused /\ count \in 1 .. sink.total - sink.given

Overflows(count) == count > sink.cap - sink.len

\* The piece is answered with its own count: its first `kept` bytes go behind the
\* sink's.  An owned sink reallocs to the full capacity on every piece: the block may
\* move, and its contents with it.
Store(kept, count) ==
  \E b \in IF sink.owned THEN (HeapBuffers \ heap) \cup ({sink.bytes} \ {Null})
           ELSE {sink.bytes} :
    /\ sink' = [sink EXCEPT !.bytes = b, !.len = @ + kept, !.given = @ + count]
    /\ heap' = IF sink.owned THEN (heap \ {sink.bytes}) \cup {b} ELSE heap
    /\ content' = [c \in DOMAIN content |->
                     IF c = b THEN [tag |-> sink.tag, len |-> sink.len + kept]
                     ELSE content[c]]

\* It is answered with 0, which is not its count.
Refuse == sink' = [sink EXCEPT !.refused = TRUE] /\ UNCHANGED <<heap, content>>

\* Faulty: a piece that does not fit is cut, and answered as if it were whole.
WriteBodyClamps(count) ==
  /\ Arrives(count)
  /\ Store(IF Overflows(count) THEN sink.cap - sink.len ELSE count, count)
  /\ UNCHANGED <<lib, borrowed, streams, badFree>>

\* write_body: a piece that does not fit, or whose realloc fails, is refused whole.
WriteBody(count) ==
  /\ Arrives(count)
  /\ \/ ~Overflows(count) /\ Store(count, count)
     \/ (Overflows(count) \/ sink.owned) /\ Refuse
  /\ UNCHANGED <<lib, borrowed, streams, badFree>>

\* The sender reports success when it has handed everything over and nothing was
\* refused; it does not know what the sink holds.
Complete == sink # NoSink /\ ~sink.refused /\ sink.given = sink.total

\* perform_request returns 0; a stream request becomes a slot at its beginning.
RequestDone ==
  /\ Complete
  /\ streams' = IF sink.slot = 0 THEN streams
                ELSE [streams EXCEPT ![sink.slot] =
                        [used |-> TRUE, owned |-> sink.owned, status |-> sink.tag,
                         bytes |-> sink.bytes, len |-> sink.len, cursor |-> 0]]
  /\ sink' = NoSink
  /\ UNCHANGED <<lib, borrowed, heap, content, badFree>>

\* perform_request returns -1 at any point: a bad argument, no route, a timeout,
\* a piece that was refused.
RequestFailed ==
  /\ sink # NoSink
  /\ Free(IF sink.owned THEN {sink.bytes} ELSE {})
  /\ sink' = NoSink
  /\ UNCHANGED <<lib, borrowed, streams, content>>
-----------------------------------------------------------------------------
(* The guest reads and closes; it may use any handle, also one it closed. *)

Valid(h) == h \in Slot
Remaining(s) == streams[s].len - streams[s].cursor

\* fx_http_stream_next_wrapper copies at most what is left.
ReadCount(remaining, cap) == IF remaining < cap THEN remaining ELSE cap

StreamNext(h, cap) ==
  /\ GuestRuns
  /\ Valid(h) /\ streams[h].used
  /\ streams' = [streams EXCEPT ![h].cursor = @ + ReadCount(Remaining(h), cap)]
  /\ UNCHANGED <<lib, borrowed, sink, heap, content, badFree>>

\* Faulty: the slot is marked unused but keeps its pointer.
CloseKeepsPointer(h) ==
  /\ GuestRuns
  /\ Valid(h)
  /\ Free(IF streams[h].owned THEN {streams[h].bytes} ELSE {})
  /\ streams' = [streams EXCEPT ![h].used = FALSE]
  /\ UNCHANGED <<lib, borrowed, sink, content>>

\* fx_http_stream_close_wrapper does not ask whether the slot is used: a slot
\* closed before is all zero, so closing it again frees nothing.
StreamClose(h) ==
  /\ GuestRuns
  /\ Valid(h)
  /\ Free(IF streams[h].owned THEN {streams[h].bytes} ELSE {})
  /\ streams' = [streams EXCEPT ![h] = EmptySlot]
  /\ UNCHANGED <<lib, borrowed, sink, content>>

Request ==
  \/ \E tag \in Tags, total \in 0 .. Longest :
       StreamOpen(tag, total) \/ \E cap \in 0 .. MaxBytes : HttpRequest(cap, tag, total)
  \/ \E count \in 1 .. Longest : WriteBody(count)
  \/ RequestDone
  \/ RequestFailed

StreamsNext ==
  \/ \E lent \in BOOLEAN : InitNativeLib(lent)
  \/ DeinitNativeLib
  \/ Request
  \/ \E h \in Handle : StreamClose(h) \/ \E cap \in 0 .. MaxBytes : StreamNext(h, cap)

StreamsSpec == StreamsInit /\ [][StreamsNext]_streamsVars
-----------------------------------------------------------------------------
Buffer == HeapBuffers \cup {Fixed, Guest, Null}
SlotType == [used : BOOLEAN, owned : BOOLEAN, status : Tags \cup {NoTag},
             bytes : Buffer, len : 0 .. MaxBytes, cursor : 0 .. MaxBytes]
SinkType == [slot : Slot \cup {0}, bytes : Buffer, owned : BOOLEAN, cap : 0 .. MaxBytes,
             len : 0 .. MaxBytes, tag : Tags \cup {NoTag}, total : 0 .. Longest,
             given : 0 .. Longest, refused : BOOLEAN]

StreamsTypeOK ==
  /\ lib \in {"off", "on"} /\ borrowed \in BOOLEAN /\ badFree \in BOOLEAN
  /\ streams \in [Slot -> SlotType]
  /\ sink \in SinkType
  /\ heap \subseteq HeapBuffers
  /\ content \in [HeapBuffers \cup {Fixed} -> [tag : Tags \cup {NoTag}, len : 0 .. MaxBytes]]

OwnedBy(s) == IF streams[s].owned THEN {streams[s].bytes} \ {Null} ELSE {}
InFlight == IF sink.owned THEN {sink.bytes} \ {Null} ELSE {}

\* Every heap buffer has exactly one owner, an open stream or the request in
\* progress: nothing leaks, and no sequence of open, failure, close, second close
\* and deinit frees a buffer twice (open, close and deinit together).
BuffersAccounted ==
  /\ ~badFree
  /\ heap = (UNION {OwnedBy(s) : s \in Slot}) \cup InFlight
  /\ \A s \in Slot : OwnedBy(s) \cap InFlight = {}
  /\ \A s, t \in Slot : s # t => OwnedBy(s) \cap OwnedBy(t) = {}

\* As long as a stream is open its buffer holds its own response: no later
\* request, on the lent buffer or a reused heap block, writes over unread bytes
\* ("concurrent opens fail closed", fx_wamr_native.c:278-282).
ReadsOwnResponse ==
  \A s \in Used :
    /\ streams[s].cursor <= streams[s].len
    /\ streams[s].len > 0 =>
         content[streams[s].bytes] = [tag |-> streams[s].status, len |-> streams[s].len]

\* A stream that was opened holds the whole response, however it was cut into
\* pieces: one that is too long for its buffer, or meets a realloc that fails, never
\* becomes a shorter stream, because write_body's answer makes curl fail
\* (fx_wamr_native.c:311-345, 913-920).
NeverTruncated ==
  [][(sink # NoSink /\ sink' = NoSink /\ streams' # streams) =>
       streams'[sink.slot].len = sink.total]_streamsVars
=============================================================================
