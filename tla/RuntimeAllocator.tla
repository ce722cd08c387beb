---------------------------- MODULE RuntimeAllocator ----------------------------
(***************************************************************************)
(* The allocator fx-wamr hands to WAMR (runtime/fx_wamr_runner.c:88-301).   *)
(*                                                                         *)
(* A request goes to one of three places:                                  *)
(*   - guest linear memory: one reserved arena, handed out whole;          *)
(*   - a runtime object larger than SmallMax: the metadata arena, which    *)
(*     holds at most MetadataSlots blocks and is searched first-fit;       *)
(*   - any other runtime object: libc.                                     *)
(*                                                                         *)
(* Linear memory is counted in pages (the module grows it by pages), the   *)
(* metadata arena in bytes, because its 8-byte rounding is what the        *)
(* search has to get right.  The borrowed arena is fixed PSRAM that Linux  *)
(* does not clear, so a new process finds what the last one left in it:    *)
(* "dirty" is the set of arena pages that are not all zero.                *)
(***************************************************************************)
EXTENDS Integers

CONSTANTS
  MetadataBytes,   \* FX_METADATA_BYTES, 0x20000 on the board
  MetadataSlots,   \* length of metadata_blocks, 2 on the board
  SmallMax,        \* largest runtime object left to libc, 32768 on the board
  LinearPages,     \* FX_WAMR_LINEAR_RESERVE_BYTES in guest pages
  Sizes,           \* sizes of the runtime objects WAMR asks for
  LibcBlocks       \* names of the libc allocations that may be live at once

ASSUME SizesAssumption ==
  /\ MetadataBytes \in Nat /\ MetadataBytes % 8 = 0
  /\ MetadataSlots \in Nat \ {0}
  /\ SmallMax \in Nat
  /\ LinearPages \in Nat
  /\ Sizes \subseteq Nat

VARIABLES
  phase,      \* "down": no process; "up": between init and destroy
  borrowed,   \* the linear arena is the reserved PSRAM, not a private mapping
  blocks,     \* metadata_blocks: slot -> [offset, size]; size 0 is a free slot
  search,     \* the first-fit loop of metadata_malloc, or Idle
  held,       \* the metadata blocks WAMR believes it owns
  libc,       \* live libc allocations: name -> size, NotLive when free
  linear,     \* [in_use, used] of the linear arena
  dirty       \* pages of the linear arena that may hold nonzero bytes

vars == <<phase, borrowed, blocks, search, held, libc, linear, dirty>>
heap == <<held, libc>>
arena == <<linear, dirty>>

Slot == 0 .. MetadataSlots - 1
Page == 0 .. LinearPages - 1
NotLive == -1
FreeBlock == [offset |-> 0, size |-> 0]
Idle == [slot |-> MetadataSlots, size |-> 0, offset |-> 0]
NoLinear == [in_use |-> FALSE, used |-> 0]

\* Faulty: rounding down.
AlignDown(n) == n - (n % 8)

AlignUp(n) == (n + 7) - ((n + 7) % 8)
End(b) == b.offset + b.size
Live(s) == blocks[s].size > 0
LiveSlots == {s \in Slot : Live(s)}
LiveBlocks == {blocks[s] : s \in LiveSlots}

\* A request of "size" bytes placed at "offset" would overlap block b.
Overlaps(offset, size, b) == offset < End(b) /\ offset + size > b.offset

\* "offset" is free for "size" bytes of the arena.
Fits(offset, size) ==
  /\ offset + size <= MetadataBytes
  /\ \A s \in LiveSlots : ~Overlaps(offset, size, blocks[s])

Init ==
  /\ phase = "down"
  /\ borrowed = FALSE
  /\ blocks = [s \in Slot |-> FreeBlock]
  /\ search = Idle
  /\ held = {}
  /\ libc = [p \in LibcBlocks |-> NotLive]
  /\ linear = NoLinear
  /\ dirty \in SUBSET Page

\* WAMR is single threaded: it makes its next call when the last returned.
Calling == phase = "up" /\ search = Idle
-----------------------------------------------------------------------------
(* Process lifetime. *)

\* init_wamr_allocator succeeds: the reserved PSRAM keeps its contents, a
\* private anonymous mapping starts zeroed.
InitAllocator(b) ==
  /\ phase = "down"
  /\ phase' = "up"
  /\ borrowed' = b
  /\ dirty' = IF b THEN dirty ELSE {}
  /\ UNCHANGED <<blocks, search, heap, linear>>

\* What is left when the process is gone; the arena outlives it if borrowed.
ProcessGone ==
  /\ phase' = "down"
  /\ blocks' = [s \in Slot |-> FreeBlock]
  /\ search' = Idle
  /\ held' = {}
  /\ libc' = [p \in LibcBlocks |-> NotLive]
  /\ linear' = NoLinear
  /\ borrowed' = FALSE
  /\ UNCHANGED dirty

\* destroy_wamr_allocator, after the runtime has returned all it held.
DestroyAllocator ==
  /\ Calling
  /\ held = {} /\ ~linear.in_use
  /\ ProcessGone

\* The process is killed at any point, also inside the search.
Killed == phase = "up" /\ ProcessGone
-----------------------------------------------------------------------------
(* Metadata blocks: runtime objects of more than SmallMax bytes. *)

FreeSlots == {s \in Slot : ~Live(s)}
FirstFreeSlot == CHOOSE s \in FreeSlots : \A t \in FreeSlots : s <= t

\* metadata_malloc up to its loop: it returns NULL at once, leaving no trace,
\* for a size of 0 or above the arena and when every slot is taken.
MetadataMalloc(size) ==
  /\ Calling
  /\ size > SmallMax
  /\ size > 0 /\ size <= MetadataBytes
  /\ FreeSlots # {}
  /\ search' = [slot |-> FirstFreeSlot, size |-> size, offset |-> 0]
  /\ UNCHANGED <<phase, borrowed, blocks, heap, arena>>

\* Faulty: the scan stops before the last slot.
ConflictsFirstSlot ==
  {s \in LiveSlots : s = 0 /\ Overlaps(search.offset, search.size, blocks[s])}

Conflicts == {s \in LiveSlots : Overlaps(search.offset, search.size, blocks[s])}
FirstConflict == CHOOSE s \in Conflicts : \A t \in Conflicts : s <= t

\* Faulty: a request that fits exactly is refused.
TooFarEqual == search.size >= MetadataBytes - search.offset

TooFar == search.size > MetadataBytes - search.offset

\* One turn of for (;;): the candidate overlaps a block and moves past it.
SearchSkip ==
  /\ search # Idle
  /\ ~TooFar
  /\ Conflicts # {}
  /\ search' = [search EXCEPT !.offset = AlignUp(End(blocks[FirstConflict]))]
  /\ UNCHANGED <<phase, borrowed, blocks, heap, arena>>

\* The loop ends: the candidate is free and becomes the block.
SearchPlace ==
  /\ search # Idle
  /\ ~TooFar
  /\ Conflicts = {}
  /\ LET placed == [offset |-> search.offset, size |-> search.size]
     IN /\ blocks' = [blocks EXCEPT ![search.slot] = placed]
        /\ held' = held \cup {placed}
  /\ search' = Idle
  /\ UNCHANGED <<phase, borrowed, libc, arena>>

\* The loop ends: no room behind the candidate, NULL is returned.
SearchFail ==
  /\ search # Idle
  /\ TooFar
  /\ search' = Idle
  /\ UNCHANGED <<phase, borrowed, blocks, heap, arena>>

Search == SearchSkip \/ SearchPlace \/ SearchFail

\* metadata_slot: the slot whose live block starts at this offset.
SlotsAt(offset) == {s \in LiveSlots : blocks[s].offset = offset}
\* Faulty: any live slot will do.
AnyLiveSlot(offset) == CHOOSE s \in LiveSlots : \A t \in LiveSlots : s <= t
MetadataSlot(offset) == CHOOSE s \in SlotsAt(offset) : \A t \in SlotsAt(offset) : s <= t

\* Faulty: a resize forgets the other blocks.
CanResizeOverlapping(s, size) == size <= MetadataBytes - blocks[s].offset

\* wamr_realloc of a metadata block: in place or NULL; size 0 frees it.
CanResize(s, size) ==
  /\ size <= MetadataBytes - blocks[s].offset
  /\ \A t \in LiveSlots \ {s} : ~Overlaps(blocks[s].offset, size, blocks[t])

MetadataRealloc(b, size) ==
  /\ Calling
  /\ b \in held
  /\ SlotsAt(b.offset) # {}
  /\ CanResize(MetadataSlot(b.offset), size)
  /\ LET s == MetadataSlot(b.offset)
         resized == [blocks[s] EXCEPT !.size = size]
     IN /\ blocks' = [blocks EXCEPT ![s] = resized]
        /\ held' = (held \ {b}) \cup (IF size > 0 THEN {resized} ELSE {})
  /\ UNCHANGED <<phase, borrowed, search, libc, arena>>

\* wamr_free of a metadata block: the slot keeps its offset, size becomes 0.
MetadataFree(b) ==
  /\ Calling
  /\ b \in held
  /\ SlotsAt(b.offset) # {}
  /\ blocks' = [blocks EXCEPT ![MetadataSlot(b.offset)].size = 0]
  /\ held' = held \ {b}
  /\ UNCHANGED <<phase, borrowed, search, libc, arena>>
-----------------------------------------------------------------------------
(* libc blocks: runtime objects of at most SmallMax bytes. *)

LibcMalloc(p, size) ==
  /\ Calling
  /\ libc[p] = NotLive
  /\ size <= SmallMax
  /\ libc' = [libc EXCEPT ![p] = size]
  /\ UNCHANGED <<phase, borrowed, blocks, search, held, arena>>

\* A libc block may not grow past SmallMax: the caller gets NULL and keeps it.
LibcRealloc(p, size) ==
  /\ Calling
  /\ libc[p] # NotLive
  /\ size <= SmallMax
  /\ libc' = [libc EXCEPT ![p] = IF size > 0 THEN size ELSE NotLive]
  /\ UNCHANGED <<phase, borrowed, blocks, search, held, arena>>

LibcFree(p) ==
  /\ Calling
  /\ libc[p] # NotLive
  /\ libc' = [libc EXCEPT ![p] = NotLive]
  /\ UNCHANGED <<phase, borrowed, blocks, search, held, arena>>
-----------------------------------------------------------------------------
(* Guest linear memory. *)

LinearMalloc(n) ==
  /\ Calling
  /\ ~linear.in_use
  /\ n <= LinearPages
  /\ dirty' = dirty \ (0 .. n - 1)
  /\ linear' = [in_use |-> TRUE, used |-> n]
  /\ UNCHANGED <<phase, borrowed, blocks, search, heap>>

\* Faulty: growth misses the first page it exposes, or clears from the start.
LinearReallocLate(n) ==
  /\ Calling
  /\ linear.in_use
  /\ n <= LinearPages
  /\ dirty' = dirty \ (linear.used + 1 .. n - 1)
  /\ linear' = [linear EXCEPT !.used = n]
  /\ UNCHANGED <<phase, borrowed, blocks, search, heap>>
LinearReallocClearing(n) ==
  /\ Calling
  /\ linear.in_use
  /\ n <= LinearPages
  /\ dirty' = dirty \ (0 .. n - 1)
  /\ linear' = [linear EXCEPT !.used = n]
  /\ UNCHANGED <<phase, borrowed, blocks, search, heap>>

\* Growing clears the pages it exposes; shrinking leaves them as they are.
LinearRealloc(n) ==
  /\ Calling
  /\ linear.in_use
  /\ n <= LinearPages
  /\ dirty' = dirty \ (linear.used .. n - 1)
  /\ linear' = [linear EXCEPT !.used = n]
  /\ UNCHANGED <<phase, borrowed, blocks, search, heap>>

LinearFree ==
  /\ Calling
  /\ linear.in_use
  /\ linear' = NoLinear
  /\ UNCHANGED <<phase, borrowed, blocks, search, heap, dirty>>

\* The guest stores into a page of its memory.
GuestStore(p) ==
  /\ Calling
  /\ linear.in_use
  /\ p < linear.used
  /\ dirty' = dirty \cup {p}
  /\ UNCHANGED <<phase, borrowed, blocks, search, heap, linear>>
-----------------------------------------------------------------------------
Metadata ==
  \/ \E size \in Sizes : MetadataMalloc(size)
  \/ Search
  \/ \E b \in held : MetadataFree(b) \/ \E size \in Sizes : MetadataRealloc(b, size)

Libc ==
  \E p \in LibcBlocks :
    LibcFree(p) \/ \E size \in Sizes : LibcMalloc(p, size) \/ LibcRealloc(p, size)

Linear ==
  \/ \E n \in 0 .. LinearPages : LinearMalloc(n) \/ LinearRealloc(n)
  \/ LinearFree
  \/ \E p \in Page : GuestStore(p)

Next ==
  \/ \E b \in BOOLEAN : InitAllocator(b)
  \/ DestroyAllocator
  \/ Killed
  \/ Metadata
  \/ Libc
  \/ Linear

Spec == Init /\ [][Next]_vars

\* The search is straight-line code of one process: while the process runs it
\* takes its next turn.
FairSpec == Spec /\ WF_vars(Search)
-----------------------------------------------------------------------------
(* What the allocator promises. *)

Block == [offset : 0 .. MetadataBytes, size : 0 .. MetadataBytes]
Candidate == [slot : Slot, size : 1 .. MetadataBytes, offset : 0 .. MetadataBytes]

TypeOK ==
  /\ phase \in {"down", "up"}
  /\ borrowed \in BOOLEAN
  /\ blocks \in [Slot -> Block]
  /\ search \in Candidate \cup {Idle}
  /\ held \subseteq Block
  /\ libc \in [LibcBlocks -> Nat \cup {NotLive}]
  /\ linear \in [in_use : BOOLEAN, used : 0 .. LinearPages]
  /\ dirty \subseteq Page

\* Live metadata blocks lie in the arena, on 8-byte boundaries, and never
\* overlap, whatever the order of malloc, in-place realloc and free
\* (metadata_malloc and wamr_realloc together).
ArenaSafe ==
  /\ \A s \in LiveSlots : blocks[s].offset % 8 = 0 /\ End(blocks[s]) <= MetadataBytes
  /\ \A s, t \in LiveSlots : s # t =>
       \/ End(blocks[s]) <= blocks[t].offset
       \/ End(blocks[t]) <= blocks[s].offset

\* The candidates the search left behind are all taken: when it places a block,
\* it places it first-fit, and a candidate it skips was never usable.
NoFitBelow ==
  search # Idle =>
    /\ search.offset % 8 = 0
    /\ ~Live(search.slot)
    /\ \A o \in 0 .. search.offset - 1 : o % 8 = 0 => ~Fits(o, search.size)

HeldIsLive == held = LiveBlocks
LibcIsSmall == \A p \in LibcBlocks : libc[p] <= SmallMax

\* The pointers WAMR holds are exactly the live slots, and each resolves to one
\* slot, so wamr_free and wamr_realloc recognise every arena pointer and never
\* pass one on to libc; and libc never holds an object above SmallMax, also
\* after a realloc (fx_wamr_runner.c:260-264, 282-300).
HeapsSeparate ==
  /\ HeldIsLive
  /\ \A b \in held : \E s \in LiveSlots : SlotsAt(b.offset) = {s} /\ blocks[s] = b
  /\ LibcIsSmall

\* "First-fit also handles reuse in either free order" (:175-177): a search
\* fails only when no aligned offset of the arena could take the request.
FailsOnlyWithoutRoom ==
  [][(search # Idle /\ search' = Idle /\ phase' = "up" /\ held' = held) =>
       \A o \in 0 .. MetadataBytes : o % 8 = 0 => ~Fits(o, search.size)]_vars

\* A page of guest memory that was not visible before is zero when it appears:
\* after the first allocation in an arena an earlier process left dirty, after
\* a free and a new allocation, and when memory shrinks and grows again.
FreshPagesZero ==
  [][\A p \in Page : (p >= linear.used /\ p < linear'.used) => p \notin dirty']_vars

\* Resizing guest memory never loses what the guest stored in a page it keeps.
StoredPagesKept ==
  [][(linear.in_use /\ linear'.in_use) =>
       \A p \in dirty : (p < linear.used /\ p < linear'.used) => p \in dirty']_vars

\* The for (;;) of metadata_malloc comes to an end.
SearchEnds == search # Idle ~> search = Idle

\* Seen from WAMR the arena is a set of disjoint regions (module ArenaRegions).
Regions == INSTANCE ArenaRegions WITH Bytes <- MetadataBytes, regions <- LiveBlocks
ImplementsRegions == Regions!Spec
=============================================================================
