------------------------- MODULE RuntimeAllocatorProofs -------------------------
(***************************************************************************)
(* Theorems about RuntimeAllocator, for every arena size, number of slots   *)
(* and set of request sizes.                                               *)
(***************************************************************************)
EXTENDS RuntimeAllocator, WellFoundedInduction, TLAPS

\* Rounding up to 8 gives the least multiple of 8 that is not smaller, and
\* stays inside an arena whose size is a multiple of 8.
LEMMA AlignUpLemma ==
  ASSUME NEW n \in Nat
  PROVE  /\ AlignUp(n) \in Nat
         /\ AlignUp(n) >= n
         /\ AlignUp(n) % 8 = 0
         /\ \A o \in Int : o % 8 = 0 /\ o >= n => o >= AlignUp(n)
BY DEF AlignUp

\* A nonempty finite range of slots has a least element, so the CHOOSEs that
\* stand for the code's upward scans return a slot of the set.
LEMMA LeastSlot ==
  ASSUME NEW S \in SUBSET Slot, S # {}
  PROVE  (CHOOSE s \in S : \A t \in S : s <= t) \in S
<1>1. S \subseteq Nat
  BY SizesAssumption DEF Slot
<1>2. PICK s \in S : \A t \in S : ~ (<<t, s>> \in OpToRel(<, Nat))
  BY <1>1, WFMin, NatLessThanWellFounded
<1>3. ASSUME NEW t \in S
      PROVE  s <= t
  <2>1. s \in Nat /\ t \in Nat
    BY <1>1
  <2>2. SUFFICES ASSUME t < s
                 PROVE  FALSE
    BY <2>1, SMT
  <2>3. <<t, s>> \in Nat \X Nat /\ <<t, s>>[1] = t /\ <<t, s>>[2] = s
    BY <2>1
  <2>4. <<t, s>> \in OpToRel(<, Nat)
    BY <2>2, <2>3, Zenon DEF OpToRel
  <2>5. QED
    BY <1>2, <2>4
<1>4. QED
  BY <1>3

-----------------------------------------------------------------------------
(***************************************************************************)
(* The inductive invariant.  TypeOK alone is not inductive: that a candidate *)
(* stays inside the arena after a skip needs that the block it skips does.   *)
(***************************************************************************)
IInv == TypeOK /\ ArenaSafe /\ NoFitBelow /\ HeldIsLive /\ LibcIsSmall

\* The values every variable starts from have their type.
LEMMA FreeIsTyped ==
  /\ [s \in Slot |-> FreeBlock] \in [Slot -> Block]
  /\ [p \in LibcBlocks |-> NotLive] \in [LibcBlocks -> Nat \cup {NotLive}]
  /\ NoLinear \in [in_use : BOOLEAN, used : 0 .. LinearPages]
<1>1. FreeBlock \in Block
  BY SizesAssumption DEF FreeBlock, Block
<1>2. NoLinear \in [in_use : BOOLEAN, used : 0 .. LinearPages]
  BY SizesAssumption DEF NoLinear
<1>3. QED
  BY <1>1, <1>2

\* The invariant holds when nothing has been allocated.
LEMMA InitIInv == Init => IInv
<1> SUFFICES ASSUME Init PROVE IInv
  OBVIOUS
<1> USE SizesAssumption DEF Init
<1>1. TypeOK
  BY FreeIsTyped DEF TypeOK
<1>2. LiveSlots = {}
  BY DEF LiveSlots, Live, FreeBlock
<1>3. ArenaSafe
  BY <1>2 DEF ArenaSafe
<1>4. NoFitBelow
  BY DEF NoFitBelow
<1>5. HeldIsLive /\ LibcIsSmall
  BY <1>2, SizesAssumption DEF HeldIsLive, LibcIsSmall, LiveBlocks, NotLive
<1>6. QED
  BY <1>1, <1>3, <1>4, <1>5 DEF IInv

\* The end of the process, orderly or not, re-establishes the invariant.
LEMMA ProcessGoneIInv ==
  ASSUME IInv, ProcessGone
  PROVE  IInv'
<1> USE SizesAssumption DEF ProcessGone
<1>1. TypeOK'
  BY FreeIsTyped DEF IInv, TypeOK
<1>2. LiveSlots' = {}
  BY DEF LiveSlots, Live, FreeBlock
<1>3. ArenaSafe'
  BY <1>2 DEF ArenaSafe
<1>4. NoFitBelow'
  BY DEF NoFitBelow
<1>5. HeldIsLive' /\ LibcIsSmall'
  BY <1>2, SizesAssumption DEF HeldIsLive, LibcIsSmall, LiveBlocks, NotLive
<1>6. QED
  BY <1>1, <1>3, <1>4, <1>5 DEF IInv

\* A step that leaves the metadata arena alone keeps its part of the invariant.
LEMMA ArenaUntouched ==
  ASSUME IInv, UNCHANGED <<blocks, search, held>>
  PROVE  ArenaSafe' /\ NoFitBelow' /\ HeldIsLive'
<1>1. LiveSlots' = LiveSlots /\ LiveBlocks' = LiveBlocks
  BY DEF LiveSlots, LiveBlocks, Live
<1>2. QED
  BY <1>1 DEF IInv, ArenaSafe, NoFitBelow, HeldIsLive, Fits, Live

-----------------------------------------------------------------------------
(* The search. *)

\* Candidates and blocks are records of naturals inside the arena.
LEMMA Typed ==
  ASSUME TypeOK
  PROVE  /\ \A s \in Slot : /\ blocks[s] \in Block
                            /\ blocks[s].offset \in 0 .. MetadataBytes
                            /\ blocks[s].size \in 0 .. MetadataBytes
                            /\ End(blocks[s]) \in Nat
         /\ search # Idle => /\ search \in Candidate
                             /\ search.slot \in Slot
                             /\ search.size \in 1 .. MetadataBytes
                             /\ search.offset \in 0 .. MetadataBytes
         /\ LiveSlots \subseteq Slot
<1>1. \A s \in Slot : /\ blocks[s] \in Block
                      /\ blocks[s].offset \in 0 .. MetadataBytes
                      /\ blocks[s].size \in 0 .. MetadataBytes
                      /\ End(blocks[s]) \in Nat
  BY SizesAssumption DEF TypeOK, Block, End
<1>2. search # Idle => /\ search \in Candidate
                       /\ search.slot \in Slot
                       /\ search.size \in 1 .. MetadataBytes
                       /\ search.offset \in 0 .. MetadataBytes
  BY DEF TypeOK, Candidate
<1>3. LiveSlots \subseteq Slot
  BY DEF LiveSlots
<1>4. QED
  BY <1>1, <1>2, <1>3

\* Disjoint live blocks start at different offsets, so the offset of a pointer
\* WAMR holds identifies its slot.
LEMMA PointersResolve ==
  TypeOK /\ ArenaSafe /\ HeldIsLive =>
    \A b \in held : \E s \in LiveSlots : SlotsAt(b.offset) = {s} /\ blocks[s] = b
<1> SUFFICES ASSUME TypeOK, ArenaSafe, HeldIsLive, NEW b \in held
             PROVE  \E s \in LiveSlots : SlotsAt(b.offset) = {s} /\ blocks[s] = b
  OBVIOUS
<1>1. PICK s \in LiveSlots : blocks[s] = b
  BY DEF HeldIsLive, LiveBlocks
<1>2. ASSUME NEW t \in LiveSlots, t # s
      PROVE  blocks[t].offset # b.offset
  <2>1. blocks[s].size > 0 /\ blocks[t].size > 0
    BY DEF LiveSlots, Live
  <2>2. QED
    BY <1>1, <1>2, <2>1, Typed DEF ArenaSafe, End
<1>3. SlotsAt(b.offset) = {s}
  BY <1>1, <1>2 DEF SlotsAt
<1>4. QED
  BY <1>1, <1>3

\* A turn of the first-fit loop (fx_wamr_runner.c:187-201) moves the candidate past
\* one block: every aligned offset it jumps over overlaps that block.
LEMMA SearchSkipIInv ==
  ASSUME IInv, SearchSkip
  PROVE  IInv'
<1> DEFINE f == FirstConflict
           next == AlignUp(End(blocks[f]))
<1> USE SizesAssumption
<1>1. /\ f \in LiveSlots /\ f \in Slot
      /\ Overlaps(search.offset, search.size, blocks[f])
  <2>1. Conflicts # {} /\ Conflicts \subseteq Slot
    BY DEF SearchSkip, Conflicts, LiveSlots
  <2>2. f \in Conflicts
    BY <2>1, LeastSlot DEF FirstConflict
  <2>3. QED
    BY <2>1, <2>2 DEF Conflicts
<1>2. End(blocks[f]) \in Nat /\ End(blocks[f]) <= MetadataBytes
  BY <1>1, Typed DEF IInv, ArenaSafe
<1>3. next \in 0 .. MetadataBytes /\ next % 8 = 0
  BY <1>2, AlignUpLemma
<1>4. search # Idle /\ search' = [search EXCEPT !.offset = next]
  BY DEF SearchSkip
<1>5. search' \in Candidate /\ search'.offset = next
      /\ search'.size = search.size /\ search'.slot = search.slot
  BY <1>3, <1>4, Typed DEF Candidate, IInv
<1>6. TypeOK'
  BY <1>5 DEF SearchSkip, IInv, TypeOK, heap, arena
<1>7. LiveSlots' = LiveSlots /\ LiveBlocks' = LiveBlocks /\ blocks' = blocks
      /\ held' = held /\ libc' = libc
  BY DEF SearchSkip, LiveSlots, LiveBlocks, Live, heap
<1>8. ArenaSafe' /\ HeldIsLive' /\ LibcIsSmall'
  BY <1>7 DEF IInv, ArenaSafe, HeldIsLive, LibcIsSmall
<1>9. NoFitBelow'
  <2>1. SUFFICES ASSUME NEW o \in 0 .. next - 1, o % 8 = 0
                 PROVE  ~Fits(o, search.size)
    BY <1>3, <1>4, <1>5, <1>7 DEF IInv, NoFitBelow, Live, Fits
  <2>2. CASE o < search.offset
    BY <1>4, <2>1, <2>2, Typed DEF IInv, NoFitBelow
  <2>3. CASE o >= search.offset
    <3>1. o < End(blocks[f])
      BY <1>2, <1>3, <2>1, AlignUpLemma
    <3>2. o + search.size > blocks[f].offset
      BY <1>1, <1>4, <2>3, Typed DEF Overlaps, IInv
    <3>3. QED
      BY <1>1, <3>1, <3>2 DEF Fits, Overlaps
  <2>4. QED
    BY <1>3, <1>4, <2>2, <2>3, Typed DEF IInv
<1>10. QED
  BY <1>6, <1>8, <1>9 DEF IInv

\* The end of the loop: the candidate overlaps no block, so the block placed there
\* is apart from the others (fx_wamr_runner.c:202-206).
LEMMA SearchPlaceIInv ==
  ASSUME IInv, SearchPlace
  PROVE  IInv'
<1> DEFINE k == search.slot
           placed == [offset |-> search.offset, size |-> search.size]
<1> USE SizesAssumption
<1>1. search # Idle /\ k \in Slot /\ ~Live(k)
  BY Typed DEF SearchPlace, IInv, NoFitBelow
<1>2. blocks' = [blocks EXCEPT ![k] = placed] /\ held' = held \cup {placed}
      /\ search' = Idle
  BY DEF SearchPlace
<1>3. /\ placed \in Block /\ placed.size > 0
      /\ placed.offset % 8 = 0 /\ End(placed) <= MetadataBytes
      /\ placed.offset = search.offset /\ placed.size = search.size
  BY <1>1, Typed DEF SearchPlace, TooFar, IInv, NoFitBelow, Block, End
<1>4. blocks'[k] = placed /\ \A s \in Slot \ {k} : blocks'[s] = blocks[s]
  BY <1>1, <1>2 DEF IInv, TypeOK
<1>5. LiveSlots' = LiveSlots \cup {k} /\ k \notin LiveSlots
  BY <1>1, <1>3, <1>4 DEF LiveSlots, Live
<1>6. TypeOK'
  BY <1>1, <1>2, <1>3 DEF SearchPlace, IInv, TypeOK, arena
<1>7. ASSUME NEW s \in LiveSlots
      PROVE  /\ s \in Slot /\ blocks'[s] = blocks[s] /\ blocks[s].size > 0
             /\ \/ End(blocks[s]) <= placed.offset
                \/ End(placed) <= blocks[s].offset
  <2>1. s \in Slot /\ blocks'[s] = blocks[s] /\ blocks[s].size > 0
    BY <1>4, <1>5 DEF LiveSlots, Live
  <2>2. ~Overlaps(search.offset, search.size, blocks[s])
    BY DEF SearchPlace, Conflicts
  <2>3. QED
    BY <1>1, <1>3, <2>1, <2>2, Typed DEF Overlaps, End, IInv
<1>8. ArenaSafe'
  BY <1>3, <1>4, <1>5, <1>7 DEF IInv, ArenaSafe
<1>9. NoFitBelow'
  BY <1>2 DEF NoFitBelow
<1>10. HeldIsLive' /\ LibcIsSmall'
  <2>1. LiveBlocks' = LiveBlocks \cup {placed}
    BY <1>4, <1>5, <1>7 DEF LiveBlocks
  <2>2. QED
    BY <1>2, <2>1 DEF SearchPlace, IInv, HeldIsLive, LibcIsSmall
<1>11. QED
  BY <1>6, <1>8, <1>9, <1>10 DEF IInv

\* The loop starts at offset 0, with nothing behind it, or gives up.
LEMMA SearchStartOrFailIInv ==
  ASSUME IInv, SearchFail \/ \E size \in Sizes : MetadataMalloc(size)
  PROVE  IInv'
<1> USE SizesAssumption
<1>1. /\ UNCHANGED <<phase, borrowed, blocks, held, libc, linear, dirty>>
      /\ LiveSlots' = LiveSlots /\ LiveBlocks' = LiveBlocks
  BY DEF SearchFail, MetadataMalloc, heap, arena, LiveSlots, LiveBlocks, Live
<1>2. ArenaSafe' /\ HeldIsLive' /\ LibcIsSmall'
  BY <1>1 DEF IInv, ArenaSafe, HeldIsLive, LibcIsSmall
<1>3. CASE SearchFail
  <2>1. search' = Idle
    BY <1>3 DEF SearchFail
  <2>2. QED
    BY <1>1, <1>2, <2>1 DEF IInv, TypeOK, NoFitBelow
<1>4. ASSUME NEW size \in Sizes, MetadataMalloc(size)
      PROVE  IInv'
  <2>1. FirstFreeSlot \in FreeSlots
    BY <1>4, LeastSlot DEF MetadataMalloc, FreeSlots, FirstFreeSlot
  <2>2. FirstFreeSlot \in Slot /\ ~Live(FirstFreeSlot)
    BY <2>1 DEF FreeSlots
  <2>3. search' = [slot |-> FirstFreeSlot, size |-> size, offset |-> 0]
    BY <1>4 DEF MetadataMalloc
  <2>4. search' \in Candidate
    BY <1>4, <2>2, <2>3 DEF MetadataMalloc, Candidate
  <2>5. TypeOK'
    BY <1>1, <2>4 DEF IInv, TypeOK
  <2>6. NoFitBelow'
    BY <1>1, <2>2, <2>3 DEF NoFitBelow, Live
  <2>7. QED
    BY <1>2, <2>5, <2>6 DEF IInv
<1>5. QED
  BY <1>3, <1>4

-----------------------------------------------------------------------------
(* In-place realloc and free of a metadata block. *)

\* The slot found for a held pointer is the one that holds its block.
LEMMA SlotOfHeld ==
  ASSUME IInv, NEW b \in held
  PROVE  /\ MetadataSlot(b.offset) \in LiveSlots
         /\ MetadataSlot(b.offset) \in Slot
         /\ blocks[MetadataSlot(b.offset)] = b
<1>1. PICK s \in LiveSlots : SlotsAt(b.offset) = {s} /\ blocks[s] = b
  BY PointersResolve DEF IInv
<1>2. MetadataSlot(b.offset) \in SlotsAt(b.offset)
  BY <1>1, LeastSlot DEF MetadataSlot, LiveSlots
<1>3. QED
  BY <1>1, <1>2 DEF LiveSlots

\* Blocks of distinct live slots are distinct.
LEMMA LiveBlocksDiffer ==
  ASSUME IInv, NEW s \in LiveSlots, NEW t \in LiveSlots, s # t
  PROVE  blocks[s] # blocks[t]
<1>1. blocks[s].size > 0 /\ s \in Slot /\ t \in Slot
  BY DEF LiveSlots, Live
<1>2. QED
  BY <1>1, Typed DEF IInv, ArenaSafe, End

\* A resize in place stays in the arena and away from the other blocks, or frees
\* the block (fx_wamr_runner.c:248-262).
LEMMA MetadataReallocIInv ==
  ASSUME IInv, NEW b \in held, NEW size \in Sizes, MetadataRealloc(b, size)
  PROVE  IInv'
<1> DEFINE s == MetadataSlot(b.offset)
           resized == [b EXCEPT !.size = size]
<1> USE SizesAssumption
<1>1. s \in LiveSlots /\ s \in Slot /\ blocks[s] = b
  BY SlotOfHeld
<1>2. /\ blocks' = [blocks EXCEPT ![s] = resized]
      /\ held' = (held \ {b}) \cup (IF size > 0 THEN {resized} ELSE {})
      /\ search = Idle /\ search' = Idle
      /\ CanResize(s, size)
      /\ UNCHANGED <<phase, borrowed, libc, linear, dirty>>
  BY <1>1 DEF MetadataRealloc, Calling, arena
<1>3. size \in Nat /\ b \in Block /\ b.offset \in 0 .. MetadataBytes
  BY <1>1, Typed DEF IInv
<1>4. /\ resized.offset = b.offset /\ resized.size = size
      /\ End(resized) = b.offset + size
  BY <1>3 DEF Block, End
<1>5. size \in 0 .. MetadataBytes /\ End(resized) <= MetadataBytes
  BY <1>1, <1>2, <1>3, <1>4 DEF CanResize
<1>6. resized \in Block
  BY <1>3, <1>5 DEF Block
<1>7. blocks'[s] = resized /\ \A t \in Slot \ {s} : blocks'[t] = blocks[t]
  BY <1>1, <1>2 DEF IInv, TypeOK
<1>8. LiveSlots' = (LiveSlots \ {s}) \cup (IF size > 0 THEN {s} ELSE {})
  BY <1>1, <1>3, <1>4, <1>7 DEF LiveSlots, Live
<1>9. TypeOK'
  BY <1>1, <1>2, <1>6 DEF IInv, TypeOK
<1>10. ArenaSafe'
  <2>1. ASSUME NEW t \in LiveSlots \ {s}
        PROVE  /\ t \in Slot /\ blocks'[t] = blocks[t]
               /\ size > 0 => \/ End(blocks[t]) <= resized.offset
                              \/ End(resized) <= blocks[t].offset
    <3>1. t \in Slot /\ blocks'[t] = blocks[t]
      BY <1>7 DEF LiveSlots
    <3>2. ~Overlaps(b.offset, size, blocks[t])
      BY <1>1, <1>2 DEF CanResize
    <3>3. QED
      BY <1>3, <1>4, <3>1, <3>2, Typed DEF Overlaps, IInv, Block
  <2>2. b.offset % 8 = 0
    BY <1>1 DEF IInv, ArenaSafe
  <2>3. QED
    BY <1>3, <1>4, <1>5, <1>7, <1>8, <2>1, <2>2 DEF IInv, ArenaSafe
<1>11. NoFitBelow' /\ LibcIsSmall'
  BY <1>2 DEF NoFitBelow, LibcIsSmall, IInv
<1>12. HeldIsLive'
  <2>1. {blocks[t] : t \in LiveSlots \ {s}} = held \ {b}
    BY <1>1, LiveBlocksDiffer DEF IInv, HeldIsLive, LiveBlocks
  <2>2. {blocks'[t] : t \in LiveSlots \ {s}} = {blocks[t] : t \in LiveSlots \ {s}}
    BY <1>7 DEF LiveSlots
  <2>3. CASE size > 0
    BY <1>2, <1>7, <1>8, <2>1, <2>2, <2>3 DEF HeldIsLive, LiveBlocks
  <2>4. CASE ~(size > 0)
    BY <1>2, <1>8, <2>1, <2>2, <2>4 DEF HeldIsLive, LiveBlocks
  <2>5. QED
    BY <2>3, <2>4
<1>13. QED
  BY <1>9, <1>10, <1>11, <1>12 DEF IInv

\* A free clears exactly the slot of the pointer (fx_wamr_runner.c:288-292).
LEMMA MetadataFreeIInv ==
  ASSUME IInv, NEW b \in held, MetadataFree(b)
  PROVE  IInv'
<1> DEFINE s == MetadataSlot(b.offset)
           freed == [b EXCEPT !.size = 0]
<1> USE SizesAssumption
<1>1. s \in LiveSlots /\ s \in Slot /\ blocks[s] = b
  BY SlotOfHeld
<1>2. /\ blocks' = [blocks EXCEPT ![s] = freed]
      /\ held' = held \ {b}
      /\ search = Idle /\ search' = Idle
      /\ UNCHANGED <<phase, borrowed, libc, linear, dirty>>
  BY <1>1 DEF MetadataFree, Calling, arena
<1>3. freed \in Block /\ freed.size = 0
  BY <1>1, Typed DEF IInv, Block
<1>4. blocks'[s] = freed /\ \A t \in Slot \ {s} : blocks'[t] = blocks[t]
  BY <1>1, <1>2 DEF IInv, TypeOK
<1>5. LiveSlots' = LiveSlots \ {s}
  <2>1. ASSUME NEW t \in Slot
        PROVE  Live(t)' <=> Live(t) /\ t # s
    <3>1. CASE t = s
      <4>1. blocks'[t].size = 0
        BY <1>3, <1>4, <3>1
      <4>2. QED
        BY <3>1, <4>1 DEF Live
    <3>2. CASE t # s
      BY <1>4, <3>2 DEF Live
    <3>3. QED
      BY <3>1, <3>2
  <2>2. QED
    BY <2>1 DEF LiveSlots
<1>6. TypeOK'
  BY <1>1, <1>2, <1>3 DEF IInv, TypeOK
<1>7. ArenaSafe'
  BY <1>4, <1>5 DEF IInv, ArenaSafe, LiveSlots
<1>8. NoFitBelow' /\ LibcIsSmall'
  BY <1>2 DEF NoFitBelow, LibcIsSmall, IInv
<1>9. HeldIsLive'
  <2>1. {blocks[t] : t \in LiveSlots \ {s}} = held \ {b}
    BY <1>1, LiveBlocksDiffer DEF IInv, HeldIsLive, LiveBlocks
  <2>2. {blocks'[t] : t \in LiveSlots \ {s}} = {blocks[t] : t \in LiveSlots \ {s}}
    BY <1>4 DEF LiveSlots
  <2>3. QED
    BY <1>2, <1>5, <2>1, <2>2 DEF HeldIsLive, LiveBlocks
<1>10. QED
  BY <1>6, <1>7, <1>8, <1>9 DEF IInv

-----------------------------------------------------------------------------
(* The remaining steps leave the metadata arena alone. *)

\* A process starts with an empty arena.
LEMMA InitAllocatorIInv ==
  ASSUME IInv, NEW b \in BOOLEAN, InitAllocator(b)
  PROVE  IInv'
<1>1. TypeOK'
  BY DEF InitAllocator, IInv, TypeOK, heap
<1>2. LibcIsSmall'
  BY DEF InitAllocator, heap, IInv, LibcIsSmall
<1>3. QED
  BY <1>1, <1>2, ArenaUntouched DEF InitAllocator, heap, IInv

\* Small objects never grow past SmallMax and never touch the arena.
LEMMA LibcIInv ==
  ASSUME IInv, Libc
  PROVE  IInv'
<1> USE SizesAssumption
<1> PICK p \in LibcBlocks :
      LibcFree(p) \/ \E size \in Sizes : LibcMalloc(p, size) \/ LibcRealloc(p, size)
  BY DEF Libc
<1>1. UNCHANGED <<phase, borrowed, blocks, search, held, linear, dirty>>
  BY DEF LibcFree, LibcMalloc, LibcRealloc, arena
<1>2. PICK v \in Nat \cup {NotLive} : v <= SmallMax /\ libc' = [libc EXCEPT ![p] = v]
  <2>1. CASE LibcFree(p)
    <3>1. NotLive <= SmallMax
      BY DEF NotLive
    <3>2. QED
      BY <2>1, <3>1 DEF LibcFree
  <2>2. ASSUME NEW size \in Sizes, LibcMalloc(p, size) \/ LibcRealloc(p, size)
        PROVE  \E v \in Nat \cup {NotLive} :
                 v <= SmallMax /\ libc' = [libc EXCEPT ![p] = v]
    BY <2>2 DEF LibcMalloc, LibcRealloc, NotLive
  <2>3. QED
    BY <2>1, <2>2
<1>3. TypeOK' /\ LibcIsSmall'
  BY <1>1, <1>2 DEF IInv, TypeOK, LibcIsSmall
<1>4. QED
  BY <1>1, <1>3, ArenaUntouched DEF IInv

\* Guest memory is a separate arena.
LEMMA LinearIInv ==
  ASSUME IInv, Linear
  PROVE  IInv'
<1> USE SizesAssumption
<1>1. UNCHANGED <<phase, borrowed, blocks, search, held, libc>>
  BY DEF Linear, LinearMalloc, LinearRealloc, LinearFree, GuestStore, heap
<1>2. linear' \in [in_use : BOOLEAN, used : 0 .. LinearPages] /\ dirty' \subseteq Page
  <2>1. linear \in [in_use : BOOLEAN, used : 0 .. LinearPages] /\ dirty \subseteq Page
    BY DEF IInv, TypeOK
  <2>2. ASSUME NEW n \in 0 .. LinearPages, LinearMalloc(n) \/ LinearRealloc(n)
        PROVE  linear' \in [in_use : BOOLEAN, used : 0 .. LinearPages]
               /\ dirty' \subseteq Page
    <3>1. dirty' \subseteq dirty
      BY <2>2 DEF LinearMalloc, LinearRealloc
    <3>2. linear' = [in_use |-> TRUE, used |-> n] \/ linear' = [linear EXCEPT !.used = n]
      BY <2>2 DEF LinearMalloc, LinearRealloc
    <3>3. linear' \in [in_use : BOOLEAN, used : 0 .. LinearPages]
      <4>1. CASE linear' = [in_use |-> TRUE, used |-> n]
        BY <4>1
      <4>2. CASE linear' = [linear EXCEPT !.used = n]
        BY <2>1, <4>2
      <4>3. QED
        BY <3>2, <4>1, <4>2
    <3>4. QED
      BY <2>1, <3>1, <3>3
  <2>3. CASE LinearFree
    BY <2>1, <2>3, FreeIsTyped DEF LinearFree
  <2>4. ASSUME NEW p \in Page, GuestStore(p)
        PROVE  linear' \in [in_use : BOOLEAN, used : 0 .. LinearPages]
               /\ dirty' \subseteq Page
    BY <2>1, <2>4 DEF GuestStore
  <2>5. QED
    BY <2>2, <2>3, <2>4 DEF Linear
<1>3. TypeOK' /\ LibcIsSmall'
  BY <1>1, <1>2 DEF IInv, TypeOK, LibcIsSmall
<1>4. QED
  BY <1>1, <1>3, ArenaUntouched DEF IInv

\* Every step keeps the invariant: one case per action of Next.
LEMMA StepIInv == IInv /\ [Next]_vars => IInv'
<1> SUFFICES ASSUME IInv, [Next]_vars PROVE IInv'
  OBVIOUS
<1>1. ASSUME NEW b \in BOOLEAN, InitAllocator(b)
      PROVE  IInv'
  BY <1>1, InitAllocatorIInv
<1>2. CASE DestroyAllocator \/ Killed
  BY <1>2, ProcessGoneIInv DEF DestroyAllocator, Killed
<1>3. CASE Metadata
  BY <1>3, SearchStartOrFailIInv, SearchSkipIInv, SearchPlaceIInv,
     MetadataReallocIInv, MetadataFreeIInv DEF Metadata, Search
<1>4. CASE Libc
  BY <1>4, LibcIInv
<1>5. CASE Linear
  BY <1>5, LinearIInv
<1>6. CASE UNCHANGED vars
  <2>1. UNCHANGED <<phase, borrowed, blocks, search, held, libc, linear, dirty>>
    BY <1>6 DEF vars
  <2>2. TypeOK' /\ LibcIsSmall'
    BY <2>1 DEF IInv, TypeOK, LibcIsSmall
  <2>3. QED
    BY <2>1, <2>2, ArenaUntouched DEF IInv
<1>7. QED
  BY <1>1, <1>2, <1>3, <1>4, <1>5, <1>6 DEF Next

\* The inductive invariant holds in every reachable state.
THEOREM InvariantHolds == Spec => []IInv
BY InitIInv, StepIInv, PTL DEF Spec

\* Every variable keeps its type.
THEOREM TypeCorrect == Spec => []TypeOK
BY InvariantHolds, PTL DEF IInv

\* Live metadata blocks never overlap, never leave the arena and are aligned,
\* whatever the order of malloc, realloc and free (fx_wamr_runner.c:174-301).
THEOREM ArenaIsSafe == Spec => []ArenaSafe
BY InvariantHolds, PTL DEF IInv

\* No candidate the first-fit search skipped could have taken the request.
THEOREM SearchIsFirstFit == Spec => []NoFitBelow
BY InvariantHolds, PTL DEF IInv

\* WAMR's pointers and the allocator's slots agree, and no pointer of one heap
\* is ever taken for a pointer of the other.
THEOREM HeapsStaySeparate == Spec => []HeapsSeparate
<1>1. IInv => HeapsSeparate
  BY PointersResolve DEF IInv, HeapsSeparate
<1>2. QED
  BY <1>1, InvariantHolds, PTL

-----------------------------------------------------------------------------
(* Action properties. *)

\* First-fit never gives up while an aligned offset could take the request.
THEOREM SearchFailsOnlyWithoutRoom == Spec => FailsOnlyWithoutRoom
<1>1. ASSUME IInv, [Next]_vars, search # Idle, search' = Idle, phase' = "up",
             held' = held, NEW o \in 0 .. MetadataBytes, o % 8 = 0
      PROVE  ~Fits(o, search.size)
  <2>1. SearchFail \/ SearchPlace
    <3>1. ~SearchSkip
      <4>1. SUFFICES ASSUME SearchSkip PROVE FALSE
        OBVIOUS
      <4>2. search'.slot = search.slot /\ search.slot \in Slot
        BY <1>1, <4>1, Typed DEF SearchSkip, IInv, Candidate
      <4>3. Idle.slot = MetadataSlots /\ MetadataSlots \notin Slot
        BY SizesAssumption DEF Idle, Slot
      <4>4. QED
        BY <1>1, <4>2, <4>3
    <3>2. ~Calling /\ phase' # "down"
      BY <1>1 DEF Calling
    <3>3. ~Libc /\ ~Linear /\ ~DestroyAllocator /\ ~Killed
      BY <3>2 DEF Libc, LibcMalloc, LibcRealloc, LibcFree, Linear, LinearMalloc,
         LinearRealloc, LinearFree, GuestStore, DestroyAllocator, Killed, ProcessGone
    <3>4. UNCHANGED vars => UNCHANGED search
      BY DEF vars
    <3>5. \A b \in BOOLEAN : ~InitAllocator(b)
      BY <1>1 DEF InitAllocator
    <3>6. Metadata => Search
      BY <3>2 DEF Metadata, MetadataMalloc, MetadataRealloc, MetadataFree
    <3>7. QED
      BY <1>1, <3>1, <3>3, <3>4, <3>5, <3>6 DEF Next, Search
  <2>2. CASE SearchFail
    <3>1. CASE o < search.offset
      BY <1>1, <3>1, Typed DEF IInv, NoFitBelow
    <3>2. CASE o >= search.offset
      BY <1>1, <2>2, <3>2, Typed, SizesAssumption DEF SearchFail, TooFar, Fits, IInv
    <3>3. QED
      BY <1>1, <3>1, <3>2, Typed, SizesAssumption DEF IInv
  <2>3. CASE SearchPlace
    <3> DEFINE placed == [offset |-> search.offset, size |-> search.size]
    <3>1. placed \in held
      BY <1>1, <2>3 DEF SearchPlace
    <3>2. PICK s \in LiveSlots : blocks[s] = placed
      BY <1>1, <3>1 DEF IInv, HeldIsLive, LiveBlocks
    <3>3. ~Overlaps(search.offset, search.size, blocks[s])
      BY <2>3 DEF SearchPlace, Conflicts
    <3>4. QED
      BY <1>1, <3>2, <3>3, Typed, SizesAssumption DEF Overlaps, End, IInv
  <2>4. QED
    BY <2>1, <2>2, <2>3
<1>2. IInv /\ [Next]_vars =>
        [(search # Idle /\ search' = Idle /\ phase' = "up" /\ held' = held) =>
           \A o \in 0 .. MetadataBytes : o % 8 = 0 => ~Fits(o, search.size)]_vars
  BY <1>1
<1>3. QED
  BY <1>2, InvariantHolds, PTL DEF Spec, FailsOnlyWithoutRoom

\* Linear memory never changes while a call is being served or a block handled.
LEMMA LinearSteps ==
  ASSUME Next
  PROVE  \/ \E n \in 0 .. LinearPages : LinearMalloc(n) \/ LinearRealloc(n)
         \/ \E p \in Page : GuestStore(p)
         \/ linear' = linear /\ dirty' \subseteq dirty
            /\ (linear.in_use => phase = "down" \/ dirty' = dirty)
         \/ linear' = NoLinear
<1>1. CASE DestroyAllocator \/ Killed
  BY <1>1 DEF DestroyAllocator, Killed, ProcessGone
<1>2. CASE Metadata
  BY <1>2 DEF Metadata, MetadataMalloc, MetadataRealloc, MetadataFree, Search, SearchSkip,
     SearchPlace, SearchFail, arena
<1>3. CASE Libc
  BY <1>3 DEF Libc, LibcMalloc, LibcRealloc, LibcFree, arena
<1>4. CASE Linear
  BY <1>4 DEF Linear, LinearFree
<1>5. ASSUME NEW b \in BOOLEAN, InitAllocator(b)
      PROVE  linear' = linear /\ dirty' \subseteq dirty /\ phase = "down"
  BY <1>5 DEF InitAllocator
<1>6. QED
  BY <1>1, <1>2, <1>3, <1>4, <1>5 DEF Next

\* A page of guest memory is zero when it becomes visible, whatever an earlier
\* process, an earlier allocation or a larger memory left in it.
THEOREM NewPagesAreZero == Spec => FreshPagesZero
<1>1. ASSUME IInv, [Next]_vars, NEW p \in Page, p >= linear.used, p < linear'.used
      PROVE  p \notin dirty'
  <2>1. Next
    BY <1>1, SizesAssumption DEF vars, IInv, TypeOK, Page
  <2>2. p \in Int /\ linear.used \in 0 .. LinearPages
    BY <1>1 DEF IInv, TypeOK, Page
  <2>3. ~(linear' = NoLinear) /\ ~(linear' = linear)
    BY <1>1, <2>2, SizesAssumption DEF NoLinear, Page
  <2>4. PICK n \in 0 .. LinearPages : LinearMalloc(n) \/ LinearRealloc(n)
    BY <2>1, <2>3, LinearSteps DEF GuestStore
  <2>5. CASE LinearMalloc(n)
    BY <1>1, <2>2, <2>5, SizesAssumption DEF LinearMalloc, Page
  <2>6. CASE LinearRealloc(n)
    BY <1>1, <2>2, <2>6, SizesAssumption DEF LinearRealloc, Page, IInv, TypeOK
  <2>7. QED
    BY <2>4, <2>5, <2>6
<1>2. IInv /\ [Next]_vars =>
        [\A p \in Page : (p >= linear.used /\ p < linear'.used) => p \notin dirty']_vars
  BY <1>1
<1>3. QED
  BY <1>2, InvariantHolds, PTL DEF Spec, FreshPagesZero

\* No process, no linear memory in use: a new process cannot take over one.
DownIsEmpty == phase = "down" => ~linear.in_use

\* No guest memory is in use while no process runs.
LEMMA NothingInUseWhenDown == Spec => []DownIsEmpty
<1>1. Init => DownIsEmpty
  BY DEF Init, DownIsEmpty, NoLinear
<1>2. DownIsEmpty /\ [Next]_vars => DownIsEmpty'
  <2> SUFFICES ASSUME DownIsEmpty, [Next]_vars, phase' = "down"
               PROVE  ~linear'.in_use
    BY DEF DownIsEmpty
  <2>1. CASE DestroyAllocator \/ Killed
    BY <2>1 DEF DestroyAllocator, Killed, ProcessGone, NoLinear
  <2>2. CASE UNCHANGED vars
    BY <2>2 DEF DownIsEmpty, vars
  <2>3. (Metadata => Search) /\ ~Libc /\ ~Linear
    BY DEF Metadata, MetadataMalloc, MetadataRealloc, MetadataFree, Libc, LibcMalloc, LibcRealloc, LibcFree, Linear,
       LinearMalloc, LinearRealloc, LinearFree, GuestStore, Calling
  <2>4. \A b \in BOOLEAN : ~InitAllocator(b)
    BY DEF InitAllocator
  <2>5. CASE Search
    BY <2>5 DEF Search, SearchSkip, SearchPlace, SearchFail, arena, DownIsEmpty
  <2>6. QED
    BY <2>1, <2>2, <2>3, <2>4, <2>5 DEF Next
<1>3. QED
  BY <1>1, <1>2, PTL DEF Spec

\* Growing or shrinking guest memory keeps what the guest stored in the pages
\* that stay.
THEOREM GuestPagesAreKept == Spec => StoredPagesKept
<1>1. ASSUME IInv, DownIsEmpty, [Next]_vars, linear.in_use, linear'.in_use, NEW p \in dirty,
             p < linear.used, p < linear'.used
      PROVE  p \in dirty'
  <2>1. p \in Int /\ p >= 0 /\ linear.used \in 0 .. LinearPages
    BY <1>1, SizesAssumption DEF IInv, TypeOK, Page
  <2>2. CASE UNCHANGED vars
    BY <2>2 DEF vars
  <2>3. CASE InitAllocator(TRUE) \/ InitAllocator(FALSE)
    BY <1>1, <2>3 DEF InitAllocator, DownIsEmpty
  <2>4. CASE \E n \in 0 .. LinearPages : LinearRealloc(n)
    BY <1>1, <2>1, <2>4 DEF LinearRealloc
  <2>5. CASE \E q \in Page : GuestStore(q)
    BY <2>5 DEF GuestStore
  <2>6. CASE DestroyAllocator \/ Killed \/ Metadata \/ Libc \/ LinearFree
    BY <2>6 DEF DestroyAllocator, Killed, ProcessGone, Metadata, MetadataMalloc,
       MetadataRealloc, MetadataFree, Search, SearchSkip, SearchPlace, SearchFail, Libc,
       LibcMalloc, LibcRealloc, LibcFree, LinearFree, arena
  <2>7. ~(\E n \in 0 .. LinearPages : LinearMalloc(n))
    BY <1>1 DEF LinearMalloc
  <2>8. \A b \in BOOLEAN : b = TRUE \/ b = FALSE
    OBVIOUS
  <2>9. QED
    BY <1>1, <2>2, <2>3, <2>4, <2>5, <2>6, <2>7, <2>8 DEF Next, Linear
<1>2. IInv /\ DownIsEmpty /\ [Next]_vars =>
        [(linear.in_use /\ linear'.in_use) =>
          \A p \in dirty : (p < linear.used /\ p < linear'.used) => p \in dirty']_vars
  BY <1>1
<1>3. QED
  BY <1>2, InvariantHolds, NothingInUseWhenDown, PTL DEF Spec, StoredPagesKept

-----------------------------------------------------------------------------
(* Refinement: to its client the arena is a set of disjoint regions. *)

RegionsApart ==
  /\ \A r \in LiveBlocks : r \in Regions!Region /\ Regions!InArena(r)
  /\ \A r, q \in LiveBlocks : r # q => Regions!Apart(r, q)

\* Under the invariant the live blocks are regions of the arena, pairwise apart.
LEMMA LiveRegions == IInv => RegionsApart
<1> SUFFICES ASSUME IInv PROVE RegionsApart
  OBVIOUS
<1>1. ASSUME NEW s \in LiveSlots
      PROVE  blocks[s] \in Regions!Region /\ Regions!InArena(blocks[s])
  <2>1. blocks[s] \in Block /\ blocks[s].size > 0
    BY Typed DEF IInv, LiveSlots, Live
  <2>2. blocks[s] \in Regions!Region
    BY <2>1, SizesAssumption DEF Block, Regions!Region
  <2>3. QED
    BY <2>2 DEF IInv, ArenaSafe, End, Regions!InArena
<1>2. ASSUME NEW s \in LiveSlots, NEW t \in LiveSlots, s # t
      PROVE  Regions!Apart(blocks[s], blocks[t])
  BY <1>2 DEF IInv, ArenaSafe, End, Regions!Apart
<1>3. QED
  BY <1>1, <1>2 DEF LiveBlocks, RegionsApart

\* Every step of the allocator allocates, resizes or releases one region,
\* releases all of them, or is invisible to the client.
THEOREM RefinesRegions == Spec => ImplementsRegions
<1>1. Init => Regions!Init
  <2> SUFFICES ASSUME Init PROVE LiveBlocks = {}
    BY DEF Regions!Init
  <2>1. LiveSlots = {}
    BY DEF Init, LiveSlots, Live, FreeBlock
  <2>2. QED
    BY <2>1 DEF LiveBlocks
<1>2. IInv /\ IInv' /\ [Next]_vars => [Regions!Next]_LiveBlocks
  <2> SUFFICES ASSUME IInv, IInv', [Next]_vars, held' # held
               PROVE  Regions!Next
    BY DEF IInv, HeldIsLive
  <2>1. held = LiveBlocks /\ held' = LiveBlocks'
    BY DEF IInv, HeldIsLive
  <2>2. /\ \A r \in held : r \in Regions!Region /\ Regions!InArena(r)
        /\ \A r, q \in held : r # q => Regions!Apart(r, q)
    BY <2>1, LiveRegions DEF RegionsApart
  <2>3. /\ \A r \in held' : r \in Regions!Region /\ Regions!InArena(r)
        /\ \A r, q \in held' : r # q => Regions!Apart(r, q)
    <3>1. RegionsApart'
      BY LiveRegions, PTL
    <3>2. QED
      BY <2>1, <3>1 DEF RegionsApart
  <2>4. CASE SearchPlace
    <3> DEFINE placed == [offset |-> search.offset, size |-> search.size]
    <3>1. held' = held \cup {placed}
      BY <2>4 DEF SearchPlace
    <3>2. placed \notin held
      BY <3>1
    <3>3. \A q \in held : Regions!Apart(placed, q)
      BY <2>3, <3>1, <3>2
    <3>4. QED
      BY <2>1, <2>3, <3>1, <3>3 DEF Regions!Next, Regions!Allocate
  <2>5. ASSUME NEW b \in held, NEW size \in Sizes, MetadataRealloc(b, size)
        PROVE  Regions!Next
    <3> DEFINE resized == [b EXCEPT !.size = size]
    <3>1. held' = (held \ {b}) \cup (IF size > 0 THEN {resized} ELSE {})
      BY <2>5, SlotOfHeld DEF MetadataRealloc
    <3>2. CASE size > 0
      <4>1. resized \in held' /\ resized.offset = b.offset
        BY <2>2, <3>1, <3>2 DEF Regions!Region
      <4>2. \A q \in held \ {b} : q # resized => Regions!Apart(resized, q)
        BY <2>3, <3>1, <3>2, <4>1
      <4>3. resized \notin held \ {b}
        <5>1. SUFFICES ASSUME resized \in held, resized # b
                       PROVE  FALSE
          OBVIOUS
        <5>2. Regions!Apart(resized, b)
          BY <2>2, <5>1
        <5>3. b \in Regions!Region /\ resized \in Regions!Region
          BY <2>2, <5>1
        <5>4. QED
          BY <4>1, <5>2, <5>3, SizesAssumption DEF Regions!Apart, Regions!Region
      <4>4. QED
        BY <2>1, <2>3, <3>1, <3>2, <4>1, <4>2, <4>3 DEF Regions!Next, Regions!Resize
    <3>3. CASE ~(size > 0)
      BY <2>1, <3>1, <3>3 DEF Regions!Next, Regions!Release
    <3>4. QED
      BY <3>2, <3>3
  <2>6. ASSUME NEW b \in held, MetadataFree(b)
        PROVE  Regions!Next
    BY <2>1, <2>6 DEF MetadataFree, Regions!Next, Regions!Release
  <2>7. CASE DestroyAllocator \/ Killed
    BY <2>1, <2>7 DEF DestroyAllocator, Killed, ProcessGone, Regions!Next, Regions!ReleaseAll
  <2>8. QED
    <3>1. Libc => held' = held
      BY DEF Libc, LibcMalloc, LibcRealloc, LibcFree
    <3>2. Linear => held' = held
      BY DEF Linear, LinearMalloc, LinearRealloc, LinearFree, GuestStore, heap
    <3>3. (\E size \in Sizes : MetadataMalloc(size)) \/ SearchSkip \/ SearchFail
            => held' = held
      BY DEF MetadataMalloc, SearchSkip, SearchFail, heap
    <3>4. (\E b \in BOOLEAN : InitAllocator(b)) \/ UNCHANGED vars => held' = held
      BY DEF InitAllocator, heap, vars
    <3>5. QED
      BY <2>4, <2>5, <2>6, <2>7, <3>1, <3>2, <3>3, <3>4 DEF Next, Metadata, Search
<1>3. QED
  BY <1>1, <1>2, InvariantHolds, PTL DEF Spec, ImplementsRegions, Regions!Spec
=============================================================================
