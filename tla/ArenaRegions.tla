------------------------------ MODULE ArenaRegions ------------------------------
(***************************************************************************)
(* What a block allocator promises its client, whatever its algorithm: the *)
(* live blocks are disjoint regions of one arena, a region is created,     *)
(* resized in place or released one at a time, and only the end of the     *)
(* process releases all of them at once.                                   *)
(***************************************************************************)
EXTENDS Integers

CONSTANT Bytes     \* size of the arena

VARIABLE regions   \* the live regions

Region == [offset : 0 .. Bytes, size : 1 .. Bytes]
InArena(r) == r.offset % 8 = 0 /\ r.offset + r.size <= Bytes
Apart(r, q) == r.offset + r.size <= q.offset \/ q.offset + q.size <= r.offset

Init == regions = {}

Allocate ==
  \E r \in Region :
    /\ InArena(r)
    /\ \A q \in regions : Apart(r, q)
    /\ regions' = regions \cup {r}

Resize ==
  \E r \in regions, r2 \in Region :
    /\ r2.offset = r.offset
    /\ InArena(r2)
    /\ \A q \in regions \ {r} : Apart(r2, q)
    /\ regions' = (regions \ {r}) \cup {r2}

Release == \E r \in regions : regions' = regions \ {r}

ReleaseAll == regions' = {}

Next == Allocate \/ Resize \/ Release \/ ReleaseAll

Spec == Init /\ [][Next]_regions
=============================================================================
