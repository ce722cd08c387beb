------------------------------ MODULE CompactArena ------------------------------
(***************************************************************************)
(* The arena the guest allocates a turn from (guest/compact-arena.zig): a   *)
(* list of nodes, of which only the newest (the head) is allocated from,    *)
(* and in it only the newest allocation can grow, shrink or be freed.       *)
(*                                                                         *)
(* A node is a block of the child allocator behind its header.  Its data    *)
(* starts at some address; only that address modulo the alignments matters. *)
(* Positions in a node are offsets from there.                             *)
(***************************************************************************)
EXTENDS Integers, Sequences

CONSTANTS
  ChunkBytes,   \* chunk_bytes, 512
  Lengths,      \* lengths the client asks for
  Alignments,   \* alignments it asks for
  Origins,      \* addresses of the data of a node
  MaxNodes      \* bound: nodes of one arena; the child allocator has no more

ASSUME ArenaAssumption ==
  /\ ChunkBytes \in Nat
  /\ Lengths \subseteq Nat \ {0}     \* Allocator.zig handles lengths of 0 itself
  /\ Alignments \subseteq {1, 2, 4, 8, 16, 32, 64}
  /\ Origins \subseteq Nat
  /\ MaxNodes \in Nat

VARIABLES
  nodes,   \* the list, oldest first
  live     \* the regions the client may use

vars == <<nodes, live>>

Init ==
  /\ nodes = <<>>
  /\ live = {}

Head1 == Len(nodes)         \* index of the head, 0 when there is none
TheHead == nodes[Head1]
End(m) == m.start + m.len

AlignForward(n, a) == n + ((a - (n % a)) % a)

\* allocateFrom: where a request starts in a node, and whether it fits there.
Aligned(node, a) == AlignForward(node.origin + node.used, a) - node.origin
Fits(node, len, a) == Aligned(node, a) <= node.bytes /\ len <= node.bytes - Aligned(node, a)

\* The node, and the region, after allocateFrom.
Taken(node, len, a) ==
  [node EXCEPT !.used = Aligned(node, a) + len,
               !.last_start = Aligned(node, a), !.last_len = len]
RegionIn(i, node, len, a) ==
  [node |-> i, start |-> Aligned(node, a), len |-> len, align |-> a]

\* Faulty: the room for the alignment is forgotten.
NewNodeTight(origin, len, a) ==
  [origin |-> origin, bytes |-> IF len < ChunkBytes THEN ChunkBytes ELSE len,
   used |-> 0, last_start |-> 0, last_len |-> 0]

\* A node for the request: its length and padding, at least a chunk.
NewNode(origin, len, a) ==
  [origin |-> origin,
   bytes |-> IF a - 1 + len < ChunkBytes THEN ChunkBytes ELSE a - 1 + len,
   used |-> 0, last_start |-> 0, last_len |-> 0]

HeadFits(len, a) == Head1 > 0 /\ Fits(TheHead, len, a)

\* What alloc can come to, as the nodes and the regions it returns: none, when
\* the child allocator has nothing left or the new node would not do.
InHead(len, a) ==
  [nodes |-> [nodes EXCEPT ![Head1] = Taken(@, len, a)],
   regions |-> {RegionIn(Head1, TheHead, len, a)}]
InNewNode(origin, len, a) ==
  LET node == NewNode(origin, len, a)
  IN  IF Fits(node, len, a)
      THEN [nodes |-> Append(nodes, Taken(node, len, a)),
            regions |-> {RegionIn(Head1 + 1, node, len, a)}]
      ELSE [nodes |-> Append(nodes, node), regions |-> {}]
Placements(len, a) ==
  IF HeadFits(len, a) THEN {InHead(len, a)}
  ELSE {InNewNode(origin, len, a) : origin \in IF Head1 < MaxNodes THEN Origins ELSE {}}

Alloc(len, a) ==
  \E p \in Placements(len, a) :
    /\ nodes' = p.nodes
    /\ live' = live \cup p.regions

\* Faulty: only the length is compared.
IsLastByLength(m) == Head1 > 0 /\ m.node = Head1 /\ m.len = TheHead.last_len
\* The memory is the newest allocation of the head.
IsLast(m) ==
  /\ Head1 > 0 /\ m.node = Head1
  /\ m.start = TheHead.last_start /\ m.len = TheHead.last_len

\* Faulty: the newest allocation grows without a look at the end of the node.
CanResizeAnyLast(m, len) == len <= m.len \/ IsLast(m)
\* resize returns true: any memory can shrink, the newest can also grow.
CanResize(m, len) ==
  \/ len <= m.len
  \/ /\ IsLast(m)
     /\ TheHead.last_start <= TheHead.bytes
     /\ len <= TheHead.bytes - TheHead.last_start

Resize(m, len) ==
  /\ CanResize(m, len)
  /\ nodes' = IF IsLast(m)
              THEN [nodes EXCEPT ![Head1].used = TheHead.last_start + len,
                                 ![Head1].last_len = len]
              ELSE nodes
  /\ live' = (live \ {m}) \cup {[m EXCEPT !.len = len]}

\* remap moves the memory when it cannot be resized; the old place is not freed.
Remap(m, len) ==
  /\ ~CanResize(m, len)
  /\ \E p \in Placements(len, m.align) :
       /\ p.regions # {}
       /\ nodes' = p.nodes
       /\ live' = (live \ {m}) \cup p.regions

Free(m) ==
  /\ nodes' = IF IsLast(m)
              THEN [nodes EXCEPT ![Head1].used = TheHead.last_start, ![Head1].last_len = 0]
              ELSE nodes
  /\ live' = live \ {m}

\* deinit, and init for the next turn.
Deinit ==
  /\ nodes' = <<>>
  /\ live' = {}

Next ==
  \/ \E len \in Lengths, a \in Alignments : Alloc(len, a)
  \/ \E m \in live : Free(m) \/ \E len \in Lengths : Resize(m, len) \/ Remap(m, len)
  \/ Deinit

Spec == Init /\ [][Next]_vars
-----------------------------------------------------------------------------
Node == [origin : Origins, bytes : Nat, used : Nat, last_start : Nat, last_len : Nat]
Region == [node : Nat \ {0}, start : Nat, len : Lengths, align : Alignments]

TypeOK ==
  /\ nodes \in Seq(Node) /\ Len(nodes) <= MaxNodes
  /\ live \subseteq Region

Apart(m, n) == m.node # n.node \/ End(m) <= n.start \/ End(n) <= m.start

\* Whatever the order of alloc, resize, remap and free, the regions the client
\* may use are inside their nodes, aligned, and never overlap.
LiveApart ==
  /\ \A m \in live :
       /\ m.node \in 1 .. Len(nodes)
       /\ End(m) <= nodes[m.node].bytes
       /\ (nodes[m.node].origin + m.start) % m.align = 0
  /\ \A m, n \in live : m # n => Apart(m, n)

\* When remap moves memory it copies with @memcpy, which must not be given
\* overlapping memory: the new place has nothing in common with the old one.
MovesApart ==
  [][\A m \in live, len \in Lengths :
       Remap(m, len) => \A n \in live' \ live : Apart(m, n)]_vars

\* Every node is made large enough for the request it is made for, whatever its
\* address and the alignment: alloc never returns null once it has the memory.
NodesServe == [][Len(nodes') > Len(nodes) => \E m \in live' : m.node = Len(nodes')]_vars
=============================================================================
