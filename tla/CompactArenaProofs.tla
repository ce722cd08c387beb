--------------------------- MODULE CompactArenaProofs ---------------------------
(***************************************************************************)
(* Theorems of CompactArena, for every chunk size, length, alignment and    *)
(* address of a node.                                                      *)
(*                                                                         *)
(* The argument: a node is used exactly up to the end of its newest         *)
(* allocation (Sound), and every region of the client either is that        *)
(* allocation or ends before it (Placed).  So a request starts behind       *)
(* everything, and what resize and free move is nobody else's.              *)
(***************************************************************************)
EXTENDS CompactArena, TLAPS

Sound(node) ==
  node.used = node.last_start + node.last_len /\ node.used <= node.bytes

\* The newest allocation of a node; memory of an older node may have shrunk since.
IsNewest(node, m) == m.start = node.last_start /\ m.len <= node.last_len

\* The region m lies where a client's region may lie in the nodes ns.
Placed(ns, m) ==
  /\ m.node \in 1 .. Len(ns)
  /\ IsNewest(ns[m.node], m) \/ End(m) <= ns[m.node].last_start
  /\ (ns[m.node].origin + m.start) % m.align = 0

AllSound == \A i \in 1 .. Len(nodes) : Sound(nodes[i])
AllPlaced == \A m \in live : Placed(nodes, m)
AllApart == \A m, n \in live : m # n => Apart(m, n)

IInv == TypeOK /\ AllSound /\ AllPlaced /\ AllApart
-----------------------------------------------------------------------------
\* Rounding up to an alignment: not below, less than one alignment above, aligned.
LEMMA AlignUp ==
  ASSUME NEW n \in Nat, NEW a \in Alignments
  PROVE  /\ AlignForward(n, a) \in Nat
         /\ n <= AlignForward(n, a) /\ AlignForward(n, a) <= n + a - 1
         /\ AlignForward(n, a) % a = 0
<1>1. a \in {1, 2, 4, 8, 16, 32, 64}
  BY ArenaAssumption
<1>2. CASE a = 1
  BY <1>2 DEF AlignForward
<1>3. CASE a = 2
  BY <1>3 DEF AlignForward
<1>4. CASE a = 4
  BY <1>4 DEF AlignForward
<1>5. CASE a = 8
  BY <1>5 DEF AlignForward
<1>6. CASE a = 16
  BY <1>6 DEF AlignForward
<1>7. CASE a = 32
  BY <1>7 DEF AlignForward
<1>8. CASE a = 64
  BY <1>8 DEF AlignForward
<1> QED
  BY <1>1, <1>2, <1>3, <1>4, <1>5, <1>6, <1>7, <1>8

\* Where allocateFrom places a request: behind what is used, and aligned.
LEMMA AlignedAfterUsed ==
  ASSUME NEW node \in Node, NEW a \in Alignments
  PROVE  /\ Aligned(node, a) \in Nat /\ node.used <= Aligned(node, a)
         /\ Aligned(node, a) <= node.used + a - 1
         /\ (node.origin + Aligned(node, a)) % a = 0
<1>1. node.origin \in Nat /\ node.used \in Nat
  BY ArenaAssumption DEF Node
<1>2. a \in Int
  BY ArenaAssumption
<1> DEFINE up == AlignForward(node.origin + node.used, a)
<1>3. /\ up \in Nat /\ node.origin + node.used <= up
      /\ up <= node.origin + node.used + a - 1 /\ up % a = 0
  BY <1>1, AlignUp
<1>4. Aligned(node, a) = up - node.origin
  BY DEF Aligned
<1> HIDE DEF up
<1>5. node.origin + (up - node.origin) = up
  BY <1>1, <1>3
<1> QED
  BY <1>1, <1>2, <1>3, <1>4, <1>5

\* The node after allocateFrom, and the region it returns.
LEMMA TakenIsSound ==
  ASSUME NEW node \in Node, NEW len \in Lengths, NEW a \in Alignments, NEW i \in Nat \ {0},
         Fits(node, len, a)
  PROVE  /\ Taken(node, len, a) \in Node /\ Sound(Taken(node, len, a))
         /\ Taken(node, len, a).origin = node.origin
         /\ Taken(node, len, a).last_start >= node.used
         /\ RegionIn(i, node, len, a) \in Region
         /\ RegionIn(i, node, len, a).node = i
         /\ IsNewest(Taken(node, len, a), RegionIn(i, node, len, a))
         /\ (node.origin + RegionIn(i, node, len, a).start) % RegionIn(i, node, len, a).align = 0
<1>1. len \in Nat
  BY ArenaAssumption
<1>2. /\ Aligned(node, a) \in Nat /\ node.used <= Aligned(node, a)
      /\ (node.origin + Aligned(node, a)) % a = 0
  BY AlignedAfterUsed
<1>3. /\ Taken(node, len, a) \in Node
      /\ Taken(node, len, a).origin = node.origin
      /\ Taken(node, len, a).bytes = node.bytes
      /\ Taken(node, len, a).used = Aligned(node, a) + len
      /\ Taken(node, len, a).last_start = Aligned(node, a)
      /\ Taken(node, len, a).last_len = len
  <2>1. Aligned(node, a) + len \in Nat
    BY <1>1, <1>2
  <2> QED
    BY <1>1, <1>2, <2>1 DEF Taken, Node
<1>4. Aligned(node, a) + len <= node.bytes
  BY <1>1, <1>2 DEF Fits, Node
<1>5. RegionIn(i, node, len, a) = [node |-> i, start |-> Aligned(node, a), len |-> len, align |-> a]
  BY DEF RegionIn
<1> QED
  BY <1>1, <1>2, <1>3, <1>4, <1>5 DEF Node, Region, Sound, IsNewest

\* A new node is sound, and large enough for the request it is made for.
LEMMA NewNodeServes ==
  ASSUME NEW origin \in Origins, NEW len \in Lengths, NEW a \in Alignments
  PROVE  /\ NewNode(origin, len, a) \in Node
         /\ NewNode(origin, len, a).origin = origin
         /\ Fits(NewNode(origin, len, a), len, a)
<1> DEFINE node == NewNode(origin, len, a)
<1>1. len \in Nat \ {0} /\ a \in Nat \ {0} /\ ChunkBytes \in Nat
  BY ArenaAssumption
<1>2. /\ node \in Node /\ node.origin = origin /\ node.used = 0
      /\ node.bytes >= a - 1 + len
  BY <1>1 DEF NewNode, Node
<1>3. Aligned(node, a) \in Nat /\ Aligned(node, a) <= a - 1
  <2>1. Aligned(node, a) <= node.used + a - 1 /\ Aligned(node, a) \in Nat
    BY <1>2, AlignedAfterUsed
  <2> QED
    BY <2>1, <1>1, <1>2
<1>4. node.bytes \in Nat
  BY <1>2 DEF Node
<1> QED
  BY <1>1, <1>2, <1>3, <1>4 DEF Fits
-----------------------------------------------------------------------------
\* What an allocation leaves behind, whether in the head or in a new node: sound
\* nodes, the old regions where they were, and a new region behind them all.
LEMMA PlacementFits ==
  ASSUME IInv, NEW len \in Lengths, NEW a \in Alignments, NEW p \in Placements(len, a)
  PROVE  /\ p.nodes \in Seq(Node) /\ Len(p.nodes) <= MaxNodes
         /\ Len(p.nodes) \in {Len(nodes), Len(nodes) + 1}
         /\ \A i \in 1 .. Len(p.nodes) : Sound(p.nodes[i])
         /\ \A m \in live : Placed(p.nodes, m)
         /\ \E r \in Region :
              /\ p.regions = {r}
              /\ r.node = Len(p.nodes)
              /\ Placed(p.nodes, r)
              /\ \A m \in live : Apart(m, r) /\ Apart(r, m)
<1> USE DEF IInv, TypeOK
<1>0. /\ nodes \in Seq(Node) /\ Len(nodes) \in Nat /\ MaxNodes \in Nat
      /\ \A i \in 1 .. Len(nodes) : nodes[i] \in Node
  BY ArenaAssumption
<1>1. CASE HeadFits(len, a)
  <2> DEFINE h == Len(nodes)
             new == Taken(nodes[h], len, a)
             r == RegionIn(h, nodes[h], len, a)
  <2>1. h \in 1 .. Len(nodes) /\ h \in Nat \ {0} /\ Fits(nodes[h], len, a) /\ nodes[h] \in Node
    BY <1>0, <1>1 DEF HeadFits, Head1, TheHead
  <2>2. p.nodes = [nodes EXCEPT ![h] = new] /\ p.regions = {r}
    BY <1>1 DEF Placements, InHead, Head1, TheHead
  <2>3. /\ new \in Node /\ Sound(new) /\ new.origin = nodes[h].origin
        /\ new.last_start >= nodes[h].used
        /\ r \in Region /\ r.node = h /\ IsNewest(new, r)
        /\ (nodes[h].origin + r.start) % r.align = 0
    BY <2>1, TakenIsSound
  <2> HIDE DEF new, r
  <2>4. /\ p.nodes \in Seq(Node) /\ Len(p.nodes) = h /\ p.nodes[h] = new
        /\ \A i \in 1 .. h : i # h => p.nodes[i] = nodes[i]
    BY <2>1, <2>2, <2>3, <1>0
  <2> HIDE DEF h
  <2>5. \A i \in 1 .. Len(p.nodes) : Sound(p.nodes[i])
    BY <2>1, <2>3, <2>4 DEF AllSound, h
  <2>6. \A m \in live : m.node = h => End(m) <= new.last_start
    <3> SUFFICES ASSUME NEW m \in live, m.node = h PROVE End(m) <= new.last_start
      OBVIOUS
    <3>1. Placed(nodes, m) /\ Sound(nodes[h])
      BY <2>1 DEF AllPlaced, AllSound
    <3>2. /\ m.start \in Nat /\ m.len \in Nat
          /\ nodes[h].used \in Nat /\ nodes[h].last_start \in Nat /\ nodes[h].last_len \in Nat
      BY <2>1, ArenaAssumption DEF Region, Node
    <3>3. End(m) <= nodes[h].used
      BY <3>1, <3>2 DEF Placed, IsNewest, Sound, End
    <3>4. new.last_start \in Nat
      BY <2>3 DEF Node
    <3> QED
      BY <3>2, <3>3, <3>4, <2>3 DEF End
  <2>7. \A m \in live : Placed(p.nodes, m)
    <3> SUFFICES ASSUME NEW m \in live PROVE Placed(p.nodes, m)
      OBVIOUS
    <3>1. Placed(nodes, m)
      BY DEF AllPlaced
    <3>2. CASE m.node = h
      BY <3>1, <3>2, <2>3, <2>4, <2>6 DEF Placed, h
    <3>3. CASE m.node # h
      BY <3>1, <3>3, <2>4 DEF Placed, h
    <3> QED
      BY <3>2, <3>3
  <2>8. Placed(p.nodes, r)
    BY <2>1, <2>3, <2>4 DEF Placed
  <2>9. \A m \in live : Apart(m, r) /\ Apart(r, m)
    BY <2>3, <2>6 DEF Apart, IsNewest
  <2> QED
    BY <2>2, <2>3, <2>4, <2>5, <2>7, <2>8, <2>9 DEF h
<1>2. CASE ~HeadFits(len, a)
  <2> DEFINE h == Len(nodes) + 1
  <2>1. PICK origin \in Origins : Len(nodes) < MaxNodes /\ p = InNewNode(origin, len, a)
    BY <1>2 DEF Placements, Head1
  <2> DEFINE node == NewNode(origin, len, a)
             new == Taken(node, len, a)
             r == RegionIn(h, node, len, a)
  <2>2. node \in Node /\ Fits(node, len, a) /\ h \in Nat \ {0}
    BY <1>0, NewNodeServes
  <2>3. p.nodes = Append(nodes, new) /\ p.regions = {r}
    BY <2>1, <2>2 DEF InNewNode, Head1
  <2>4. /\ new \in Node /\ Sound(new) /\ new.origin = node.origin
        /\ r \in Region /\ r.node = h /\ IsNewest(new, r)
        /\ (node.origin + r.start) % r.align = 0
    BY <2>2, TakenIsSound
  <2> HIDE DEF node, new, r
  <2>5. /\ p.nodes \in Seq(Node) /\ Len(p.nodes) = h /\ p.nodes[h] = new
        /\ \A i \in 1 .. Len(nodes) : p.nodes[i] = nodes[i]
    BY <2>3, <2>4, <1>0
  <2>6. \A i \in 1 .. Len(p.nodes) : Sound(p.nodes[i])
    BY <2>4, <2>5, <1>0 DEF AllSound
  <2>7. \A m \in live : Placed(p.nodes, m) /\ m.node # h
    BY <2>5, <1>0 DEF AllPlaced, Placed
  <2>8. Placed(p.nodes, r)
    BY <2>2, <2>4, <2>5 DEF Placed
  <2>9. \A m \in live : Apart(m, r) /\ Apart(r, m)
    BY <2>4, <2>7 DEF Apart
  <2> QED
    BY <2>1, <2>3, <2>4, <2>5, <2>6, <2>7, <2>8, <2>9, <1>0
<1> QED
  BY <1>1, <1>2

\* A region that is the newest of the head: everybody else's there ends before it.
LEMMA OthersBefore ==
  ASSUME IInv, NEW m \in live, IsLast(m), NEW n \in live, n # m, n.node = m.node
  PROVE  End(n) <= nodes[Len(nodes)].last_start
<1> USE DEF IInv, TypeOK
<1>1. Placed(nodes, n) /\ Apart(n, m)
  BY DEF AllPlaced, AllApart
<1>2. /\ Len(nodes) \in Nat /\ n.node = Len(nodes) /\ m.start = nodes[Len(nodes)].last_start
      /\ m.len = nodes[Len(nodes)].last_len
  BY DEF IsLast, Head1, TheHead
<1>3. n.len \in Nat \ {0} /\ m.len \in Nat \ {0} /\ n.start \in Nat /\ m.start \in Nat
  BY ArenaAssumption DEF Region
<1>4. ~IsNewest(nodes[Len(nodes)], n)
  BY <1>1, <1>2, <1>3 DEF IsNewest, Apart, End
<1> QED
  BY <1>1, <1>2, <1>4 DEF Placed
-----------------------------------------------------------------------------
\* An arena without nodes satisfies the invariant.
LEMMA InitHolds == Init => IInv
BY ArenaAssumption DEF Init, IInv, TypeOK, AllSound, AllPlaced, AllApart

\* The nodes after resize, and after free (a resize of the newest to nothing).
Resized(m, len) ==
  IF IsLast(m)
  THEN [nodes EXCEPT ![Head1].used = TheHead.last_start + len, ![Head1].last_len = len]
  ELSE nodes

\* A resize keeps what the invariant says of the nodes, of the region and of the
\* others: only the newest allocation moves the end of its node.
LEMMA ResizeKeeps ==
  ASSUME IInv, NEW m \in live, NEW len \in Nat, CanResize(m, len)
  PROVE  /\ Resized(m, len) \in Seq(Node) /\ Len(Resized(m, len)) = Len(nodes)
         /\ \A i \in 1 .. Len(nodes) : Sound(Resized(m, len)[i])
         /\ Placed(Resized(m, len), [m EXCEPT !.len = len])
         /\ \A n \in live \ {m} : Placed(Resized(m, len), n)
<1> USE DEF IInv, TypeOK
<1>0. /\ nodes \in Seq(Node) /\ Len(nodes) \in Nat
      /\ \A i \in 1 .. Len(nodes) : nodes[i] \in Node /\ Sound(nodes[i])
      /\ \A n \in live : Placed(nodes, n)
  BY DEF AllSound, AllPlaced
<1>1. m \in Region /\ m.start \in Nat /\ m.len \in Nat
  BY ArenaAssumption DEF Region
<1> DEFINE r == [m EXCEPT !.len = len]
<1>2. r.node = m.node /\ r.start = m.start /\ r.len = len /\ r.align = m.align
  BY <1>1 DEF Region
<1> HIDE DEF r
<1> DEFINE ns == Resized(m, len)
<1>3. CASE IsLast(m)
  <2> DEFINE h == Len(nodes)
             old == nodes[h]
             new == [old EXCEPT !.used = old.last_start + len, !.last_len = len]
  <2>1. /\ h \in 1 .. Len(nodes) /\ m.node = h /\ old \in Node /\ Sound(old)
        /\ m.start = old.last_start /\ m.len = old.last_len
    BY <1>0, <1>3 DEF IsLast, Head1, TheHead
  <2>2a. old.last_start \in Nat /\ old.last_start + len \in Nat
    BY <2>1 DEF Node
  <2>2. /\ new \in Node /\ new.origin = old.origin /\ new.bytes = old.bytes
        /\ new.last_start = old.last_start /\ new.last_len = len
        /\ new.used = old.last_start + len
    BY <2>1, <2>2a DEF Node
  <2>3. old.last_start + len <= old.bytes
    BY <2>1, <1>1 DEF CanResize, Sound, IsLast, Head1, TheHead, Node
  <2>4. ns = [nodes EXCEPT ![h] = new]
    BY <1>3, <2>1, <1>0 DEF Resized, Head1, TheHead
  <2> HIDE DEF new, ns
  <2>5. /\ ns \in Seq(Node) /\ Len(ns) = h /\ ns[h] = new
        /\ \A i \in 1 .. h : i # h => ns[i] = nodes[i]
    BY <2>1, <2>2, <2>4, <1>0
  <2>6. Sound(new)
    BY <2>2, <2>3 DEF Sound
  <2>7. \A i \in 1 .. Len(nodes) : Sound(ns[i])
    BY <2>5, <2>6, <1>0
  <2>8. Placed(ns, r)
    BY <1>0, <1>2, <2>1, <2>2, <2>5 DEF Placed, IsNewest
  <2>9. \A n \in live \ {m} : Placed(ns, n)
    <3> SUFFICES ASSUME NEW n \in live, n # m PROVE Placed(ns, n)
      OBVIOUS
    <3>1. Placed(nodes, n)
      BY <1>0
    <3>2. CASE n.node = h
      <4>1. End(n) <= old.last_start
        BY <1>3, <2>1, <3>2, OthersBefore
      <4> QED
        BY <3>1, <3>2, <4>1, <2>2, <2>5 DEF Placed
    <3>3. CASE n.node # h
      BY <3>1, <3>3, <2>5 DEF Placed
    <3> QED
      BY <3>2, <3>3
  <2> QED
    BY <2>5, <2>7, <2>8, <2>9 DEF r, ns
<1>4. CASE ~IsLast(m)
  <2>1. ns = nodes /\ len <= m.len
    BY <1>4 DEF CanResize, Resized
  <2>2. Placed(nodes, m) /\ nodes[m.node] \in Node
    BY <1>0 DEF Placed
  <2>3. nodes[m.node].last_start \in Nat /\ nodes[m.node].last_len \in Nat
    BY <2>2 DEF Node
  <2>4. Placed(nodes, r)
    BY <1>1, <1>2, <2>1, <2>2, <2>3 DEF Placed, IsNewest, End
  <2> QED
    BY <1>0, <2>1, <2>4 DEF r
<1> QED
  BY <1>3, <1>4

\* The region resize hands back is apart from all others.
LEMMA ResizedApart ==
  ASSUME IInv, NEW m \in live, NEW len \in Lengths, CanResize(m, len),
         NEW n \in live, n # m
  PROVE  Apart([m EXCEPT !.len = len], n) /\ Apart(n, [m EXCEPT !.len = len])
<1> USE DEF IInv, TypeOK
<1> DEFINE r == [m EXCEPT !.len = len]
<1>1. /\ m.start \in Nat /\ m.len \in Nat /\ n.start \in Nat /\ n.len \in Nat
      /\ m \in Region /\ len \in Nat
  BY ArenaAssumption DEF Region
<1>2. r.node = m.node /\ r.start = m.start /\ r.len = len
  BY <1>1 DEF Region
<1> HIDE DEF r
<1>3. Apart(m, n) /\ Apart(n, m)
  BY DEF AllApart
<1>4. CASE len <= m.len
  BY <1>1, <1>2, <1>3, <1>4 DEF Apart, End
<1>5. CASE IsLast(m)
  <2>1. n.node = m.node => End(n) <= nodes[Len(nodes)].last_start
    BY <1>5, OthersBefore
  <2>2. m.start = nodes[Len(nodes)].last_start
    BY <1>5 DEF IsLast, Head1, TheHead
  <2> QED
    BY <1>2, <2>1, <2>2 DEF Apart
<1> QED
  BY <1>4, <1>5 DEF CanResize, r

\* The invariant after any step that goes to sound nodes and keeps a subset of the
\* regions, with at most one new region apart from those kept.
LEMMA AllocKeeps ==
  ASSUME IInv, NEW len \in Lengths, NEW a \in Alignments, NEW p \in Placements(len, a),
         nodes' = p.nodes, live' \subseteq live \cup p.regions
  PROVE  IInv'
<1>1. PICK r \in Region :
         /\ p.regions = {r} /\ Placed(p.nodes, r)
         /\ \A m \in live : Apart(m, r) /\ Apart(r, m)
  BY PlacementFits
<1>2. /\ p.nodes \in Seq(Node) /\ Len(p.nodes) <= MaxNodes
      /\ \A i \in 1 .. Len(p.nodes) : Sound(p.nodes[i])
      /\ \A m \in live : Placed(p.nodes, m)
  BY PlacementFits
<1>3. live' \subseteq live \cup {r}
  BY <1>1
<1>4. TypeOK'
  BY <1>2, <1>3 DEF IInv, TypeOK
<1>5. AllSound'
  BY <1>2 DEF AllSound
<1>6. AllPlaced'
  BY <1>1, <1>2, <1>3 DEF AllPlaced
<1>7. AllApart'
  BY <1>1, <1>3 DEF IInv, AllApart
<1> QED
  BY <1>4, <1>5, <1>6, <1>7 DEF IInv

\* resize keeps the invariant (compact-arena.zig:98).
LEMMA ResizeStepKeeps ==
  ASSUME IInv, NEW m \in live, NEW len \in Lengths, Resize(m, len)
  PROVE  IInv'
<1> DEFINE r == [m EXCEPT !.len = len]
<1>1. CanResize(m, len) /\ nodes' = Resized(m, len) /\ live' = (live \ {m}) \cup {r}
  BY DEF Resize, Resized
<1>2. len \in Nat
  BY ArenaAssumption
<1>3. /\ nodes' \in Seq(Node) /\ Len(nodes') = Len(nodes)
      /\ \A i \in 1 .. Len(nodes) : Sound(nodes'[i])
      /\ Placed(nodes', r)
      /\ \A n \in live \ {m} : Placed(nodes', n)
  BY <1>1, <1>2, ResizeKeeps
<1>4. \A n \in live \ {m} : Apart(r, n) /\ Apart(n, r)
  BY <1>1, ResizedApart
<1>5. r \in Region
  BY DEF IInv, TypeOK, Region
<1> HIDE DEF r
<1>6. TypeOK'
  BY <1>1, <1>3, <1>5 DEF IInv, TypeOK
<1>7. AllSound'
  BY <1>3 DEF AllSound
<1>8. AllPlaced'
  BY <1>1, <1>3 DEF AllPlaced
<1>9. AllApart'
  BY <1>1, <1>4 DEF IInv, AllApart
<1> QED
  BY <1>6, <1>7, <1>8, <1>9 DEF IInv

\* free keeps the invariant: to the nodes it is a resize to nothing.
LEMMA FreeKeeps ==
  ASSUME IInv, NEW m \in live, Free(m)
  PROVE  IInv'
<1>0. m.len \in Nat
  BY ArenaAssumption DEF IInv, TypeOK, Region
<1>1. 0 \in Nat /\ CanResize(m, 0)
  BY <1>0 DEF CanResize
<1>2. nodes' = Resized(m, 0)
  <2>1. IsLast(m) => TheHead.last_start + 0 = TheHead.last_start
    <3> SUFFICES ASSUME IsLast(m) PROVE TheHead.last_start + 0 = TheHead.last_start
      OBVIOUS
    <3>1. nodes \in Seq(Node) /\ Len(nodes) \in 1 .. Len(nodes)
      BY DEF IInv, TypeOK, IsLast, Head1
    <3>2. TheHead \in Node
      BY <3>1 DEF TheHead, Head1
    <3> QED
      BY <3>2 DEF Node
  <2> QED
    BY <2>1 DEF Free, Resized
<1>3. live' = live \ {m}
  BY DEF Free
<1>4. /\ nodes' \in Seq(Node) /\ Len(nodes') = Len(nodes)
      /\ \A i \in 1 .. Len(nodes) : Sound(nodes'[i])
      /\ \A n \in live \ {m} : Placed(nodes', n)
  BY <1>1, <1>2, ResizeKeeps
<1> QED
  BY <1>3, <1>4 DEF IInv, TypeOK, AllSound, AllPlaced, AllApart

\* Every step keeps the invariant, one case per operation.
LEMMA StepKeeps == IInv /\ [Next]_vars => IInv'
<1> SUFFICES ASSUME IInv, [Next]_vars PROVE IInv'
  OBVIOUS
<1>1. ASSUME NEW len \in Lengths, NEW a \in Alignments, Alloc(len, a) PROVE IInv'
  BY <1>1, AllocKeeps DEF Alloc
<1>2. ASSUME NEW m \in live, Free(m) PROVE IInv'
  BY <1>2, FreeKeeps
<1>3. ASSUME NEW m \in live, NEW len \in Lengths, Resize(m, len) PROVE IInv'
  BY <1>3, ResizeStepKeeps
<1>4. ASSUME NEW m \in live, NEW len \in Lengths, Remap(m, len) PROVE IInv'
  <2>1. m.align \in Alignments
    BY DEF IInv, TypeOK, Region
  <2>2. PICK p \in Placements(len, m.align) :
          nodes' = p.nodes /\ live' = (live \ {m}) \cup p.regions
    BY <1>4 DEF Remap
  <2>3. live' \subseteq live \cup p.regions
    BY <2>2
  <2> QED
    BY <2>1, <2>2, <2>3, AllocKeeps
<1>5. CASE Deinit
  BY <1>5, ArenaAssumption DEF Deinit, IInv, TypeOK, AllSound, AllPlaced, AllApart
<1>6. CASE UNCHANGED vars
  BY <1>6 DEF vars, IInv, TypeOK, AllSound, AllPlaced, AllApart
<1> QED
  BY <1>1, <1>2, <1>3, <1>4, <1>5, <1>6 DEF Next
-----------------------------------------------------------------------------
\* The inductive invariant holds in every state of the arena.
THEOREM InvariantHolds == Spec => []IInv
BY InitHolds, StepKeeps, PTL DEF Spec

\* Nodes and regions keep their types (compact-arena.zig:15-27).
THEOREM TypeCorrect == Spec => []TypeOK
<1>1. IInv => TypeOK
  BY DEF IInv
<1> QED
  BY <1>1, InvariantHolds, PTL

\* Regions in use are inside their nodes, aligned and pairwise disjoint, whatever
\* the order of alloc, resize, remap and free.
THEOREM RegionsStayApart == Spec => []LiveApart
<1>1. IInv => LiveApart
  <2> SUFFICES ASSUME IInv PROVE LiveApart
    OBVIOUS
  <2> USE DEF IInv, TypeOK
  <2>1. ASSUME NEW m \in live
        PROVE  /\ m.node \in 1 .. Len(nodes)
               /\ End(m) <= nodes[m.node].bytes
               /\ (nodes[m.node].origin + m.start) % m.align = 0
    <3>1. Placed(nodes, m) /\ m.node \in 1 .. Len(nodes)
      BY DEF AllPlaced, Placed
    <3>2. nodes[m.node] \in Node /\ Sound(nodes[m.node])
      BY <3>1 DEF AllSound
    <3>3. m.start \in Nat /\ m.len \in Nat
      BY ArenaAssumption DEF Region
    <3>4. /\ nodes[m.node].last_start \in Nat /\ nodes[m.node].last_len \in Nat
          /\ nodes[m.node].used \in Nat /\ nodes[m.node].bytes \in Nat
      BY <3>2 DEF Node
    <3> QED
      BY <3>1, <3>2, <3>3, <3>4 DEF Placed, IsNewest, Sound, End
  <2> QED
    BY <2>1 DEF AllApart, LiveApart
<1> QED
  BY <1>1, InvariantHolds, PTL

\* remap never copies between overlapping places.
THEOREM RemapMovesApart == Spec => MovesApart
<1>1. IInv /\ [Next]_vars =>
        [\A m \in live, len \in Lengths :
           Remap(m, len) => \A n \in live' \ live : Apart(m, n)]_vars
  <2> SUFFICES ASSUME IInv, NEW m \in live, NEW len \in Lengths, Remap(m, len),
                      NEW n \in live' \ live
               PROVE  Apart(m, n)
    BY DEF vars
  <2>1. m.align \in Alignments
    BY DEF IInv, TypeOK, Region
  <2>2. PICK p \in Placements(len, m.align) : live' = (live \ {m}) \cup p.regions
    BY DEF Remap
  <2>3. n \in p.regions
    BY <2>2
  <2> QED
    BY <2>1, <2>3, PlacementFits
<1> QED
  BY <1>1, InvariantHolds, PTL DEF Spec, MovesApart

\* A node that was made serves the request it was made for.
THEOREM NodesAreUsed == Spec => NodesServe
<1>1. IInv /\ [Next]_vars =>
        [Len(nodes') > Len(nodes) => \E m \in live' : m.node = Len(nodes')]_vars
  <2> SUFFICES ASSUME IInv, Next, Len(nodes') > Len(nodes)
               PROVE  \E m \in live' : m.node = Len(nodes')
    BY DEF vars
  <2> DEFINE Served == \E m \in live' : m.node = Len(nodes')
  <2>1. ASSUME NEW len \in Lengths, NEW a \in Alignments, NEW p \in Placements(len, a),
               nodes' = p.nodes, p.regions \subseteq live'
        PROVE  Served
    <3>1. PICK r \in Region : p.regions = {r} /\ r.node = Len(p.nodes)
      BY PlacementFits
    <3> QED
      BY <2>1, <3>1
  <2>2. ASSUME NEW len \in Lengths, NEW a \in Alignments, Alloc(len, a) PROVE Served
    BY <2>1, <2>2 DEF Alloc
  <2>3. ASSUME NEW m \in live, NEW len \in Lengths, Remap(m, len) PROVE Served
    <3>1. m.align \in Alignments
      BY DEF IInv, TypeOK, Region
    <3> QED
      BY <2>1, <2>3, <3>1 DEF Remap
  <2>4. ASSUME NEW m \in live, NEW len \in Lengths, Resize(m, len) PROVE FALSE
    <3>1. len \in Nat /\ nodes' = Resized(m, len) /\ CanResize(m, len)
      BY <2>4, ArenaAssumption DEF Resize, Resized
    <3>2. Len(nodes') = Len(nodes)
      BY <3>1, ResizeKeeps
    <3> QED
      BY <3>2 DEF IInv, TypeOK
  <2>5. ASSUME NEW m \in live, Free(m) PROVE FALSE
    <3>1. Len(nodes') = Len(nodes)
      BY <2>5 DEF Free, IInv, TypeOK
    <3> QED
      BY <3>1 DEF IInv, TypeOK
  <2>6. CASE Deinit
    BY <2>6 DEF Deinit, IInv, TypeOK
  <2> QED
    BY <2>2, <2>3, <2>4, <2>5, <2>6 DEF Next
<1> QED
  BY <1>1, InvariantHolds, PTL DEF Spec, NodesServe
=============================================================================
