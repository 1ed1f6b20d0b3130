------------------------ MODULE BuddyAllocatorProofs ------------------------
(***************************************************************************)
(* Proofs about BuddyAllocator for every backing size, every set of        *)
(* regions and every sequence of calls, and about BuddyWalk for every tree *)
(* these lead to.                                                          *)
(*                                                                         *)
(* The first part shows that the inductive invariant IInv is kept, and     *)
(* that the tree implements RegionSpace.  The second follows the walks of  *)
(* the code by induction on the size of a node, downwards for the searches *)
(* (WalkFinds, WalkSplits, WalkSearchesInUse) and upwards for Coalesce     *)
(* (ClimbStep), and ends in WalksFollowPointers.                           *)
(***************************************************************************)
EXTENDS BuddyWalk, FiniteSetTheorems, Induction

-----------------------------------------------------------------------------
(* Choices of a smallest element.                                          *)

(* AllocNode finds a size class for every request AllocateRegion accepts.  *)
LEMMA SizeClassType ==
    ASSUME NEW request \in Requests
    PROVE  SizeClass(request) \in Sizes
<1> DEFINE T == {s \in Sizes : request <= s}
<1>1. T \subseteq Nat /\ T # {}
  <2>1. request <= BackingSize
    BY RequestsAssumption, SizesAssumption
  <2>. QED
    BY <2>1, SizesAssumption
<1>2. PICK s \in T : \A t \in T : s <= t
  BY <1>1, NatMinimum
<1>. QED
  BY <1>2 DEF SizeClass

(* Where the search reaches a free node, FirstFit is one of these.         *)
LEMMA FirstFitReached ==
    ASSUME TypeOK, NEW size, Reached(size) # {}
    PROVE  FirstFit(size) \in Reached(size)
<1> DEFINE T == {b.off : b \in Reached(size)}
<1>1. T \subseteq Nat /\ T # {}
  BY DEF Reached, TypeOK, Block
<1>2. PICK o \in T : \A t \in T : o <= t
  BY <1>1, NatMinimum
<1>3. PICK b \in Reached(size) : b.off = o
  OBVIOUS
<1>4. \A c \in Reached(size) : b.off <= c.off
  BY <1>2, <1>3
<1>. QED
  BY <1>4 DEF FirstFit

-----------------------------------------------------------------------------
(* Geometry of blocks.                                                     *)

(* Offset and size determine a block.                                      *)
LEMMA BlockEquality ==
    ASSUME NEW m \in Block, NEW n \in Block, m.off = n.off, m.size = n.size
    PROVE  m = n
BY DEF Block

(* The fields of a block are numbers, and a block is not empty.            *)
LEMMA BlockFields ==
    ASSUME NEW b \in Block
    PROVE  b.off \in Nat /\ b.size \in Nat /\ b.size > 0 /\ b.size \in Sizes
<1>1. \A s \in Sizes : s \in Nat /\ s > 0
  BY SizesAssumption
<1>. QED
  BY <1>1 DEF Block

(* The nodes made by splitting b down to size, by their fields.            *)
LEMMA SplitNodes ==
    ASSUME NEW b \in Block, NEW size \in Sizes, size <= b.size
    PROVE  /\ \A n \in Spine(b, size) :
                 /\ n \in Block /\ n.off = b.off
                 /\ size <= n.size /\ n.size <= b.size
           /\ \A n \in Halves(b, size) :
                 /\ n \in Block /\ n.off = b.off + n.size
                 /\ size <= n.size /\ n.size < b.size
           /\ \A s \in Sizes : size <= s /\ s <= b.size =>
                 [off |-> b.off, size |-> s] \in Spine(b, size)
           /\ \A s \in Sizes : size <= s /\ s < b.size =>
                 [off |-> b.off + s, size |-> s] \in Halves(b, size)
<1>1. b.off \in Nat /\ b.size \in Sizes /\ Sizes \subseteq Nat
  BY SizesAssumption DEF Block
<1>2. ASSUME NEW n \in Spine(b, size)
      PROVE  /\ n \in Block /\ n.off = b.off
             /\ size <= n.size /\ n.size <= b.size
  BY <1>1 DEF Spine, Block
<1>3. ASSUME NEW n \in Halves(b, size)
      PROVE  /\ n \in Block /\ n.off = b.off + n.size
             /\ size <= n.size /\ n.size < b.size
  BY <1>1 DEF Halves, Block
<1>4. ASSUME NEW s \in Sizes, size <= s, s <= b.size
      PROVE  [off |-> b.off, size |-> s] \in Spine(b, size)
  BY <1>4 DEF Spine
<1>5. ASSUME NEW s \in Sizes, size <= s, s < b.size
      PROVE  [off |-> b.off + s, size |-> s] \in Halves(b, size)
  BY <1>5 DEF Halves
<1>. QED
  BY <1>2, <1>3, <1>4, <1>5

(* How two nodes of a tree may lie: TreeShape for one pair.                *)
Nested(m, n, nodes) == /\ Inside(m, n)
                       /\ Children(n) \subseteq nodes
                       /\ \E c \in Children(n) : Inside(m, c)

(* The nodes a split makes lie to each other as the nodes of a tree do.    *)
LEMMA SplitShape ==
    ASSUME NEW b \in Block, NEW size \in Sizes, size <= b.size,
           NEW m \in Spine(b, size) \cup Halves(b, size),
           NEW n \in Spine(b, size) \cup Halves(b, size)
    PROVE  \/ Disjoint(m, n)
           \/ Inside(n, m)
           \/ Nested(m, n, Spine(b, size) \cup Halves(b, size))
<1> USE DEF Disjoint, Inside
<1>1. /\ b.off \in Nat /\ m.off \in Nat /\ n.off \in Nat
      /\ b.size \in Sizes /\ b.size \in Nat /\ b.size > 0
      /\ m.size \in Sizes /\ m.size \in Nat /\ m.size > 0
      /\ n.size \in Sizes /\ n.size \in Nat /\ n.size > 0
      /\ size \in Nat
  <2>1. m \in Block /\ n \in Block
    BY SplitNodes
  <2>2. size \in Nat
    BY SizesAssumption
  <2>. QED
    BY <2>1, <2>2, BlockFields
<1>2. \A s, t \in Sizes : s < t => 2 * s <= t
  BY SizesAssumption
<1>3. CASE n \in Halves(b, size)
  <2>1. CASE m \in Halves(b, size)
    BY <1>1, <1>2, <1>3, <2>1, SplitNodes
  <2>2. CASE m \in Spine(b, size)
    BY <1>1, <1>2, <1>3, <2>2, SplitNodes
  <2>. QED
    BY <2>1, <2>2
<1>4. CASE n \in Spine(b, size) /\ m.size >= n.size
  <2>1. CASE m \in Halves(b, size)
    BY <1>1, <1>2, <1>4, <2>1, SplitNodes
  <2>2. CASE m \in Spine(b, size)
    BY <1>1, <1>2, <1>4, <2>2, SplitNodes
  <2>. QED
    BY <2>1, <2>2
<1>5. CASE n \in Spine(b, size) /\ m.size < n.size
  <2> DEFINE h == n.size \div 2
  <2>1. size <= m.size /\ size <= n.size /\ n.size <= b.size /\ n.off = b.off
    BY <1>5, SplitNodes
  <2>2. h \in Sizes /\ h \in Nat /\ 2 * h = n.size
    <3>1. MinBlock <= m.size /\ MinBlock \in Nat
      BY <1>1, SizesAssumption
    <3>2. n.size \in Sizes \ {MinBlock}
      BY <1>1, <1>5, <3>1
    <3>. QED
      BY <3>2, SizesAssumption
  <2>3. size <= h /\ m.size <= h
    <3>1. size < n.size
      BY <1>1, <1>5, <2>1
    <3>2. 2 * size <= n.size /\ 2 * m.size <= n.size
      BY <1>1, <1>2, <1>5, <3>1
    <3>. QED
      BY <1>1, <2>2, <3>2
  <2>4. h < n.size
    BY <1>1, <2>2
  <2> HIDE DEF h
  <2>5. [off |-> b.off, size |-> h] \in Spine(b, size)
    BY <1>1, <2>1, <2>2, <2>3, <2>4, SplitNodes
  <2>6. [off |-> b.off + h, size |-> h] \in Halves(b, size)
    BY <1>1, <2>1, <2>2, <2>3, <2>4, SplitNodes
  <2>7. /\ Children(n) = {[off |-> b.off, size |-> h], [off |-> b.off + h, size |-> h]}
        /\ Left(n) = [off |-> b.off, size |-> h]
        /\ Right(n) = [off |-> b.off + h, size |-> h]
    BY <2>1 DEF Children, Left, Right, h
  <2>8. Children(n) \subseteq Spine(b, size) \cup Halves(b, size)
    BY <2>5, <2>6, <2>7
  <2>9. Inside(m, n) /\ \E c \in Children(n) : Inside(m, c)
    <3>1. CASE m \in Spine(b, size)
      <4>1. m.off = b.off
        BY <3>1, SplitNodes
      <4>2. Inside(m, n) /\ Inside(m, Left(n))
        BY <1>1, <2>1, <2>2, <2>3, <2>4, <2>7, <4>1
      <4>. QED
        BY <4>2 DEF Children
    <3>2. CASE m \in Halves(b, size) /\ m.size = h
      <4>1. m.off = b.off + h
        BY <3>2, SplitNodes
      <4>2. Inside(m, n) /\ Inside(m, Right(n))
        BY <1>1, <2>1, <2>2, <2>3, <2>4, <2>7, <3>2, <4>1
      <4>. QED
        BY <4>2 DEF Children
    <3>3. CASE m \in Halves(b, size) /\ m.size # h
      <4>1. m.off = b.off + m.size /\ 2 * m.size <= h
        BY <1>1, <1>2, <2>2, <2>3, <3>3, SplitNodes
      <4>2. Inside(m, n) /\ Inside(m, Left(n))
        BY <1>1, <2>1, <2>2, <2>3, <2>4, <2>7, <4>1
      <4>. QED
        BY <4>2 DEF Children
    <3>. QED
      BY <3>1, <3>2, <3>3
  <2>. QED
    BY <2>8, <2>9 DEF Nested
<1>6. m.size >= n.size \/ m.size < n.size
  BY <1>1
<1>. QED
  BY <1>3, <1>4, <1>5, <1>6

(* Inclusion and disjointness of blocks.                                   *)
LEMMA InsideOrder ==
    ASSUME NEW x \in Block, NEW y \in Block
    PROVE  /\ Inside(x, x)
           /\ Inside(x, y) /\ Inside(y, x) => x = y
           /\ Inside(x, y) => ~Disjoint(x, y) /\ ~Disjoint(y, x)
           /\ Disjoint(x, y) => Disjoint(y, x)
<1>1. /\ x.off \in Nat /\ x.size \in Nat /\ x.size > 0
      /\ y.off \in Nat /\ y.size \in Nat /\ y.size > 0
  BY BlockFields
<1>2. Inside(x, y) /\ Inside(y, x) => x.off = y.off /\ x.size = y.size
  BY <1>1 DEF Inside
<1>3. Inside(x, y) => ~Disjoint(x, y) /\ ~Disjoint(y, x)
  BY <1>1 DEF Inside, Disjoint
<1>. QED
  BY <1>1, <1>2, <1>3, BlockEquality DEF Inside, Disjoint

(* What is inside of a block is inside of what the block is inside of, and *)
(* disjoint from what the block is disjoint from.                          *)
LEMMA InsideTransitive ==
    ASSUME NEW x \in Block, NEW y \in Block, NEW z \in Block, Inside(x, y)
    PROVE  /\ Inside(y, z) => Inside(x, z)
           /\ Disjoint(y, z) => Disjoint(x, z)
BY BlockFields DEF Inside, Disjoint

-----------------------------------------------------------------------------
(* AllocNode preserves the invariant, and the block it hands out touches   *)
(* no block in use.                                                        *)

LEMMA AllocStep ==
    ASSUME IInv,
           NEW size \in Sizes, NEW b \in Reached(size), NEW r \in Regions,
           live[r] = NoBlock,
           count' = CountAfterAlloc(b, size),
           live' = [live EXCEPT ![r] = Allocated(b, size)]
    PROVE  /\ IInv'
           /\ live'[r] = Allocated(b, size)
           /\ \A q \in Regions : live[q] # NoBlock => Disjoint(live'[r], live[q])
<1> DEFINE New == Spine(b, size) \cup Halves(b, size)
<1> USE DEF IInv
<1>1. /\ b \in tree /\ b \in Block
      /\ ~InUse(b) /\ size <= b.size
      /\ Leaf(b)
      /\ \A a \in Above(b) : InUse(a)
  BY DEF Reached, TypeOK, FreeNodeIsLeaf
<1>2. tree' = tree \cup New
  BY <1>1 DEF CountAfterAlloc, TreeAfterAlloc, Overwritten, Leaf, tree
<1>3. \A n \in New : n \in Block /\ Inside(n, b)
  <2>1. TAKE n \in New
  <2>2. /\ n \in Block
        /\ \/ n.off = b.off /\ n.size <= b.size
           \/ n.off = b.off + n.size /\ n.size < b.size
    <3>1. CASE n \in Spine(b, size)
      BY <1>1, <3>1, SplitNodes
    <3>2. CASE n \in Halves(b, size)
      BY <1>1, <3>2, SplitNodes
    <3>. QED
      BY <2>1, <3>1, <3>2
  <2>3. /\ b.off \in Nat /\ b.size \in Nat /\ n.off \in Nat /\ n.size \in Nat
        /\ n.size \in Sizes /\ b.size \in Sizes
    BY <1>1, <2>2, BlockFields
  <2>4. n.size < b.size => 2 * n.size <= b.size
    BY <2>3, SizesAssumption
  <2>. QED
    BY <2>2, <2>3, <2>4 DEF Inside
<1>4. \A n \in New \cap tree : n = b
  BY <1>1, <1>3 DEF Leaf, Below
<1>5. \A m \in tree \ {b} : Disjoint(m, b) \/ m \in Above(b)
  BY <1>1 DEF TreeShape, Leaf, Below, Above
<1>6. \A m \in Above(b) : m \in tree /\ m \notin New /\ m # b
  BY <1>4 DEF Above
<1>7. Spine(b, size) \cap Halves(b, size) = {}
  <2>1. SUFFICES ASSUME NEW n \in Spine(b, size), n \in Halves(b, size)
                 PROVE  FALSE
    OBVIOUS
  <2>2. n.off = b.off /\ n.off = b.off + n.size /\ n \in Block
    BY <1>1, <2>1, SplitNodes
  <2>. QED
    BY <1>1, <2>2, BlockFields
<1>8. /\ \A n \in Spine(b, size) : count'[n] = 1
      /\ \A n \in Halves(b, size) : count'[n] = 0
      /\ \A n \in Above(b) : count'[n] = count[n] + 1
      /\ \A n \in tree : n \notin New /\ n \notin Above(b) => count'[n] = count[n]
  <2>1. tree' = TreeAfterAlloc(b, size)
    BY DEF CountAfterAlloc, tree
  <2>2. \A n \in tree' : count'[n] =
            IF n \in Spine(b, size) THEN 1
            ELSE IF n \in Halves(b, size) THEN 0
            ELSE IF n \in Above(b) THEN count[n] + 1
            ELSE count[n]
    BY <2>1 DEF CountAfterAlloc
  <2> HIDE DEF IInv
  <2>. QED
    BY <2>2, <1>2, <1>6, <1>7
<1>9. b \in Spine(b, size)
  <2>1. b.size \in Sizes /\ b.size \in Nat
    BY <1>1, BlockFields
  <2>2. [off |-> b.off, size |-> b.size] \in Spine(b, size)
    BY <1>1, <2>1, SplitNodes
  <2>3. b = [off |-> b.off, size |-> b.size]
    BY <1>1 DEF Block
  <2>. QED
    BY <2>2, <2>3
<1>10. TypeOK'
  <2>1. \A n \in tree : count[n] \in Nat
    BY DEF TypeOK
  <2>2. \A n \in tree' : count'[n] \in Nat
    BY <1>2, <1>6, <1>8, <2>1
  <2>3. count' \in [tree' -> Nat]
    BY <2>2 DEF CountAfterAlloc, tree
  <2>4. tree' \subseteq Block
    BY <1>2, <1>3 DEF TypeOK
  <2>5. ASSUME NEW n \in tree' PROVE n.off + n.size <= BackingSize
    <3>1. CASE n \in tree
      BY <3>1 DEF TypeOK
    <3>2. CASE n \in New
      <4>1. b.off + b.size <= BackingSize
        BY <1>1 DEF TypeOK
      <4>2. Inside(n, b) /\ n \in Block
        BY <1>3, <3>2
      <4>3. BackingSize \in Nat
        BY SizesAssumption
      <4>. QED
        BY <1>1, <4>1, <4>2, <4>3, BlockFields DEF Inside
    <3>. QED
      BY <1>2, <3>1, <3>2
  <2>6. Allocated(b, size) \in Block
    BY <1>1 DEF Block, Allocated
  <2>7. live' \in [Regions -> Block \cup {NoBlock}]
    BY <2>6 DEF TypeOK
  <2>. QED
    BY <2>3, <2>4, <2>5, <2>7 DEF TypeOK
<1>11. TreeShape'
  <2>1. SUFFICES ASSUME NEW m \in tree', NEW n \in tree'
                 PROVE  Disjoint(m, n) \/ Inside(n, m) \/ Nested(m, n, tree')
    BY DEF TreeShape, Nested
  <2>2. m \in Block /\ n \in Block
    BY <1>10 DEF TypeOK
  <2>3. CASE m \in New /\ n \in New
    <3>1. Disjoint(m, n) \/ Inside(n, m) \/ Nested(m, n, New)
      BY <1>1, <2>3, SplitShape
    <3>. QED
      BY <1>2, <3>1 DEF Nested
  <2>4. CASE m \in tree /\ n \in tree
    <3>1. Disjoint(m, n) \/ Inside(n, m) \/ Nested(m, n, tree)
      BY <2>4 DEF TreeShape, Nested
    <3>. QED
      BY <1>2, <3>1 DEF Nested
  <2>5. CASE m \in New /\ n \in tree \ {b}
    <3>1. CASE Disjoint(n, b)
      BY <1>1, <1>3, <2>2, <2>5, <3>1, InsideOrder, InsideTransitive
    <3>2. CASE n \in Above(b)
      <4>1. Inside(b, n) /\ b # n
        BY <3>2 DEF Above
      <4>2. Nested(b, n, tree)
        BY <1>1, <2>2, <2>5, <4>1, InsideOrder DEF TreeShape, Nested
      <4>3. PICK c \in Children(n) : c \in Block /\ Inside(b, c)
        BY <4>2 DEF Nested, TypeOK
      <4>4. Inside(m, n) /\ Inside(m, c)
        BY <1>1, <1>3, <2>2, <2>5, <4>1, <4>3, InsideTransitive
      <4>. QED
        BY <1>2, <4>2, <4>4 DEF Nested
    <3>. QED
      BY <1>5, <2>5, <3>1, <3>2
  <2>6. CASE m \in tree \ {b} /\ n \in New
    <3>1. CASE Disjoint(m, b)
      BY <1>1, <1>3, <2>2, <2>6, <3>1, InsideOrder, InsideTransitive
    <3>2. CASE m \in Above(b)
      <4>1. Inside(b, m)
        BY <3>2 DEF Above
      <4>. QED
        BY <1>1, <1>3, <2>2, <2>6, <4>1, InsideTransitive
    <3>. QED
      BY <1>5, <2>6, <3>1, <3>2
  <2>. QED
    BY <1>2, <2>1, <2>3, <2>4, <2>5, <2>6, <1>9
<1>12. FreeNodeIsLeaf'
  <2>1. SUFFICES ASSUME NEW n \in tree', count'[n] = 0,
                        NEW d \in tree', Inside(d, n), d # n
                 PROVE  FALSE
    BY <1>10 DEF FreeNodeIsLeaf, InUse, Leaf, Below, TypeOK
  <2>2. n \in Block /\ d \in Block
    BY <1>10 DEF TypeOK
  <2>3. n \notin Above(b)
    <3>1. \A a \in Above(b) : count[a] \in Nat
      BY <1>6 DEF TypeOK
    <3>. QED
      BY <1>8, <2>1, <3>1
  <2>4. CASE n \in New
    <3>1. n \in Halves(b, size)
      BY <1>8, <2>1, <2>4
    <3>2. d \in New
      <4>1. Inside(d, b)
        BY <1>1, <1>3, <2>1, <2>2, <2>4, InsideTransitive
      <4>2. CASE d \in tree
        <5>1. d = b
          BY <1>1, <4>1, <4>2 DEF Leaf, Below
        <5>. QED
          BY <1>9, <5>1
      <4>. QED
        BY <1>2, <4>2
    <3>3. n.off = b.off + n.size /\ size <= n.size
      BY <1>1, <3>1, SplitNodes
    <3>4. /\ n.off \in Nat /\ n.size \in Nat /\ n.size > 0 /\ n.size \in Sizes
          /\ d.off \in Nat /\ d.size \in Nat /\ d.size > 0 /\ d.size \in Sizes
          /\ b.off \in Nat
      BY <1>1, <2>2, BlockFields
    <3>5. CASE d \in Spine(b, size)
      <4>1. d.off = b.off
        BY <1>1, <3>5, SplitNodes
      <4>. QED
        BY <2>1, <3>3, <3>4, <4>1 DEF Inside
    <3>6. CASE d \in Halves(b, size)
      <4>1. d.off = b.off + d.size
        BY <1>1, <3>6, SplitNodes
      <4>2. d.size # n.size
        BY <2>1, <2>2, <3>3, <4>1, BlockEquality
      <4>3. d.size < n.size
        BY <2>1, <3>3, <3>4, <4>1, <4>2 DEF Inside
      <4>. QED
        BY <2>1, <3>3, <3>4, <4>1, <4>3 DEF Inside
    <3>. QED
      BY <3>2, <3>5, <3>6
  <2>5. CASE n \in tree \ {b} /\ n \notin New
    <3>1. count[n] = 0 /\ Below(n) = {}
      BY <1>8, <2>1, <2>3, <2>5 DEF FreeNodeIsLeaf, InUse, Leaf, TypeOK
    <3>2. d \in New
      BY <1>2, <2>1, <3>1 DEF Below
    <3>3. Disjoint(n, b)
      BY <1>5, <2>3, <2>5
    <3>4. Disjoint(d, n)
      BY <1>1, <1>3, <2>2, <3>2, <3>3, InsideOrder, InsideTransitive
    <3>. QED
      BY <2>1, <2>2, <3>4, InsideOrder
  <2>. QED
    BY <1>2, <1>9, <2>4, <2>5
<1>13. /\ Allocated(b, size) \in Spine(b, size)
       /\ Allocated(b, size) # NoBlock
       /\ live'[r] = Allocated(b, size)
  <2>1. size \in Nat /\ size > 0
    BY SizesAssumption
  <2>2. Allocated(b, size) \in Spine(b, size)
    BY <1>1, <2>1, SplitNodes DEF Allocated
  <2>3. Allocated(b, size) # NoBlock
    BY <2>1 DEF Allocated, NoBlock
  <2>. QED
    BY <2>2, <2>3 DEF TypeOK
<1>14. ASSUME NEW q \in Regions, q # r, live[q] # NoBlock
       PROVE  /\ live'[q] = live[q]
              /\ live[q] \in tree /\ live[q] \in Block
              /\ InUse(live[q]) /\ Leaf(live[q])
              /\ live[q] \notin New
              /\ live[q] \notin Above(b)
              /\ Disjoint(live[q], b)
  <2>1. live'[q] = live[q]
    BY <1>14 DEF TypeOK
  <2>2. live[q] \in tree /\ InUse(live[q]) /\ Leaf(live[q])
    BY <1>14 DEF LiveBlockIsLeaf
  <2>3. live[q] \in Block
    BY <2>2 DEF TypeOK
  <2>4. live[q] # b /\ live[q] \notin Above(b)
    BY <1>1, <2>2 DEF Above, Leaf, Below
  <2>. QED
    BY <1>4, <1>5, <2>1, <2>2, <2>3, <2>4
<1>15. LiveBlockIsLeaf'
  <2>1. SUFFICES ASSUME NEW q \in Regions, live'[q] # NoBlock
                 PROVE  /\ live'[q] \in tree'
                        /\ count'[live'[q]] > 0
                        /\ \A d \in tree' : Inside(d, live'[q]) => d = live'[q]
    BY DEF LiveBlockIsLeaf, InUse, Leaf, Below
  <2>2. CASE q = r
    <3> DEFINE x == Allocated(b, size)
    <3>1. x \in New /\ x \in Block /\ count'[x] = 1 /\ x.size = size
      BY <1>3, <1>8, <1>13 DEF Allocated
    <3>2. ASSUME NEW d \in tree', Inside(d, x) PROVE d = x
      <4>1. d \in Block /\ Inside(d, b)
        BY <1>1, <1>3, <1>10, <3>1, <3>2, InsideTransitive DEF TypeOK
      <4>2. d \in New
        <5>1. CASE d \in tree
          BY <1>1, <1>9, <4>1, <5>1 DEF Leaf, Below
        <5>. QED
          BY <1>2, <5>1
      <4>3. size <= d.size
        <5>1. CASE d \in Spine(b, size)
          BY <1>1, <5>1, SplitNodes
        <5>2. CASE d \in Halves(b, size)
          BY <1>1, <5>2, SplitNodes
        <5>. QED
          BY <4>2, <5>1, <5>2
      <4>4. /\ d.off \in Nat /\ d.size \in Nat
            /\ x.off \in Nat /\ x.size \in Nat
        BY <3>1, <4>1, BlockFields
      <4>5. d.off = x.off /\ d.size = x.size
        BY <3>1, <3>2, <4>3, <4>4 DEF Inside
      <4>. QED
        BY <3>1, <4>1, <4>5, BlockEquality
    <3>. QED
      BY <1>2, <1>13, <2>2, <3>1, <3>2
  <2>3. CASE q # r
    <3>1. live[q] # NoBlock
      BY <2>1, <2>3 DEF TypeOK
    <3>2. count'[live[q]] > 0
      BY <1>8, <1>14, <2>3, <3>1 DEF InUse
    <3>3. ASSUME NEW d \in tree', Inside(d, live[q]) PROVE d = live[q]
      <4>1. CASE d \in tree
        BY <1>14, <2>3, <3>1, <3>3, <4>1 DEF Leaf, Below
      <4>2. CASE d \in New
        <5>1. Disjoint(d, live[q])
          BY <1>1, <1>3, <1>14, <2>3, <3>1, <4>2, InsideOrder, InsideTransitive
        <5>. QED
          BY <1>3, <1>14, <2>3, <3>1, <3>3, <4>2, <5>1, InsideOrder
      <4>. QED
        BY <1>2, <4>1, <4>2
    <3>. QED
      BY <1>2, <1>14, <2>3, <3>1, <3>2, <3>3
  <2>. QED
    BY <2>2, <2>3
<1>16. ShareCountExact'
  <2>1. \A q \in Regions : q # r /\ live[q] # NoBlock => live[q] # Allocated(b, size)
    BY <1>13, <1>14
  <2>2. SUFFICES ASSUME NEW q \in Regions, live'[q] # NoBlock
                 PROVE  count'[live'[q]] =
                          Cardinality({p \in Regions : live'[p] = live'[q]})
    BY DEF ShareCountExact
  <2>3. CASE q = r
    <3>1. {p \in Regions : live'[p] = live'[q]} = {r}
      BY <1>13, <2>1, <2>3 DEF TypeOK
    <3>2. count'[live'[q]] = 1
      BY <1>8, <1>13, <2>3
    <3>. QED
      BY <3>1, <3>2, FS_Singleton
  <2>4. CASE q # r
    <3>1. live[q] # NoBlock /\ live'[q] = live[q]
      BY <2>2, <2>4 DEF TypeOK
    <3>2. {p \in Regions : live'[p] = live'[q]} = {p \in Regions : live[p] = live[q]}
      BY <1>13, <2>1, <2>4, <3>1 DEF TypeOK
    <3>3. count'[live[q]] = count[live[q]]
      BY <1>8, <1>14, <2>4, <3>1
    <3>. QED
      BY <3>1, <3>2, <3>3 DEF ShareCountExact
  <2>. QED
    BY <2>3, <2>4
<1>17. ASSUME NEW q \in Regions, live[q] # NoBlock
       PROVE  Disjoint(live'[r], live[q])
  <2>1. q # r
    BY <1>17
  <2>2. Allocated(b, size) \in Block /\ Inside(Allocated(b, size), b)
    BY <1>3, <1>13
  <2>. QED
    BY <1>1, <1>13, <1>14, <1>17, <2>1, <2>2, InsideOrder, InsideTransitive
<1>. QED
  BY <1>10, <1>11, <1>12, <1>13, <1>15, <1>16, <1>17

-----------------------------------------------------------------------------
(* FindNode.                                                               *)

(* The children of a node lie in it, are smaller and of the same size.     *)
LEMMA ChildInside ==
    ASSUME NEW n \in Block, NEW c \in Children(n)
    PROVE  /\ Inside(c, n)
           /\ c # n
           /\ c.size < n.size
           /\ \A e \in Children(n) : e.size = c.size
<1>1. n.off \in Nat /\ n.size \in Nat /\ n.size > 0
  BY BlockFields
<1> DEFINE h == n.size \div 2
<1>2. h \in Nat /\ 2 * h <= n.size /\ h < n.size
  BY <1>1
<1>3. \A e \in Children(n) : e.size = h /\ (e.off = n.off \/ e.off = n.off + h)
  BY DEF Children, Left, Right
<1> HIDE DEF h
<1>. QED
  BY <1>1, <1>2, <1>3 DEF Inside

(* FindNode reaches the block of a region from its offset.                 *)
LEMMA FindNodeFinds ==
    ASSUME IInv, NEW r \in Regions, live[r] # NoBlock
    PROVE  FindNode(live[r].off) = live[r]
<1> DEFINE x == live[r]
<1>1. x \in tree /\ x \in Block /\ InUse(x) /\ Leaf(x)
  BY DEF IInv, LiveBlockIsLeaf, TypeOK
<1>2. x \in Stops(x.off)
  <2>1. Children(x) \cap tree = {}
    BY <1>1, ChildInside DEF Leaf, Below
  <2>. QED
    BY <1>1, <2>1 DEF Stops
<1>3. ASSUME NEW y \in Stops(x.off) PROVE y = x
  <2>1. y \in tree /\ y \in Block /\ y.off = x.off
    BY DEF Stops, IInv, TypeOK
  <2>2. ~Disjoint(x, y)
    BY <1>1, <2>1, BlockFields DEF Disjoint
  <2>3. CASE Inside(y, x)
    BY <1>1, <2>1, <2>3 DEF Leaf, Below
  <2>4. CASE Nested(x, y, tree)
    <3>1. PICK c \in Children(y) : c \in tree /\ Inside(x, c)
      BY <2>4 DEF Nested
    <3>2. ~InUse(c)
      BY <3>1 DEF Stops
    <3>3. Leaf(c)
      BY <3>1, <3>2 DEF IInv, FreeNodeIsLeaf
    <3>4. x = c
      BY <1>1, <3>1, <3>3 DEF Leaf, Below
    <3>. QED
      BY <1>1, <3>2, <3>4
  <2>. QED
    BY <1>1, <2>1, <2>2, <2>3, <2>4 DEF IInv, TreeShape, Nested
<1>4. Stops(x.off) = {x} /\ x.size <= x.size
  BY <1>1, <1>2, <1>3, BlockFields
<1> HIDE DEF x
<1>5. FindNode(x.off) = x
  BY <1>4 DEF FindNode
<1>. QED
  BY <1>5 DEF x

-----------------------------------------------------------------------------
(* FindAndIncNode preserves the invariant.                                 *)

LEMMA IncStep ==
    ASSUME IInv, NEW r \in Regions, NEW q \in Regions, FindAndIncNode(r, q)
    PROVE  IInv'
<1> DEFINE n == live[q]
<1>1. /\ live[r] = NoBlock /\ n # NoBlock
      /\ count' = [count EXCEPT ![n] = @ + 1]
      /\ live' = [live EXCEPT ![r] = n]
  BY FindNodeFinds DEF FindAndIncNode
<1>2. n \in tree /\ n \in Block /\ count[n] \in Nat /\ count[n] > 0
  BY <1>1 DEF IInv, LiveBlockIsLeaf, InUse, TypeOK
<1>3. /\ tree' = tree
      /\ \A m \in tree : count'[m] = IF m = n THEN count[m] + 1 ELSE count[m]
  BY <1>1, <1>2 DEF IInv, TypeOK, tree
<1>4. /\ live' \in [Regions -> Block \cup {NoBlock}]
      /\ live'[r] = n
      /\ \A p \in Regions \ {r} : live'[p] = live[p]
  BY <1>1, <1>2 DEF IInv, TypeOK
<1> HIDE DEF n
<1>5. TypeOK'
  <2>1. \A m \in tree : count'[m] \in Nat
    BY <1>2, <1>3 DEF IInv, TypeOK
  <2>2. count' \in [tree' -> Nat]
    BY <1>1, <1>3, <2>1 DEF IInv, TypeOK
  <2>. QED
    BY <1>3, <1>4, <2>2 DEF IInv, TypeOK
<1>6. TreeShape'
  BY <1>3 DEF IInv, TreeShape
<1>7. \A m \in tree : InUse(m)' <=> InUse(m)
  BY <1>2, <1>3 DEF InUse
<1>8. \A m \in tree : Below(m)' = Below(m)
  BY <1>3 DEF Below
<1>9. FreeNodeIsLeaf'
  BY <1>3, <1>7, <1>8 DEF IInv, FreeNodeIsLeaf, Leaf
<1>10. LiveBlockIsLeaf'
  <2>1. ASSUME NEW p \in Regions, live'[p] # NoBlock
        PROVE  \E o \in Regions : live[o] = live'[p] /\ live[o] # NoBlock
    BY <1>1, <1>4, <2>1 DEF n
  <2>2. ASSUME NEW p \in Regions, live'[p] # NoBlock
        PROVE  live'[p] \in tree /\ InUse(live'[p]) /\ Below(live'[p]) = {}
    BY <2>1, <2>2 DEF IInv, LiveBlockIsLeaf, Leaf
  <2>3. ASSUME NEW p \in Regions, live'[p] # NoBlock
        PROVE  /\ live'[p] \in tree'
               /\ count'[live'[p]] > 0
               /\ \A d \in tree' : d # live'[p] => ~Inside(d, live'[p])
    BY <1>3, <1>7, <2>2, <2>3 DEF InUse, Below
  <2>. QED
    BY <2>3 DEF LiveBlockIsLeaf, InUse, Leaf, Below
<1>11. ShareCountExact'
  <2>1. SUFFICES ASSUME NEW p \in Regions, live'[p] # NoBlock
                 PROVE  count'[live'[p]] =
                          Cardinality({o \in Regions : live'[o] = live'[p]})
    BY DEF ShareCountExact
  <2> DEFINE S == {o \in Regions : live[o] = live'[p]}
  <2>2. IsFiniteSet(S)
    BY RegionsAssumption, FS_Subset
  <2>3. live'[p] \in tree /\ count[live'[p]] = Cardinality(S)
    BY <1>1, <1>4, <2>1 DEF IInv, LiveBlockIsLeaf, ShareCountExact, n
  <2>4. CASE live'[p] = n
    <3>1. {o \in Regions : live'[o] = live'[p]} = S \cup {r} /\ r \notin S
      BY <1>1, <1>4, <2>1, <2>4
    <3>2. Cardinality(S \cup {r}) = Cardinality(S) + 1
      BY <2>2, <3>1, FS_AddElement
    <3>. QED
      BY <1>3, <2>3, <2>4, <3>1, <3>2
  <2>5. CASE live'[p] # n
    <3>1. {o \in Regions : live'[o] = live'[p]} = S
      BY <1>1, <1>4, <2>1, <2>5
    <3>. QED
      BY <1>3, <2>3, <2>5, <3>1
  <2>. QED
    BY <2>4, <2>5
<1>. QED
  BY <1>5, <1>6, <1>9, <1>10, <1>11 DEF IInv

-----------------------------------------------------------------------------
(* FreeNode preserves the invariant.                                       *)

LEMMA FreeStep ==
    ASSUME IInv, NEW r \in Regions, FreeNode(r)
    PROVE  IInv'
<1> DEFINE n == live[r]
<1>1. /\ n # NoBlock
      /\ count' = CountAfterFree(n)
      /\ live' = [live EXCEPT ![r] = NoBlock]
  BY FindNodeFinds DEF FreeNode
<1>2. n \in tree /\ n \in Block /\ InUse(n) /\ Leaf(n)
  BY <1>1 DEF IInv, LiveBlockIsLeaf, TypeOK
<1>3. \A m \in tree : m \in Block /\ count[m] \in Nat
  BY DEF IInv, TypeOK
<1>4. tree' = tree \ UNION {Below(a) : a \in Merged(n)}
  BY <1>1 DEF CountAfterFree, TreeAfterFree, tree
<1>5. \A m \in tree' : /\ m \in tree
                       /\ count'[m] = IF (m = n \/ m \in Coalesced(n)) /\ count[m] > 0
                                      THEN count[m] - 1 ELSE count[m]
  BY <1>1, <1>4 DEF CountAfterFree, TreeAfterFree
<1>6. /\ live' \in [Regions -> Block \cup {NoBlock}]
      /\ live'[r] = NoBlock
      /\ \A q \in Regions \ {r} : live'[q] = live[q]
  BY DEF IInv, TypeOK, FreeNode
<1>7. /\ Merged(n) \subseteq tree
      /\ \A a \in Coalesced(n) : a \in Merged(n) /\ n \in Below(a)
  BY <1>2 DEF Merged, Coalesced, Above, Below
<1> HIDE DEF n
(* A block of another region is not below a merged node.                   *)
<1>8. ASSUME NEW q \in Regions, live[q] # NoBlock, live[q] # n
      PROVE  live[q] \in tree' /\ live[q] \notin Coalesced(n)
  <2> DEFINE x == live[q]
  <2>1. x \in tree /\ count[x] > 0 /\ Leaf(x)
    BY <1>8 DEF IInv, LiveBlockIsLeaf, InUse
  <2>2. ~Inside(n, x)
    BY <1>2, <1>8, <2>1 DEF Leaf, Below
  <2>3. ASSUME NEW a \in Coalesced(n) PROVE x \notin Below(a)
    BY <1>3, <2>1, <2>2, <2>3 DEF Coalesced
  <2>4. x \notin Below(n)
    BY <1>2 DEF Leaf
  <2>5. ASSUME NEW a \in Merged(n) PROVE x \notin Below(a)
    BY <2>3, <2>4, <2>5 DEF Merged
  <2>6. x \notin Coalesced(n)
    BY <1>7, <2>1 DEF Leaf
  <2>. QED
    BY <1>4, <2>1, <2>5, <2>6
(* The freed block stays in the tree while another region shares it.       *)
<1>9. ASSUME NEW q \in Regions \ {r}, live[q] = n
      PROVE  n \in tree' /\ count[n] >= 2
  <2> DEFINE S == {p \in Regions : live[p] = n}
  <2>1. IsFiniteSet(S) /\ IsFiniteSet(S \ {r})
    BY RegionsAssumption, FS_Subset, FS_RemoveElement
  <2>2. count[n] = Cardinality(S)
    BY <1>1 DEF IInv, ShareCountExact, n
  <2>3. r \in S /\ q \in S \ {r}
    BY <1>9 DEF n
  <2>4. Cardinality(S \ {r}) # 0
    BY <2>1, <2>3, FS_EmptySet
  <2>5. Cardinality(S \ {r}) = Cardinality(S) - 1 /\ Cardinality(S \ {r}) \in Nat
    BY <2>1, <2>3, FS_RemoveElement, FS_CardinalityType
  <2>6. count[n] >= 2
    BY <1>2, <1>3, <2>2, <2>4, <2>5
  <2>7. ASSUME NEW a \in Coalesced(n) PROVE FALSE
    <3>1. count[n] <= 1
      BY <1>2, <1>7, <2>7, InsideOrder DEF Coalesced
    <3>. QED
      BY <1>2, <1>3, <2>6, <3>1
  <2>8. Merged(n) = {}
    BY <2>6, <2>7 DEF Merged
  <2>. QED
    BY <1>2, <1>4, <2>6, <2>8
<1>10. TypeOK'
  <2>1. \A m \in tree' : count'[m] \in Nat
    BY <1>3, <1>5
  <2>2. count' \in [tree' -> Nat]
    BY <1>1, <2>1 DEF CountAfterFree, tree
  <2>. QED
    BY <1>5, <1>6, <2>2 DEF IInv, TypeOK
<1>11. TreeShape'
  <2>1. SUFFICES ASSUME NEW m \in tree', NEW k \in tree',
                        ~Disjoint(m, k), ~Inside(k, m)
                 PROVE  Nested(m, k, tree')
    BY DEF TreeShape, Nested
  <2>2. m \in tree /\ k \in tree /\ m \in Block /\ k \in Block
    BY <1>3, <1>5
  <2>3. Nested(m, k, tree)
    BY <2>1, <2>2 DEF IInv, TreeShape, Nested
  <2>4. ASSUME NEW e \in Children(k), NEW d \in Merged(n), e \in Below(d)
        PROVE  FALSE
    <3>1. /\ d \in tree /\ d \in Block /\ e \in tree /\ e \in Block
          /\ Inside(e, d) /\ e # d
      BY <1>3, <1>7, <2>4 DEF Below
    <3>2. Inside(e, k)
      BY <2>2, <2>4, ChildInside
    <3>3. CASE Disjoint(d, k)
      <4>1. Disjoint(e, k)
        BY <2>2, <3>1, <3>3, InsideTransitive
      <4>. QED
        BY <2>2, <3>1, <3>2, <4>1, InsideOrder
    <3>4. CASE Inside(k, d)
      <4>1. Inside(m, d)
        BY <2>2, <2>3, <3>1, <3>4, InsideTransitive DEF Nested
      <4>2. m = d
        BY <1>4, <2>2, <2>4, <4>1 DEF Below
      <4>. QED
        BY <2>1, <3>4, <4>2
    <3>5. CASE Nested(d, k, tree)
      <4>1. PICK c \in Children(k) : c \in tree /\ Inside(d, c)
        BY <3>5 DEF Nested
      <4>2. c \in Block /\ c.size = e.size
        BY <1>3, <2>2, <2>4, <4>1, ChildInside
      <4>3. Inside(e, c)
        BY <3>1, <4>1, <4>2, InsideTransitive
      <4>4. e = c
        <5>1. e.off = c.off
          BY <3>1, <4>2, <4>3, BlockFields DEF Inside
        <5>. QED
          BY <3>1, <4>2, <5>1, BlockEquality
      <4>. QED
        BY <3>1, <4>1, <4>4, InsideOrder
    <3>. QED
      BY <2>2, <3>1, <3>3, <3>4, <3>5 DEF IInv, TreeShape, Nested
  <2>5. Children(k) \subseteq tree'
    BY <1>4, <2>3, <2>4 DEF Nested
  <2>. QED
    BY <2>3, <2>5 DEF Nested
<1>12. FreeNodeIsLeaf'
  <2>1. SUFFICES ASSUME NEW m \in tree', count'[m] = 0,
                        NEW d \in tree', Inside(d, m), d # m
                 PROVE  FALSE
    BY <1>10 DEF FreeNodeIsLeaf, InUse, Leaf, Below, TypeOK
  <2>2. m \in tree /\ d \in Below(m)
    BY <1>5, <2>1 DEF Below
  <2>3. m \notin Merged(n)
    BY <1>4, <2>1, <2>2
  <2>4. m # n
    BY <1>2, <2>2 DEF Leaf
  <2>5. count[m] = 0
    BY <1>5, <1>7, <2>1, <2>3, <2>4
  <2>. QED
    BY <2>2, <2>5 DEF IInv, FreeNodeIsLeaf, InUse, Leaf
<1>13. ASSUME NEW q \in Regions, live'[q] # NoBlock
       PROVE  /\ q # r /\ live'[q] = live[q] /\ live[q] # NoBlock
              /\ live[q] \in tree'
              /\ count'[live[q]] = IF live[q] = n THEN count[n] - 1 ELSE count[live[q]]
              /\ count'[live[q]] > 0
              /\ Leaf(live[q])
  <2>1. q # r /\ live'[q] = live[q] /\ live[q] # NoBlock
    BY <1>6, <1>13
  <2>2. count[live[q]] > 0 /\ Leaf(live[q])
    BY <2>1 DEF IInv, LiveBlockIsLeaf, InUse
  <2>3. CASE live[q] = n
    <3>1. n \in tree' /\ count[n] >= 2
      BY <1>9, <2>1, <2>3
    <3>. QED
      BY <1>2, <1>3, <1>5, <2>1, <2>2, <2>3, <3>1
  <2>4. CASE live[q] # n
    BY <1>5, <1>8, <2>1, <2>2, <2>4
  <2>. QED
    BY <2>3, <2>4
<1>14. LiveBlockIsLeaf'
  <2>1. ASSUME NEW q \in Regions, live'[q] # NoBlock
        PROVE  /\ live'[q] \in tree'
               /\ count'[live'[q]] > 0
               /\ \A d \in tree' : d # live'[q] => ~Inside(d, live'[q])
    BY <1>5, <1>13, <2>1 DEF Leaf, Below
  <2>. QED
    BY <2>1 DEF LiveBlockIsLeaf, InUse, Leaf, Below
<1>15. ShareCountExact'
  <2>1. SUFFICES ASSUME NEW q \in Regions, live'[q] # NoBlock
                 PROVE  count'[live'[q]] =
                          Cardinality({p \in Regions : live'[p] = live'[q]})
    BY DEF ShareCountExact
  <2> DEFINE S == {p \in Regions : live[p] = live[q]}
  <2>2. /\ live'[q] = live[q] /\ live[q] # NoBlock
        /\ count'[live[q]] = IF live[q] = n THEN count[n] - 1 ELSE count[live[q]]
    BY <1>13, <2>1
  <2>3. IsFiniteSet(S) /\ count[live[q]] = Cardinality(S)
    BY <2>2, RegionsAssumption, FS_Subset DEF IInv, ShareCountExact
  <2>4. {p \in Regions : live'[p] = live'[q]} = S \ {r}
    BY <1>6, <2>2
  <2>5. r \in S <=> live[q] = n
    BY DEF n
  <2>6. Cardinality(S \ {r}) = IF r \in S THEN Cardinality(S) - 1 ELSE Cardinality(S)
    BY <2>3, FS_RemoveElement
  <2>. QED
    BY <2>2, <2>3, <2>4, <2>5, <2>6
<1>. QED
  BY <1>10, <1>11, <1>12, <1>14, <1>15 DEF IInv

-----------------------------------------------------------------------------
(* The theorems.                                                           *)

(* The invariant holds of the empty allocator.                             *)
LEMMA InitInvariant == Init => IInv
<1> SUFFICES ASSUME Init PROVE IInv
  OBVIOUS
<1>1. BackingSize \in Sizes /\ BackingSize \in Nat
  BY SizesAssumption
<1>2. Root \in Block /\ Root.off + Root.size <= BackingSize
  BY <1>1 DEF Root, Block
<1>3. tree = {Root} /\ count \in [tree -> Nat] /\ count[Root] = 0
  BY DEF Init, tree
<1>4. \A r \in Regions : live[r] = NoBlock
  BY DEF Init
<1>5. TypeOK
  BY <1>2, <1>3 DEF Init, TypeOK
<1>6. TreeShape
  BY <1>2, <1>3, InsideOrder DEF TreeShape
<1>7. FreeNodeIsLeaf
  BY <1>3 DEF FreeNodeIsLeaf, Leaf, Below
<1>. QED
  BY <1>4, <1>5, <1>6, <1>7 DEF IInv, LiveBlockIsLeaf, ShareCountExact

(* An AllocNode that succeeds takes a free node of the search's reach.     *)
LEMMA AllocCases ==
    ASSUME IInv, NEW r \in Regions, NEW request \in Requests, AllocNode(r, request)
    PROVE  \/ UNCHANGED vars
           \/ \E size \in Sizes : \E b \in Reached(size) :
                 /\ live[r] = NoBlock
                 /\ count' = CountAfterAlloc(b, size)
                 /\ live' = [live EXCEPT ![r] = Allocated(b, size)]
<1>1. SizeClass(request) \in Sizes
  BY SizeClassType
<1>2. CASE Reached(SizeClass(request)) = {}
  BY <1>2 DEF AllocNode
<1>3. CASE Reached(SizeClass(request)) # {}
  <2>1. FirstFit(SizeClass(request)) \in Reached(SizeClass(request))
    BY <1>3, FirstFitReached DEF IInv
  <2>. QED
    BY <1>1, <1>3, <2>1 DEF AllocNode
<1>. QED
  BY <1>2, <1>3

(* Every operation keeps the invariant.                                    *)
LEMMA NextInvariant == IInv /\ [Next]_vars => IInv'
<1> SUFFICES ASSUME IInv, [Next]_vars PROVE IInv'
  OBVIOUS
<1>1. CASE UNCHANGED vars
  BY <1>1 DEF vars, IInv, TypeOK, TreeShape, FreeNodeIsLeaf, LiveBlockIsLeaf,
              ShareCountExact, tree, InUse, Leaf, Below
<1>2. ASSUME NEW r \in Regions, NEW request \in Requests, AllocNode(r, request)
      PROVE  IInv'
  BY <1>1, <1>2, AllocCases, AllocStep
<1>3. ASSUME NEW r \in Regions, NEW q \in Regions, FindAndIncNode(r, q)
      PROVE  IInv'
  BY <1>3, IncStep
<1>4. ASSUME NEW r \in Regions, FreeNode(r)
      PROVE  IInv'
  BY <1>4, FreeStep
<1>. QED
  BY <1>1, <1>2, <1>3, <1>4 DEF Next

(* Under the invariant live blocks are disjoint, and an offset names a     *)
(* block.                                                                  *)
LEMMA InvariantImplies ==
    IInv => LiveBlocksDisjoint /\ OffsetNamesBlock
<1> SUFFICES ASSUME IInv PROVE LiveBlocksDisjoint /\ OffsetNamesBlock
  OBVIOUS
<1>1. OffsetNamesBlock
  BY FindNodeFinds DEF OffsetNamesBlock
<1>2. ASSUME NEW r \in Regions, NEW q \in Regions,
             live[r] # NoBlock, live[q] # NoBlock, live[r] # live[q]
      PROVE  Disjoint(live[r], live[q])
  <2>1. /\ live[r] \in tree /\ Leaf(live[r])
        /\ live[q] \in tree /\ Leaf(live[q])
    BY <1>2 DEF IInv, LiveBlockIsLeaf
  <2>2. ~Inside(live[r], live[q]) /\ ~Inside(live[q], live[r])
    BY <1>2, <2>1 DEF Leaf, Below
  <2>. QED
    BY <2>1, <2>2 DEF IInv, TreeShape
<1>. QED
  BY <1>1, <1>2 DEF LiveBlocksDisjoint

(* The state of the allocator has its type, for every backing size and     *)
(* every number of regions: no node outside the backing memory is ever     *)
(* made and no use count goes below 0.                                     *)
THEOREM TypeCorrectness == Spec => []TypeOK
<1>1. IInv => TypeOK
  BY DEF IInv
<1>. QED
  BY <1>1, InitInvariant, NextInvariant, PTL DEF Spec

(* AllocNode never hands out memory a region still uses.                   *)
THEOREM RegionsNeverOverlap == Spec => []LiveBlocksDisjoint
BY InitInvariant, NextInvariant, InvariantImplies, PTL DEF Spec

(* FreeNode and FindAndIncNode find the caller's block and no other, so    *)
(* their asserts hold.                                                     *)
THEOREM FindNodeIsExact == Spec => []OffsetNamesBlock
BY InitInvariant, NextInvariant, InvariantImplies, PTL DEF Spec

(* A shared block is released by the last of its regions.                  *)
THEOREM SharingIsCounted == Spec => []ShareCountExact
<1>1. IInv => ShareCountExact
  BY DEF IInv
<1>. QED
  BY <1>1, InitInvariant, NextInvariant, PTL DEF Spec

(* Split() never divides a node that has children, and the nodes nest.     *)
THEOREM TreeIsWellFormed == Spec => []TreeWellFormed
<1>1. IInv => TreeWellFormed
  BY DEF IInv, TreeWellFormed
<1>. QED
  BY <1>1, InitInvariant, NextInvariant, PTL DEF Spec

-----------------------------------------------------------------------------
(* The allocator implements RegionSpace.                                   *)

LEMMA StepRefines == IInv /\ [Next]_vars => [Space!Next]_live
<1> SUFFICES ASSUME IInv, [Next]_vars PROVE [Space!Next]_live
  OBVIOUS
<1> USE DEF Space!Nothing, NoBlock
<1>1. CASE UNCHANGED vars
  BY <1>1 DEF vars
<1>2. ASSUME NEW r \in Regions, NEW request \in Requests, AllocNode(r, request)
      PROVE  [Space!Next]_live
  <2>1. SUFFICES ASSUME NEW size \in Sizes, NEW b \in Reached(size),
                        live[r] = NoBlock,
                        count' = CountAfterAlloc(b, size),
                        live' = [live EXCEPT ![r] = Allocated(b, size)]
                 PROVE  Space!Grant(r)
    BY <1>1, <1>2, AllocCases DEF Space!Next
  <2> DEFINE x == Allocated(b, size)
  <2>2. /\ live'[r] = x
        /\ \A q \in Regions : live[q] # NoBlock => Disjoint(x, live[q])
    BY <2>1, AllocStep
  <2>3. x \in Space!Blocks
    <3>1. /\ b \in Block /\ b.off + b.size <= BackingSize /\ size <= b.size
      BY DEF Reached, IInv, TypeOK
    <3>2. /\ b.off \in Nat /\ b.size \in Nat
          /\ size \in Nat /\ BackingSize \in Nat
      BY <3>1, BlockFields, SizesAssumption
    <3>3. b.off \in 0 .. BackingSize /\ b.off + size <= BackingSize
      BY <3>1, <3>2
    <3>. QED
      BY <3>3 DEF Space!Blocks, Allocated
  <2>4. \A q \in Regions : live[q] # NoBlock => Space!Disjoint(x, live[q])
    BY <2>2 DEF Disjoint, Space!Disjoint
  <2>. QED
    BY <2>1, <2>3, <2>4 DEF Space!Grant
<1>3. ASSUME NEW r \in Regions, NEW q \in Regions, FindAndIncNode(r, q)
      PROVE  Space!Share(r, q)
  BY <1>3 DEF FindAndIncNode, Space!Share
<1>4. ASSUME NEW r \in Regions, FreeNode(r)
      PROVE  Space!Release(r)
  BY <1>4 DEF FreeNode, Space!Release
<1>. QED
  BY <1>1, <1>2, <1>3, <1>4 DEF Next, Space!Next

(* Every behaviour of the tree is one of the abstract space: the first-fit *)
(* search, splitting and coalescing are invisible to the regions.          *)
THEOREM AllocatorImplementsSpace == Spec => ImplementsRegionSpace
<1>1. Init => Space!Init
  BY DEF Init, Space!Init, Space!Nothing, NoBlock
<1>. QED
  BY <1>1, InitInvariant, NextInvariant, StepRefines, PTL
     DEF Spec, Space!Spec, ImplementsRegionSpace

-----------------------------------------------------------------------------
(* The walks along the pointers (module BuddyWalk): that they are          *)
(* functions.                                                              *)

(* What the operations on nodes do to a heap.                              *)
LEMMA HeapOperations ==
    ASSUME NEW h \in Heap, NEW n
    PROVE  /\ Delete(n, h) \in Heap /\ Split(n, h) \in Heap
           /\ SetInUse(n, h) \in Heap /\ SetFree(n, h) \in Heap
<1>1. Delete(n, h) \in Heap
  BY DEF Delete, Heap
<1>2. Split(n, h) \in Heap
  BY <1>1 DEF Split, Heap
<1>3. SetInUse(n, h) \in Heap
  <2>1. \A m \in Nodes : SetInUse(n, h)[m] \in Nat \cup {-1}
    BY DEF SetInUse, Heap, nullptr
  <2>. QED
    BY <2>1 DEF SetInUse, Heap, nullptr
<1>4. SetFree(n, h) \in Heap
  <2>1. \A m \in Nodes : SetFree(n, h)[m] \in Nat \cup {-1}
    BY DEF SetFree, Heap, nullptr
  <2>. QED
    BY <2>1 DEF SetFree, Heap, nullptr
<1>. QED
  BY <1>1, <1>2, <1>3, <1>4

(* A node is a block of the backing memory, with children at pointers.     *)
LEMMA NodeFields ==
    ASSUME NEW n \in Nodes
    PROVE  /\ n \in Block /\ n \in Pointers
           /\ n.off \in Nat /\ n.size \in Sizes /\ n.size \in 1 .. BackingSize
           /\ BackingSize \in Nat
           /\ Left(n) \in Pointers /\ Right(n) \in Pointers
           /\ Left(n).size < n.size /\ Right(n).size < n.size
<1>1. n.off \in 0 .. BackingSize - 1 /\ n.size \in Sizes /\ n = [off |-> n.off, size |-> n.size]
  BY DEF Nodes
<1>2. BackingSize \in Nat /\ n.size \in Nat /\ n.size > 0 /\ n.size <= BackingSize
  BY <1>1, SizesAssumption
<1>3. n.off \in Nat
  BY <1>1, <1>2
<1>4. n.size \div 2 \in Nat /\ n.size \div 2 < n.size
  BY <1>2
<1>. QED
  BY <1>1, <1>2, <1>3, <1>4 DEF Block, Pointers, Left, Right

(* The nodes of the tree are nodes of the heap.                            *)
LEMMA TreeNodes ==
    ASSUME TypeOK, NEW n \in tree
    PROVE  n \in Nodes /\ n \in Block /\ count[n] \in Nat
<1>1. n \in Block /\ n.off + n.size <= BackingSize /\ count[n] \in Nat
  BY DEF TypeOK, tree
<1>2. n.off \in Nat /\ n.size \in Nat /\ n.size > 0 /\ BackingSize \in Nat
  BY <1>1, BlockFields, SizesAssumption
<1>3. n.off \in 0 .. BackingSize - 1
  BY <1>1, <1>2
<1>. QED
  BY <1>1, <1>3 DEF Nodes, Block

(* The equation of Coalesce.                                               *)
CoalesceOver(f, n, h) ==
    IF \E child \in Children(n) : Exists(child, h) /\ h[child] > 0 THEN h
    ELSE IF Parents(n, Merge(n, h)) = {} \/ Merge(n, h)[n] > 0 THEN Merge(n, h)
    ELSE f[<<CHOOSE p \in Parents(n, Merge(n, h)) : TRUE, Merge(n, h)>>]

(* Coalesce goes on with a larger node, so it is a function.               *)
LEMMA CoalesceUnfold ==
    \A n \in Nodes, h \in Heap : Coalesce[<<n, h>>] = CoalesceOver(Coalesce, n, h)
<1> DEFINE A == Nodes \X Heap
           m == [a \in A |-> BackingSize - a[1].size]
           g == [x \in A \X [A -> Heap] |-> CoalesceOver(x[2], x[1][1], x[1][2])]
<1>1. \A n \in Nodes, h \in Heap : m[<<n, h>>] = BackingSize - n.size
  OBVIOUS
<1>2. m \in [A -> Nat]
  BY NodeFields
<1>3. \A n \in Nodes, h \in Heap, f \in [A -> Heap] :
        g[<<<<n, h>>, f>>] = CoalesceOver(f, n, h)
  OBVIOUS
<1>4. ASSUME NEW n \in Nodes, NEW h \in Heap,
             ~ (Parents(n, Merge(n, h)) = {} \/ Merge(n, h)[n] > 0)
      PROVE  /\ Merge(n, h) \in Heap
             /\ <<CHOOSE p \in Parents(n, Merge(n, h)) : TRUE, Merge(n, h)>> \in A
             /\ m[<<CHOOSE p \in Parents(n, Merge(n, h)) : TRUE, Merge(n, h)>>] < m[<<n, h>>]
  <2>1. Merge(n, h) \in Heap
    BY HeapOperations DEF Merge
  <2>2. PICK p \in Parents(n, Merge(n, h)) : p = CHOOSE q \in Parents(n, Merge(n, h)) : TRUE
    BY <1>4
  <2>3. p \in Nodes /\ n.size < p.size
    BY <2>2, NodeFields, ChildInside DEF Parents
  <2>4. m[<<p, Merge(n, h)>>] < m[<<n, h>>]
    <3> HIDE DEF m
    <3>. QED
      BY <1>1, <2>1, <2>3, NodeFields
  <2>5. <<p, Merge(n, h)>> \in A
    BY <2>1, <2>3
  <2> HIDE DEF A, m
  <2>. QED
    BY <2>1, <2>2, <2>4, <2>5
<1>5. g \in [A \X [A -> Heap] -> Heap]
  <2>1. ASSUME NEW n \in Nodes, NEW h \in Heap, NEW f \in [A -> Heap]
        PROVE  CoalesceOver(f, n, h) \in Heap
    <3>1. Merge(n, h) \in Heap
      BY HeapOperations DEF Merge
    <3> HIDE DEF A, m
    <3>. QED
      BY <1>4, <3>1 DEF CoalesceOver
  <2>. QED
    BY <2>1
<1>6. ASSUME NEW n \in Nodes, NEW h \in Heap, NEW f1 \in [A -> Heap], NEW f2 \in [A -> Heap],
             \A b \in A : m[b] < m[<<n, h>>] => f1[b] = f2[b]
      PROVE  CoalesceOver(f1, n, h) = CoalesceOver(f2, n, h)
  <2> HIDE DEF A, m
  <2>. QED
    BY <1>4, <1>6 DEF CoalesceOver
<1>7. \A a \in A : \A f1, f2 \in [A -> Heap] :
        (\A b \in A : m[b] < m[a] => f1[b] = f2[b]) => g[<<a, f1>>] = g[<<a, f2>>]
  <2> TAKE a \in A
  <2>1. PICK n \in Nodes, h \in Heap : a = <<n, h>>
    OBVIOUS
  <2> HIDE DEF A, m, g
  <2>. QED
    BY <1>3, <1>6, <2>1
<1>8. [x \in Nodes |-> 0] \in Heap
  BY DEF Heap
<1>9. \E f \in [A -> Heap] : \A a \in A : f[a] = g[<<a, f>>]
  <2> HIDE DEF A, m, g
  <2>1. Determined(A, Heap, m, g)
    BY <1>2, <1>5, <1>7, <1>8 DEF Determined
  <2>. QED
    BY <2>1, MeasuredRecursion
<1>10. PICK f \in [A -> Heap] : \A a \in A : f[a] = g[<<a, f>>]
  BY <1>9
<1>11. ASSUME NEW a \in A PROVE f[a] = CoalesceOver(f, a[1], a[2])
  <2>1. a = <<a[1], a[2]>> /\ a[1] \in Nodes /\ a[2] \in Heap
    OBVIOUS
  <2>2. g[<<<<a[1], a[2]>>, f>>] = CoalesceOver(f, a[1], a[2])
    <3> HIDE DEF g
    <3>. QED
      BY <1>3, <1>10, <2>1
  <2> HIDE DEF A, g
  <2>. QED
    BY <1>10, <2>1, <2>2
<1>12. f = [a \in A |-> CoalesceOver(f, a[1], a[2])]
  BY <1>10, <1>11
<1>13. Coalesce = CHOOSE c : c = [a \in Nodes \X Heap |-> CoalesceOver(c, a[1], a[2])]
  BY DEF Coalesce, CoalesceOver
<1>14. Coalesce = [a \in Nodes \X Heap |-> CoalesceOver(Coalesce, a[1], a[2])]
  BY <1>12, <1>13
<1>. QED
  BY <1>14

(* The equation of FindAndAllocFreeNode.                                   *)
Both(f, size, n, start) ==
    LET left  == f[<<size, Left(n), start>>]
        right == f[<<size, Right(n), left.heap>>]
        found == IF left.block # NoBlock THEN left ELSE right
    IN IF found.block = NoBlock THEN found
       ELSE [block |-> found.block, heap |-> SetInUse(n, found.heap)]

AllocOver(f, size, n, h) ==
    IF ~Exists(n, h) \/ n.size < size THEN [block |-> NoBlock, heap |-> h]
    ELSE IF h[n] = 0 /\ n.size = size
         THEN [block |-> n, heap |-> SetInUse(n, h)]
    ELSE Both(f, size, n, IF h[n] = 0 THEN Split(n, h) ELSE h)

(* The search goes on with smaller nodes, so it is a function.             *)
LEMMA AllocUnfold ==
    \A size \in Sizes, n \in Pointers, h \in Heap :
        FindAndAllocFreeNode[<<size, n, h>>] = AllocOver(FindAndAllocFreeNode, size, n, h)
<1> DEFINE A == Sizes \X Pointers \X Heap
           S == [block : Pointers, heap : Heap]
           m == [a \in A |-> a[2].size]
           g == [x \in A \X [A -> S] |-> AllocOver(x[2], x[1][1], x[1][2], x[1][3])]
<1>1. \A size \in Sizes, n \in Pointers, h \in Heap : m[<<size, n, h>>] = n.size
  OBVIOUS
<1>2. m \in [A -> Nat]
  BY DEF Pointers
<1>3. \A size \in Sizes, n \in Pointers, h \in Heap, f \in [A -> S] :
        g[<<<<size, n, h>>, f>>] = AllocOver(f, size, n, h)
  OBVIOUS
<1>4. ASSUME NEW size \in Sizes, NEW n \in Nodes, NEW start \in Heap, NEW h \in Heap
      PROVE  /\ <<size, Left(n), start>> \in A /\ <<size, Right(n), start>> \in A
             /\ m[<<size, Left(n), start>>] < m[<<size, n, h>>]
             /\ m[<<size, Right(n), start>>] < m[<<size, n, h>>]
  <2>1. /\ n \in Pointers /\ Left(n) \in Pointers /\ Right(n) \in Pointers
        /\ Left(n).size < n.size /\ Right(n).size < n.size
    BY NodeFields
  <2>2. <<size, Left(n), start>> \in A /\ <<size, Right(n), start>> \in A
    BY <2>1
  <2> HIDE DEF A, m
  <2>. QED
    BY <1>1, <2>1, <2>2
<1>5. NoBlock \in Pointers
  BY DEF NoBlock, Pointers
<1>6. ASSUME NEW size \in Sizes, NEW n \in Nodes, NEW start \in Heap, NEW f \in [A -> S]
      PROVE  Both(f, size, n, start) \in S
  <2>1. f[<<size, Left(n), start>>] \in S
    BY <1>4
  <2>2. f[<<size, Right(n), f[<<size, Left(n), start>>].heap>>] \in S
    BY <1>4, <2>1
  <2>. QED
    BY <2>1, <2>2, HeapOperations DEF Both
<1>7. ASSUME NEW size \in Sizes, NEW n \in Nodes, NEW start \in Heap, NEW h \in Heap,
             NEW f1 \in [A -> S], NEW f2 \in [A -> S],
             \A b \in A : m[b] < m[<<size, n, h>>] => f1[b] = f2[b]
      PROVE  Both(f1, size, n, start) = Both(f2, size, n, start)
  <2>1. f1[<<size, Left(n), start>>] = f2[<<size, Left(n), start>>]
    <3> HIDE DEF A, m
    <3>. QED
      BY <1>4, <1>7
  <2>2. f1[<<size, Left(n), start>>].heap \in Heap
    BY <1>4
  <2>3. f1[<<size, Right(n), f1[<<size, Left(n), start>>].heap>>]
          = f2[<<size, Right(n), f1[<<size, Left(n), start>>].heap>>]
    <3> HIDE DEF A, m
    <3>. QED
      BY <1>4, <1>7, <2>2
  <2>. QED
    BY <2>1, <2>3 DEF Both
<1>8. ASSUME NEW size \in Sizes, NEW n \in Pointers, NEW h \in Heap
      PROVE  /\ \A f \in [A -> S] : AllocOver(f, size, n, h) \in S
             /\ \A f1, f2 \in [A -> S] :
                  (\A b \in A : m[b] < m[<<size, n, h>>] => f1[b] = f2[b])
                    => AllocOver(f1, size, n, h) = AllocOver(f2, size, n, h)
  <2>1. CASE ~Exists(n, h) \/ n.size < size
    BY <1>5, <2>1 DEF AllocOver
  <2>2. CASE Exists(n, h) /\ ~ (n.size < size)
    <3>1. n \in Nodes
      BY <2>2 DEF Exists
    <3> DEFINE start == IF h[n] = 0 THEN Split(n, h) ELSE h
    <3>2. start \in Heap
      BY HeapOperations
    <3>3. SetInUse(n, h) \in Heap
      BY HeapOperations
    <3>4. \A f : AllocOver(f, size, n, h) =
                   IF h[n] = 0 /\ n.size = size THEN [block |-> n, heap |-> SetInUse(n, h)]
                   ELSE Both(f, size, n, start)
      BY <2>2 DEF AllocOver
    <3>5. [block |-> n, heap |-> SetInUse(n, h)] \in S
      BY <3>3
    <3> HIDE DEF A, S, m, start
    <3>. QED
      BY <1>6, <1>7, <3>1, <3>2, <3>4, <3>5
  <2>. QED
    BY <2>1, <2>2
<1>9. g \in [A \X [A -> S] -> S]
  <2> HIDE DEF S, m
  <2>. QED
    BY <1>8
<1>10. \A a \in A : \A f1, f2 \in [A -> S] :
        (\A b \in A : m[b] < m[a] => f1[b] = f2[b]) => g[<<a, f1>>] = g[<<a, f2>>]
  <2> TAKE a \in A
  <2>1. PICK size \in Sizes, n \in Pointers, h \in Heap : a = <<size, n, h>>
    OBVIOUS
  <2> HIDE DEF A, S, m, g
  <2>. QED
    BY <1>3, <1>8, <2>1
<1>11. S # {}
  <2>1. [x \in Nodes |-> 0] \in Heap
    BY DEF Heap
  <2>2. [block |-> NoBlock, heap |-> [x \in Nodes |-> 0]] \in S
    BY <1>5, <2>1
  <2>. QED
    BY <2>2
<1>12. \E f \in [A -> S] : \A a \in A : f[a] = g[<<a, f>>]
  <2> HIDE DEF A, S, m, g
  <2>1. Determined(A, S, m, g)
    BY <1>2, <1>9, <1>10, <1>11 DEF Determined
  <2>. QED
    BY <2>1, MeasuredRecursion
<1>13. PICK f \in [A -> S] : \A a \in A : f[a] = g[<<a, f>>]
  BY <1>12
<1>14. ASSUME NEW a \in A PROVE f[a] = AllocOver(f, a[1], a[2], a[3])
  <2>1. a = <<a[1], a[2], a[3]>> /\ a[1] \in Sizes /\ a[2] \in Pointers /\ a[3] \in Heap
    OBVIOUS
  <2>2. g[<<<<a[1], a[2], a[3]>>, f>>] = AllocOver(f, a[1], a[2], a[3])
    <3> HIDE DEF g
    <3>. QED
      BY <1>3, <1>13, <2>1
  <2> HIDE DEF A, g
  <2>. QED
    BY <1>13, <2>1, <2>2
<1>15. f = [a \in A |-> AllocOver(f, a[1], a[2], a[3])]
  BY <1>13, <1>14
<1>16. FindAndAllocFreeNode =
         CHOOSE c : c = [a \in Sizes \X Pointers \X Heap |-> AllocOver(c, a[1], a[2], a[3])]
  BY DEF FindAndAllocFreeNode, AllocOver, Both
<1>17. FindAndAllocFreeNode =
         [a \in Sizes \X Pointers \X Heap |-> AllocOver(FindAndAllocFreeNode, a[1], a[2], a[3])]
  BY <1>15, <1>16
<1>. QED
  BY <1>17

(* The equation of FindNode.                                               *)
FindOver(f, offset, n) ==
    IF n \notin tree \/ offset > n.off + n.size THEN NoBlock
    ELSE IF /\ offset = n.off
            /\ InUse(n)
            /\ \/ Children(n) \cap tree = {}
               \/ \A c \in Children(n) : c \in tree /\ ~InUse(c)
         THEN n
    ELSE IF offset = n.off \/ offset < n.off + n.size \div 2
         THEN f[<<offset, Left(n)>>]
         ELSE f[<<offset, Right(n)>>]

(* FindNode goes on with smaller nodes, so it is a function.               *)
LEMMA FindUnfold ==
    ASSUME TypeOK
    PROVE  \A offset \in Nat, n \in Pointers :
               WalkFindNode[<<offset, n>>] = FindOver(WalkFindNode, offset, n)
<1> DEFINE A == Nat \X Pointers
           m == [a \in A |-> a[2].size]
           g == [x \in A \X [A -> Pointers] |-> FindOver(x[2], x[1][1], x[1][2])]
<1>1. \A offset \in Nat, n \in Pointers : m[<<offset, n>>] = n.size
  OBVIOUS
<1>2. m \in [A -> Nat]
  BY DEF Pointers
<1>3. \A offset \in Nat, n \in Pointers, f \in [A -> Pointers] :
        g[<<<<offset, n>>, f>>] = FindOver(f, offset, n)
  OBVIOUS
<1>4. ASSUME NEW offset \in Nat, NEW n \in Pointers, n \in tree
      PROVE  /\ <<offset, Left(n)>> \in A /\ <<offset, Right(n)>> \in A
             /\ m[<<offset, Left(n)>>] < m[<<offset, n>>]
             /\ m[<<offset, Right(n)>>] < m[<<offset, n>>]
  <2>1. /\ Left(n) \in Pointers /\ Right(n) \in Pointers
        /\ Left(n).size < n.size /\ Right(n).size < n.size
    BY <1>4, TreeNodes, NodeFields
  <2>2. <<offset, Left(n)>> \in A /\ <<offset, Right(n)>> \in A
    BY <2>1
  <2> HIDE DEF A, m
  <2>. QED
    BY <1>1, <2>1, <2>2
<1>5. NoBlock \in Pointers
  BY DEF NoBlock, Pointers
<1>6. ASSUME NEW offset \in Nat, NEW n \in Pointers
      PROVE  /\ \A f \in [A -> Pointers] : FindOver(f, offset, n) \in Pointers
             /\ \A f1, f2 \in [A -> Pointers] :
                  (\A b \in A : m[b] < m[<<offset, n>>] => f1[b] = f2[b])
                    => FindOver(f1, offset, n) = FindOver(f2, offset, n)
  <2> HIDE DEF A, m
  <2>. QED
    BY <1>4, <1>5 DEF FindOver
<1>7. g \in [A \X [A -> Pointers] -> Pointers]
  <2> HIDE DEF m
  <2>. QED
    BY <1>6
<1>8. \A a \in A : \A f1, f2 \in [A -> Pointers] :
        (\A b \in A : m[b] < m[a] => f1[b] = f2[b]) => g[<<a, f1>>] = g[<<a, f2>>]
  <2> TAKE a \in A
  <2>1. PICK offset \in Nat, n \in Pointers : a = <<offset, n>>
    OBVIOUS
  <2> HIDE DEF A, m, g
  <2>. QED
    BY <1>3, <1>6, <2>1
<1>9. \E f \in [A -> Pointers] : \A a \in A : f[a] = g[<<a, f>>]
  <2> HIDE DEF A, m, g
  <2>1. Determined(A, Pointers, m, g)
    BY <1>2, <1>5, <1>7, <1>8 DEF Determined
  <2>. QED
    BY <2>1, MeasuredRecursion
<1>10. PICK f \in [A -> Pointers] : \A a \in A : f[a] = g[<<a, f>>]
  BY <1>9
<1>11. ASSUME NEW a \in A PROVE f[a] = FindOver(f, a[1], a[2])
  <2>1. a = <<a[1], a[2]>> /\ a[1] \in Nat /\ a[2] \in Pointers
    OBVIOUS
  <2>2. g[<<<<a[1], a[2]>>, f>>] = FindOver(f, a[1], a[2])
    <3> HIDE DEF g
    <3>. QED
      BY <1>3, <1>10, <2>1
  <2> HIDE DEF A, g
  <2>. QED
    BY <1>10, <2>1, <2>2
<1>12. f = [a \in A |-> FindOver(f, a[1], a[2])]
  BY <1>10, <1>11
<1>13. WalkFindNode = CHOOSE c : c = [a \in Nat \X Pointers |-> FindOver(c, a[1], a[2])]
  BY DEF WalkFindNode, FindOver
<1>14. WalkFindNode = [a \in Nat \X Pointers |-> FindOver(WalkFindNode, a[1], a[2])]
  BY <1>12, <1>13
<1>. QED
  BY <1>14

(* Offset and size of the children.                                        *)
LEMMA ChildFields ==
    ASSUME NEW n \in Block
    PROVE  \E half \in Nat :
              /\ half + half <= n.size /\ half < n.size
              /\ Left(n).off = n.off /\ Left(n).size = half
              /\ Right(n).off = n.off + half /\ Right(n).size = half
              /\ half = n.size \div 2
<1>1. n.size \in Nat /\ n.size > 0
  BY BlockFields
<1>2. n.size \div 2 \in Nat /\ (n.size \div 2) + (n.size \div 2) <= n.size /\ n.size \div 2 < n.size
  BY <1>1
<1>. QED
  BY <1>2 DEF Left, Right

(* What lies in a node of the tree is the node or lies in one of its       *)
(* children, and then the node has both.                                   *)
LEMMA BelowInChild ==
    ASSUME TypeOK, TreeShape, NEW n \in tree, NEW m \in tree, Inside(m, n), m # n
    PROVE  Children(n) \subseteq tree /\ (Inside(m, Left(n)) \/ Inside(m, Right(n)))
<1>1. m \in Block /\ n \in Block
  BY TreeNodes
<1>2. ~Disjoint(m, n) /\ ~Inside(n, m)
  BY <1>1, InsideOrder
<1>. QED
  BY <1>2 DEF TreeShape, Children

-----------------------------------------------------------------------------
(* The walk of FindNode.                                                   *)

StopsIn(offset, n) == {m \in Stops(offset) : Inside(m, n)}

(* x is the largest of the nodes inside n where the search may stop.       *)
Finds(offset, n, x) ==
    IF StopsIn(offset, n) = {} THEN x = NoBlock
    ELSE x \in StopsIn(offset, n) /\ \A m \in StopsIn(offset, n) : m.size <= x.size

(* The walk from a node finds the largest inside the node.                 *)
LEMMA WalkFinds ==
    ASSUME TypeOK, TreeShape, NEW offset \in Nat, NEW n \in tree,
           \A c \in Children(n) \cap tree : Finds(offset, c, WalkFindNode[<<offset, c>>])
    PROVE  Finds(offset, n, WalkFindNode[<<offset, n>>])
<1>1. n \in Nodes /\ n \in Block /\ n \in Pointers /\ n.off \in Nat /\ n.size \in Nat
  BY TreeNodes, NodeFields
<1>2. \A m \in StopsIn(offset, n) : m \in tree /\ m \in Block /\ m.off = offset /\ Inside(m, n)
  BY TreeNodes DEF StopsIn, Stops
<1>3. WalkFindNode[<<offset, n>>] = FindOver(WalkFindNode, offset, n)
  BY <1>1, FindUnfold
<1>4. CASE offset > n.off + n.size
  <2>1. WalkFindNode[<<offset, n>>] = NoBlock
    BY <1>3, <1>4 DEF FindOver
  <2>2. ASSUME NEW m \in StopsIn(offset, n) PROVE FALSE
    BY <1>1, <1>2, <1>4, BlockFields DEF Inside
  <2>. QED
    BY <2>1, <2>2 DEF Finds
<1>5. CASE ~(offset > n.off + n.size) /\ n \in Stops(offset)
  <2>1. WalkFindNode[<<offset, n>>] = n
    BY <1>3, <1>5 DEF FindOver, Stops
  <2>2. n \in StopsIn(offset, n)
    BY <1>1, <1>5, InsideOrder DEF StopsIn
  <2>3. ASSUME NEW m \in StopsIn(offset, n) PROVE m.size <= n.size
    BY <1>1, <1>2, BlockFields DEF Inside
  <2>. QED
    BY <2>1, <2>2, <2>3 DEF Finds
<1>6. CASE ~(offset > n.off + n.size) /\ n \notin Stops(offset)
  <2> DEFINE c == IF offset = n.off \/ offset < n.off + n.size \div 2 THEN Left(n) ELSE Right(n)
  <2>1. WalkFindNode[<<offset, n>>] = WalkFindNode[<<offset, c>>]
    BY <1>3, <1>6 DEF FindOver, Stops
  <2>2. c \in Children(n) /\ c \in Pointers
    BY <1>1, NodeFields DEF Children
  <2>3. ASSUME NEW m \in StopsIn(offset, n) PROVE Children(n) \subseteq tree /\ Inside(m, c)
    <3>1. m # n
      BY <1>6 DEF StopsIn
    <3>2. Children(n) \subseteq tree /\ (Inside(m, Left(n)) \/ Inside(m, Right(n)))
      BY <1>2, <3>1, BelowInChild
    <3>3. PICK half \in Nat :
              /\ half + half <= n.size /\ half < n.size
              /\ Left(n).off = n.off /\ Left(n).size = half
              /\ Right(n).off = n.off + half /\ Right(n).size = half
              /\ half = n.size \div 2
      BY <1>1, ChildFields
    <3>4. m.off = offset /\ m.size \in Nat /\ m.size > 0 /\ n.off <= m.off
      BY <1>2, BlockFields DEF Inside
    <3>5. CASE Inside(m, Left(n))
      <4>1. m.off + m.size <= n.off + half
        BY <3>3, <3>5 DEF Inside
      <4>2. offset < n.off + half
        BY <1>1, <3>4, <4>1
      <4>. QED
        BY <3>2, <3>3, <3>5, <4>2
    <3>6. CASE Inside(m, Right(n))
      <4>1. n.off + half <= m.off /\ m.off + m.size <= n.off + half + half
        BY <3>3, <3>6 DEF Inside
      <4>2. half > 0
        BY <1>1, <3>4, <4>1
      <4>3. ~(offset = n.off \/ offset < n.off + half)
        BY <1>1, <3>4, <4>1, <4>2
      <4>. QED
        BY <3>2, <3>3, <3>6, <4>3
    <3>. QED
      BY <3>2, <3>5, <3>6
  <2>4. ASSUME NEW m \in StopsIn(offset, c), c \in tree PROVE m \in StopsIn(offset, n)
    <3>1. m \in Stops(offset) /\ m \in Block /\ Inside(m, c)
      BY TreeNodes DEF StopsIn, Stops
    <3>2. c \in Block /\ Inside(c, n)
      BY <1>1, <2>2, <2>4, TreeNodes, ChildInside
    <3>3. Inside(m, n)
      BY <1>1, <3>1, <3>2, InsideTransitive
    <3>. QED
      BY <3>1, <3>3 DEF StopsIn
  <2> HIDE DEF c
  <2>5. CASE c \in tree
    <3>1. StopsIn(offset, n) = StopsIn(offset, c)
      BY <2>3, <2>4, <2>5 DEF StopsIn
    <3>. QED
      BY <2>1, <2>2, <2>5, <3>1 DEF Finds
  <2>6. CASE c \notin tree
    <3>1. StopsIn(offset, n) = {}
      BY <2>2, <2>3, <2>6
    <3>2. WalkFindNode[<<offset, c>>] = NoBlock
      BY <2>2, <2>6, FindUnfold DEF FindOver
    <3>. QED
      BY <2>1, <3>1, <3>2 DEF Finds
  <2>. QED
    BY <2>5, <2>6
<1>. QED
  BY <1>4, <1>5, <1>6

(* So does the walk from any node.                                         *)
LEMMA WalkFindsAll ==
    ASSUME TypeOK, TreeShape, NEW offset \in Nat
    PROVE  \A n \in tree : Finds(offset, n, WalkFindNode[<<offset, n>>])
<1> DEFINE T == {k \in Nat : \A n \in tree :
                    n.size <= k => Finds(offset, n, WalkFindNode[<<offset, n>>])}
<1>1. \A n \in tree : n \in Block /\ n.size \in Nat /\ n.size > 0
  BY TreeNodes, BlockFields
<1>2. 0 \in T
  BY <1>1
<1>3. ASSUME NEW k \in Nat, k \in T PROVE k + 1 \in T
  <2>1. ASSUME NEW n \in tree, n.size <= k + 1
        PROVE  Finds(offset, n, WalkFindNode[<<offset, n>>])
    <3>1. ASSUME NEW c \in Children(n) \cap tree PROVE c.size <= k
      BY <1>1, <2>1, ChildInside
    <3>2. \A c \in Children(n) \cap tree : Finds(offset, c, WalkFindNode[<<offset, c>>])
      BY <1>3, <3>1
    <3>. QED
      BY <3>2, WalkFinds
  <2>. QED
    BY <2>1
<1>4. \A k \in Nat : k \in T
  <2> HIDE DEF T
  <2>. QED
    BY <1>2, <1>3, SetInduction
<1>5. ASSUME NEW n \in tree PROVE Finds(offset, n, WalkFindNode[<<offset, n>>])
  <2>1. n.size \in T
    BY <1>1, <1>4
  <2>. QED
    BY <1>1, <2>1
<1>. QED
  BY <1>5

(* The pointers lead where FindNode says.                                  *)
LEMMA FindsAgree == IInv /\ Root \in tree => FindAgrees
<1> SUFFICES ASSUME IInv, Root \in tree, NEW offset \in 0 .. BackingSize - 1
             PROVE  WalkFindNode[<<offset, Root>>] = FindNode(offset)
  BY DEF FindAgrees
<1> DEFINE x == WalkFindNode[<<offset, Root>>]
<1>0. offset \in Nat /\ BackingSize \in Nat
  BY SizesAssumption
<1>1. Finds(offset, Root, x)
  BY <1>0, WalkFindsAll DEF IInv
<1>2. \A m \in Stops(offset) : m \in tree /\ m \in Block /\ m.off = offset /\ m.size \in Nat
  BY TreeNodes, BlockFields DEF Stops, IInv
<1>3. ASSUME NEW m \in Stops(offset) PROVE Inside(m, Root)
  <2>1. m.off \in Nat /\ m.off + m.size <= BackingSize
    BY <1>2, BlockFields DEF IInv, TypeOK
  <2>. QED
    BY <1>0, <2>1 DEF Inside, Root
<1>4. StopsIn(offset, Root) = Stops(offset)
  BY <1>3 DEF StopsIn
<1> HIDE DEF x
<1>5. CASE Stops(offset) = {}
  BY <1>1, <1>4, <1>5 DEF Finds, FindNode, x
<1>6. CASE Stops(offset) # {}
  <2>1. x \in Stops(offset) /\ \A m \in Stops(offset) : m.size <= x.size
    BY <1>1, <1>4, <1>6 DEF Finds
  <2>2. ASSUME NEW y \in Stops(offset), \A m \in Stops(offset) : m.size <= y.size PROVE y = x
    <3>1. y.size = x.size
      BY <1>2, <2>1, <2>2
    <3>. QED
      BY <1>2, <2>1, <3>1, BlockEquality
  <2>3. x = CHOOSE y \in Stops(offset) : \A m \in Stops(offset) : m.size <= y.size
    BY <2>1, <2>2
  <2>. QED
    BY <1>6, <2>3 DEF FindNode, x
<1>. QED
  BY <1>5, <1>6

-----------------------------------------------------------------------------
(* The walk of FindAndAllocFreeNode.                                       *)

(* What splitting b down to size leaves of a heap.                         *)
SplitDown(b, size, h) ==
    [m \in Nodes |->
        IF m \in Spine(b, size) THEN 1
        ELSE IF m \in Halves(b, size) THEN 0
        ELSE IF b.size # size /\ StrictlyInside(m, b) THEN nullptr
        ELSE h[m]]

(* Which nodes a split makes.                                              *)
LEMMA SplitMembers ==
    ASSUME NEW b, NEW size, NEW m \in Nodes
    PROVE  /\ m \in Spine(b, size) <=> m.off = b.off /\ size <= m.size /\ m.size <= b.size
           /\ m \in Halves(b, size) <=> m.off = b.off + m.size /\ size <= m.size /\ m.size < b.size
<1>1. m.size \in Sizes /\ m = [off |-> m.off, size |-> m.size]
  BY DEF Nodes
<1>2. m \in Spine(b, size) <=> m.off = b.off /\ size <= m.size /\ m.size <= b.size
  BY <1>1 DEF Spine
<1>3. m \in Halves(b, size) => m.off = b.off + m.size /\ size <= m.size /\ m.size < b.size
  BY DEF Halves
<1>4. m.off = b.off + m.size /\ size <= m.size /\ m.size < b.size => m \in Halves(b, size)
  BY <1>1 DEF Halves
<1>. QED
  BY <1>2, <1>3, <1>4

(* A node larger than size can be split, and its children are nodes no     *)
(* smaller than size.                                                      *)
LEMMA SplitChildren ==
    ASSUME NEW n \in Nodes, NEW size \in Sizes, size < n.size, n.off + n.size <= BackingSize
    PROVE  /\ Left(n) \in Nodes /\ Right(n) \in Nodes
           /\ Left(n).off = n.off /\ Right(n).off = n.off + Left(n).size
           /\ Right(n).size = Left(n).size
           /\ n.size = Left(n).size + Left(n).size
           /\ size <= Left(n).size
           /\ \A s \in Sizes : s < n.size => s <= Left(n).size
<1>1. /\ n.off \in Nat /\ n.size \in Sizes /\ n.size \in Nat /\ BackingSize \in Nat
      /\ size \in Nat /\ size > 0 /\ n.off \in 0 .. BackingSize - 1
  BY NodeFields, SizesAssumption DEF Nodes
<1>2. n.size # MinBlock
  BY <1>1, SizesAssumption
<1> DEFINE half == n.size \div 2
<1>3. half \in Sizes /\ 2 * half = n.size /\ half \in Nat /\ half > 0
  BY <1>1, <1>2, SizesAssumption
<1>4. Left(n) = [off |-> n.off, size |-> half] /\ Right(n) = [off |-> n.off + half, size |-> half]
  BY DEF Left, Right
<1> HIDE DEF half
<1>5. n.size = half + half /\ n.off + half \in 0 .. BackingSize - 1
  BY <1>1, <1>3
<1>6. \A s \in Sizes : s < n.size => s <= half
  <2> TAKE s \in Sizes
  <2>1. s \in Nat /\ (s < n.size => 2 * s <= n.size)
    BY <1>1, SizesAssumption
  <2>. QED
    BY <1>3, <2>1
<1>. QED
  BY <1>1, <1>3, <1>4, <1>5, <1>6 DEF Nodes

(* Splitting a node and then its left child down to size, and counting the *)
(* use of the node, is splitting the node down to size.                    *)
LEMMA SplitOnce ==
    ASSUME NEW n \in Nodes, NEW size \in Sizes, size < n.size, n.off + n.size <= BackingSize,
           NEW h \in Heap, h[n] = 0
    PROVE  SetInUse(n, SplitDown(Left(n), size, Split(n, h))) = SplitDown(n, size, h)
<1> DEFINE l == Left(n)  r == Right(n)
<1>1. /\ n \in Block /\ l \in Block /\ r \in Block /\ l \in Nodes /\ r \in Nodes
      /\ n.off \in Nat /\ n.size \in Nat /\ l.off \in Nat /\ l.size \in Nat /\ l.size > 0
      /\ size \in Nat
  BY SplitChildren, NodeFields, SizesAssumption
<1>2. /\ l.off = n.off /\ r.off = n.off + l.size /\ r.size = l.size /\ n.size = l.size + l.size
      /\ size <= l.size /\ \A s \in Sizes : s < n.size => s <= l.size
  BY SplitChildren
<1>3. Children(n) = {l, r}
  BY DEF Children
<1> HIDE DEF l, r
<1> DEFINE s == Split(n, h)
           d == SplitDown(l, size, s)
<1>4. \A m \in Nodes : s[m] = IF m \in {l, r} THEN 0
                              ELSE IF StrictlyInside(m, n) THEN nullptr ELSE h[m]
  BY <1>3 DEF Split, Delete
<1>5. \A m \in Nodes : d[m] = IF m \in Spine(l, size) THEN 1
                              ELSE IF m \in Halves(l, size) THEN 0
                              ELSE IF l.size # size /\ StrictlyInside(m, l) THEN nullptr
                              ELSE s[m]
  BY DEF SplitDown
<1>6. DOMAIN d = Nodes /\ DOMAIN SplitDown(n, size, h) = Nodes
  BY DEF SplitDown
<1> HIDE DEF s, d
<1>7. ASSUME NEW m \in Nodes
      PROVE  (IF m = n THEN d[m] + 1 ELSE d[m]) = SplitDown(n, size, h)[m]
  <2>1. m \in Block /\ m.off \in Nat /\ m.size \in Nat /\ m.size > 0 /\ m.size \in Sizes
    BY NodeFields
  <2>2. /\ m \in Spine(l, size) <=> m.off = l.off /\ size <= m.size /\ m.size <= l.size
        /\ m \in Halves(l, size) <=> m.off = l.off + m.size /\ size <= m.size /\ m.size < l.size
        /\ m \in Spine(n, size) <=> m.off = n.off /\ size <= m.size /\ m.size <= n.size
        /\ m \in Halves(n, size) <=> m.off = n.off + m.size /\ size <= m.size /\ m.size < n.size
    BY SplitMembers
  <2>3. SplitDown(n, size, h)[m] =
          IF m \in Spine(n, size) THEN 1
          ELSE IF m \in Halves(n, size) THEN 0
          ELSE IF n.size # size /\ StrictlyInside(m, n) THEN nullptr
          ELSE h[m]
    BY DEF SplitDown
  <2>4. CASE m = n
    <3>1. m \notin Spine(l, size) /\ m \notin Halves(l, size) /\ ~StrictlyInside(m, l)
      BY <1>1, <1>2, <2>2, <2>4 DEF StrictlyInside, Inside
    <3>2. m # l /\ m # r /\ ~StrictlyInside(m, n)
      BY <1>1, <1>2, <2>4 DEF StrictlyInside
    <3>3. d[m] = 0
      BY <1>4, <1>5, <2>4, <3>1, <3>2
    <3>4. m \in Spine(n, size)
      BY <1>1, <1>2, <2>2, <2>4
    <3>. QED
      BY <2>3, <2>4, <3>3, <3>4
  <2>5. CASE m # n /\ m \in Spine(n, size)
    <3>1. m.size # n.size
      BY <1>1, <2>1, <2>2, <2>5, BlockEquality
    <3>2. m.size <= l.size
      BY <1>1, <1>2, <2>1, <2>2, <2>5, <3>1
    <3>3. m \in Spine(l, size)
      BY <1>2, <2>2, <2>5, <3>2
    <3>. QED
      BY <1>5, <2>3, <2>5, <3>3
  <2>6. CASE m # n /\ m \notin Spine(n, size) /\ m \in Halves(n, size)
    <3>1. m.size <= l.size /\ m \notin Spine(l, size)
      BY <1>1, <1>2, <2>1, <2>2, <2>6
    <3>2. CASE m.size = l.size
      <4>1. m = r
        BY <1>1, <1>2, <2>1, <2>2, <2>6, <3>2, BlockEquality
      <4>2. m \notin Halves(l, size) /\ ~StrictlyInside(m, l)
        BY <1>1, <1>2, <2>1, <2>2, <2>6, <3>2 DEF StrictlyInside, Inside
      <4>. QED
        BY <1>4, <1>5, <2>3, <2>6, <3>1, <4>1, <4>2
    <3>3. CASE m.size # l.size
      <4>1. m \in Halves(l, size)
        BY <1>1, <1>2, <2>1, <2>2, <2>6, <3>1, <3>3
      <4>. QED
        BY <1>5, <2>3, <2>6, <3>1, <4>1
    <3>. QED
      BY <3>2, <3>3
  <2>7. CASE m # n /\ m \notin Spine(n, size) /\ m \notin Halves(n, size)
    <3>1. m \notin Spine(l, size) /\ m \notin Halves(l, size)
      BY <1>1, <1>2, <2>1, <2>2, <2>7
    <3>2. m # l /\ m # r
      BY <1>1, <1>2, <2>2, <2>7
    <3>3. StrictlyInside(m, l) => StrictlyInside(m, n)
      BY <1>1, <1>2, <2>1, <2>7 DEF StrictlyInside, Inside
    <3>4. n.size # size
      BY <1>1
    <3>. QED
      BY <1>4, <1>5, <2>3, <2>7, <3>1, <3>2, <3>3, <3>4
  <2>. QED
    BY <2>4, <2>5, <2>6, <2>7
<1>8. SetInUse(n, d) = SplitDown(n, size, h)
  <2>1. SetInUse(n, d) = [m \in Nodes |-> IF m = n THEN d[m] + 1 ELSE d[m]]
    BY <1>6 DEF SetInUse
  <2>2. SplitDown(n, size, h) = [m \in Nodes |-> SplitDown(n, size, h)[m]]
    BY DEF SplitDown
  <2>. QED
    BY <1>7, <2>1, <2>2
<1>. QED
  BY <1>8 DEF d, s, l

(* At a free node large enough the walk splits down to size and takes the  *)
(* leftmost block.                                                         *)
Takes(size, n, h) ==
    FindAndAllocFreeNode[<<size, n, h>>] =
        [block |-> Allocated(n, size), heap |-> SplitDown(n, size, h)]

LEMMA WalkSplits ==
    ASSUME NEW size \in Sizes
    PROVE  \A n \in Nodes, h \in Heap :
               h[n] = 0 /\ size <= n.size /\ n.off + n.size <= BackingSize => Takes(size, n, h)
<1> DEFINE Good(n, h) == h[n] = 0 /\ size <= n.size /\ n.off + n.size <= BackingSize
           T == {k \in Nat : \A n \in Nodes, h \in Heap :
                    n.size <= k /\ Good(n, h) => Takes(size, n, h)}
<1>1. size \in Nat /\ size > 0
  BY SizesAssumption
<1>2. ASSUME NEW n \in Nodes, NEW h \in Heap, Good(n, h), size = n.size
      PROVE  Takes(size, n, h)
  <2>1. n \in Pointers /\ n.off \in Nat /\ n.size \in Nat
    BY NodeFields
  <2>2. Exists(n, h) /\ ~(n.size < size)
    BY <1>1, <1>2 DEF Exists, nullptr
  <2>3. FindAndAllocFreeNode[<<size, n, h>>] = [block |-> n, heap |-> SetInUse(n, h)]
    BY <1>2, <2>1, <2>2, AllocUnfold DEF AllocOver
  <2>4. Allocated(n, size) = n
    BY <1>2 DEF Allocated, Nodes
  <2>5. ASSUME NEW m \in Nodes PROVE SplitDown(n, size, h)[m] = IF m = n THEN 1 ELSE h[m]
    <3>1. m.off \in Nat /\ m.size \in Nat /\ m \in Block /\ n \in Block
      BY NodeFields
    <3>2. m \in Spine(n, size) <=> m = n
      BY <1>1, <1>2, <2>1, <3>1, SplitMembers, BlockEquality
    <3>3. m \notin Halves(n, size)
      BY <1>1, <1>2, <2>1, <3>1, SplitMembers
    <3>. QED
      BY <1>2, <3>2, <3>3 DEF SplitDown
  <2>6. SetInUse(n, h) = [m \in Nodes |-> IF m = n THEN 1 ELSE h[m]]
    <3>1. DOMAIN h = Nodes
      BY DEF Heap
    <3>2. h[n] = 0
      BY <1>2
    <3>3. SetInUse(n, h) = [m \in Nodes |-> IF m = n THEN h[m] + 1 ELSE h[m]]
      BY <3>1 DEF SetInUse
    <3>4. ASSUME NEW m \in Nodes
          PROVE  (IF m = n THEN h[m] + 1 ELSE h[m]) = IF m = n THEN 1 ELSE h[m]
      BY <3>2
    <3>. QED
      BY <3>3, <3>4
  <2>7. SplitDown(n, size, h) = [m \in Nodes |-> SplitDown(n, size, h)[m]]
    BY DEF SplitDown
  <2>8. SplitDown(n, size, h) = SetInUse(n, h)
    BY <2>5, <2>6, <2>7
  <2>. QED
    BY <2>3, <2>4, <2>8 DEF Takes
<1>3. ASSUME NEW n \in Nodes, NEW h \in Heap, Good(n, h), size # n.size,
             Takes(size, Left(n), Split(n, h))
      PROVE  Takes(size, n, h)
  <2>1. n \in Pointers /\ n.off \in Nat /\ n.size \in Nat /\ size < n.size
    BY <1>1, <1>3, NodeFields
  <2>2. Exists(n, h) /\ ~(n.size < size)
    BY <1>1, <1>3, <2>1 DEF Exists, nullptr
  <2>3. FindAndAllocFreeNode[<<size, n, h>>] =
          Both(FindAndAllocFreeNode, size, n, Split(n, h))
    BY <1>3, <2>1, <2>2, AllocUnfold DEF AllocOver
  <2>4. Allocated(Left(n), size) = Allocated(n, size) /\ Allocated(n, size) # NoBlock
    BY <1>1 DEF Allocated, Left, NoBlock
  <2>5. SetInUse(n, SplitDown(Left(n), size, Split(n, h))) = SplitDown(n, size, h)
    BY <1>3, <2>1, SplitOnce
  <2>. QED
    BY <1>3, <2>3, <2>4, <2>5 DEF Takes, Both
<1>4. \A n \in Nodes : n.size \in Nat /\ n.size > 0
  BY NodeFields
<1>5. 0 \in T
  BY <1>4
<1>6. ASSUME NEW k \in Nat, k \in T PROVE k + 1 \in T
  <2>1. ASSUME NEW n \in Nodes, NEW h \in Heap, n.size <= k + 1, Good(n, h)
        PROVE  Takes(size, n, h)
    <3>1. CASE size = n.size
      BY <1>2, <2>1, <3>1
    <3>2. CASE size # n.size
      <4>1. size < n.size
        BY <1>1, <1>4, <2>1, <3>2
      <4>2. /\ Left(n) \in Nodes /\ Left(n).off = n.off /\ size <= Left(n).size
            /\ n.size = Left(n).size + Left(n).size
        BY <2>1, <4>1, SplitChildren
      <4>3. Split(n, h) \in Heap /\ Split(n, h)[Left(n)] = 0
        BY <4>2, HeapOperations DEF Split, Children
      <4>4. n.off \in Nat /\ Left(n).size \in Nat /\ Left(n).size > 0 /\ BackingSize \in Nat
        BY <1>4, <4>2, NodeFields
      <4>5. Left(n).size <= k /\ Left(n).off + Left(n).size <= BackingSize
        BY <2>1, <4>2, <4>4
      <4>6. Takes(size, Left(n), Split(n, h))
        BY <1>6, <4>2, <4>3, <4>5
      <4>. QED
        BY <1>3, <2>1, <3>2, <4>6
    <3>. QED
      BY <3>1, <3>2
  <2>. QED
    BY <2>1
<1>7. \A k \in Nat : k \in T
  <2> HIDE DEF T
  <2>. QED
    BY <1>5, <1>6, SetInduction
<1>8. ASSUME NEW n \in Nodes, NEW h \in Heap, Good(n, h) PROVE Takes(size, n, h)
  <2>1. n.size \in T
    BY <1>4, <1>7
  <2>. QED
    BY <1>4, <1>8, <2>1
<1>. QED
  BY <1>8

(* The free nodes the search reaches inside n.                             *)
ReachedIn(size, n) == {b \in Reached(size) : Inside(b, n)}

(* The heap after b was split down to size and the nodes above it, up to   *)
(* n, took one use more.                                                   *)
Climbed(b, size, n) ==
    [m \in Nodes |->
        IF m \in Above(b) /\ Inside(m, n) THEN HeapOf(count)[m] + 1
        ELSE SplitDown(b, size, HeapOf(count))[m]]

(* x is what the search from n comes back with: nothing, and the heap as   *)
(* it was, or the leftmost of the free nodes it reaches.                   *)
Searches(size, n, x) ==
    /\ ReachedIn(size, n) = {} => x = [block |-> NoBlock, heap |-> HeapOf(count)]
    /\ \A b \in ReachedIn(size, n) :
          (\A c \in ReachedIn(size, n) : b.off <= c.off) =>
              x = [block |-> Allocated(b, size), heap |-> Climbed(b, size, n)]

(* The heap of a tree holds its use counts.                                *)
LEMMA HeapOfTree ==
    ASSUME TypeOK
    PROVE  /\ HeapOf(count) \in Heap
           /\ \A n \in tree : HeapOf(count)[n] = count[n] /\ Exists(n, HeapOf(count))
           /\ \A n : n \notin tree => ~Exists(n, HeapOf(count))
<1>1. \A n \in tree : n \in Nodes /\ count[n] \in Nat
  BY TreeNodes
<1>2. HeapOf(count) \in Heap
  BY <1>1 DEF HeapOf, Heap, tree
<1>3. \A n \in tree : HeapOf(count)[n] = count[n]
  BY <1>1 DEF HeapOf, tree
<1>4. \A n \in Nodes : n \notin tree => HeapOf(count)[n] = nullptr
  BY DEF HeapOf, tree
<1>. QED
  BY <1>1, <1>2, <1>3, <1>4 DEF Exists, nullptr

(* Reached nodes are free nodes of the tree, large enough.                 *)
LEMMA ReachedFacts ==
    ASSUME TypeOK, NEW size, NEW b \in Reached(size)
    PROVE  /\ b \in tree /\ b \in Block /\ b \in Nodes /\ count[b] = 0 /\ size <= b.size
           /\ \A a \in Above(b) : InUse(a)
<1>1. b \in tree /\ ~InUse(b) /\ size <= b.size /\ \A a \in Above(b) : InUse(a)
  BY DEF Reached
<1>2. b \in Block /\ b \in Nodes /\ count[b] \in Nat
  BY <1>1, TreeNodes
<1>. QED
  BY <1>1, <1>2 DEF InUse

(* Counting one use of n after the walk came back from its child.          *)
LEMMA ClimbUp ==
    ASSUME IInv, NEW size \in Sizes, NEW n \in tree, Children(n) \subseteq tree,
           NEW c \in Children(n), NEW b \in tree, Inside(b, c), size <= b.size
    PROVE  SetInUse(n, Climbed(b, size, c)) = Climbed(b, size, n)
<1>0. TypeOK /\ TreeShape /\ c \in tree
  BY DEF IInv
<1>1. /\ b \in Block /\ c \in Block /\ n \in Block /\ n \in Nodes
      /\ b.off \in Nat /\ b.size \in Nat /\ b.size > 0 /\ n.off \in Nat /\ n.size \in Nat
      /\ c.off \in Nat /\ c.size \in Nat
  BY <1>0, TreeNodes, BlockFields
<1>2. Inside(c, n) /\ c.size < n.size
  BY <1>1, ChildInside
<1>3. Inside(b, n) /\ b.size < n.size /\ b # n
  <2>1. Inside(b, n)
    BY <1>1, <1>2, InsideTransitive
  <2>. QED
    BY <1>1, <1>2, <2>1 DEF Inside
<1>4. n \in Above(b) /\ ~Inside(n, c) /\ Inside(n, n)
  BY <1>1, <1>2, <1>3 DEF Above, Inside
<1>5. SplitDown(b, size, HeapOf(count))[n] = HeapOf(count)[n]
  <2>1. n \notin Spine(b, size) /\ n \notin Halves(b, size)
    BY <1>1, <1>3, SplitMembers
  <2>2. ~StrictlyInside(n, b)
    BY <1>1, <1>3 DEF StrictlyInside, Inside
  <2>. QED
    BY <1>1, <2>1, <2>2 DEF SplitDown
<1>6. ASSUME NEW m \in Above(b), m # n PROVE Inside(m, n) <=> Inside(m, c)
  <2>1. m \in tree /\ m \in Block /\ Inside(b, m)
    BY <1>0, <1>6, TreeNodes DEF Above
  <2>2. ASSUME Inside(m, c) PROVE Inside(m, n)
    BY <1>1, <1>2, <2>1, <2>2, InsideTransitive
  <2>3. ASSUME Inside(m, n) PROVE Inside(m, c)
    <3>1. PICK d \in Children(n) : Inside(m, d)
      BY <1>0, <1>6, <2>1, <2>3, BelowInChild DEF Children
    <3>2. d \in Block
      BY <1>0, <3>1, TreeNodes
    <3>3. Inside(b, d)
      BY <1>1, <2>1, <3>1, <3>2, InsideTransitive
    <3>4. d = c
      <4>1. d.size = c.size
        BY <1>1, <3>1, ChildInside
      <4>2. PICK half \in Nat :
              /\ Left(n).off = n.off /\ Left(n).size = half
              /\ Right(n).off = n.off + half /\ Right(n).size = half
        BY <1>1, ChildFields
      <4>3. d.off = c.off
        BY <1>1, <3>1, <3>3, <4>2 DEF Children, Inside
      <4>. QED
        BY <1>1, <3>2, <4>1, <4>3, BlockEquality
    <3>. QED
      BY <3>1, <3>4
  <2>. QED
    BY <2>2, <2>3
<1>7. DOMAIN Climbed(b, size, c) = Nodes
  BY DEF Climbed
<1>8. SetInUse(n, Climbed(b, size, c)) =
        [m \in Nodes |-> IF m = n THEN Climbed(b, size, c)[m] + 1 ELSE Climbed(b, size, c)[m]]
  BY <1>7 DEF SetInUse
<1>9. ASSUME NEW m \in Nodes
      PROVE  (IF m = n THEN Climbed(b, size, c)[m] + 1 ELSE Climbed(b, size, c)[m])
               = Climbed(b, size, n)[m]
  BY <1>4, <1>5, <1>6 DEF Climbed
<1>10. Climbed(b, size, n) = [m \in Nodes |-> Climbed(b, size, n)[m]]
  BY DEF Climbed
<1>. QED
  BY <1>8, <1>9, <1>10

(* The search from a free node, and from one that is too small.            *)
LEMMA WalkSearchesFree ==
    ASSUME IInv, NEW size \in Sizes, NEW n \in tree, \A a \in Above(n) : InUse(a),
           n.size < size \/ ~InUse(n)
    PROVE  Searches(size, n, FindAndAllocFreeNode[<<size, n, HeapOf(count)>>])
<1> DEFINE H == HeapOf(count)
           x == FindAndAllocFreeNode[<<size, n, H>>]
<1>0. TypeOK /\ size \in Nat /\ size > 0 /\ BackingSize \in Nat
  BY SizesAssumption DEF IInv
<1>1. /\ n \in Nodes /\ n \in Block /\ n \in Pointers /\ n.size \in Nat /\ n.off \in Nat
      /\ n.off + n.size <= BackingSize
  BY <1>0, TreeNodes, NodeFields DEF TypeOK
<1>2. H \in Heap /\ Exists(n, H) /\ H[n] = count[n] /\ count[n] \in Nat
  BY <1>0, HeapOfTree, TreeNodes
<1>3. \A b \in ReachedIn(size, n) : /\ b \in Reached(size) /\ b \in tree /\ b \in Block
                                    /\ Inside(b, n) /\ size <= b.size /\ b.size <= n.size
  <2> TAKE b \in ReachedIn(size, n)
  <2>1. b \in Reached(size) /\ b \in tree /\ b \in Block /\ Inside(b, n) /\ size <= b.size
    BY <1>0, ReachedFacts DEF ReachedIn
  <2>2. b.off \in Nat /\ b.size \in Nat
    BY <2>1, BlockFields
  <2>. QED
    BY <1>1, <2>1, <2>2 DEF Inside
<1> HIDE DEF H
<1>4. CASE n.size < size
  <2>1. x = [block |-> NoBlock, heap |-> H]
    BY <1>1, <1>2, <1>4, AllocUnfold DEF AllocOver
  <2>2. ReachedIn(size, n) = {}
    <3>1. ASSUME NEW b \in ReachedIn(size, n) PROVE FALSE
      <4>1. b.size \in Nat /\ size <= b.size /\ b.size <= n.size
        BY <1>3, BlockFields
      <4>. QED
        BY <1>0, <1>1, <1>4, <4>1
    <3>. QED
      BY <3>1
  <2>. QED
    BY <2>1, <2>2 DEF Searches, H
<1>5. CASE ~(n.size < size) /\ ~InUse(n)
  <2>1. size <= n.size /\ H[n] = 0
    BY <1>0, <1>1, <1>2, <1>5 DEF InUse
  <2>2. x = [block |-> Allocated(n, size), heap |-> SplitDown(n, size, H)]
    BY <1>1, <1>2, <2>1, WalkSplits DEF Takes
  <2>3. n \in ReachedIn(size, n)
    BY <1>1, <1>5, <2>1, InsideOrder DEF ReachedIn, Reached
  <2>4. ASSUME NEW b \in ReachedIn(size, n) PROVE b = n
    <3>1. b \in tree /\ Inside(b, n)
      BY <1>3
    <3>2. Below(n) = {}
      BY <1>5 DEF IInv, FreeNodeIsLeaf, Leaf
    <3>. QED
      BY <3>1, <3>2 DEF Below
  <2>5. Climbed(n, size, n) = SplitDown(n, size, H)
    <3>1. ASSUME NEW m \in Above(n), Inside(m, n) PROVE FALSE
      <4>1. m \in Block /\ Inside(n, m) /\ m # n
        BY <1>0, TreeNodes DEF Above
      <4>. QED
        BY <1>1, <3>1, <4>1, InsideOrder
    <3>2. Climbed(n, size, n) = [m \in Nodes |-> SplitDown(n, size, H)[m]]
      BY <3>1 DEF Climbed, H
    <3>3. SplitDown(n, size, H) = [m \in Nodes |-> SplitDown(n, size, H)[m]]
      BY DEF SplitDown
    <3>. QED
      BY <3>2, <3>3
  <2> HIDE DEF x
  <2>. QED
    BY <2>2, <2>3, <2>4, <2>5 DEF Searches, H, x
<1>. QED
  BY <1>4, <1>5

(* The nodes above a child of n are n and those above n.                   *)
LEMMA AboveChild ==
    ASSUME TypeOK, TreeShape, NEW n \in tree, NEW c \in Children(n) \cap tree
    PROVE  Above(c) = Above(n) \cup {n}
<1>1. n \in Block /\ c \in Block /\ Inside(c, n) /\ c # n /\ c.size < n.size
  BY TreeNodes, ChildInside
<1>2. ASSUME NEW a \in Above(n) \cup {n} PROVE a \in Above(c)
  <2>1. a \in tree /\ a \in Block /\ Inside(n, a)
    BY <1>1, <1>2, TreeNodes, InsideOrder DEF Above
  <2>2. Inside(c, a)
    BY <1>1, <2>1, InsideTransitive
  <2>3. a # c
    BY <1>1, <2>1, InsideOrder
  <2>. QED
    BY <2>1, <2>2, <2>3 DEF Above
<1>3. ASSUME NEW a \in Above(c), a # n PROVE a \in Above(n)
  <2>1. a \in tree /\ a \in Block /\ Inside(c, a) /\ a # c
    BY TreeNodes DEF Above
  <2>2. ~Disjoint(n, a)
    <3>1. ASSUME Disjoint(n, a) PROVE FALSE
      <4>1. Disjoint(c, a)
        BY <1>1, <2>1, <3>1, InsideTransitive
      <4>. QED
        BY <1>1, <2>1, <4>1, InsideOrder
    <3>. QED
      BY <3>1
  <2>3. ~Inside(a, n)
    <3>1. ASSUME Inside(a, n) PROVE FALSE
      <4>1. PICK d \in Children(n) : Inside(a, d) /\ Children(n) \subseteq tree
        BY <1>3, <2>1, <3>1, BelowInChild DEF Children
      <4>2. d \in Block /\ d.size = c.size
        BY <1>1, <4>1, TreeNodes, ChildInside
      <4>3. /\ c.off \in Nat /\ c.size \in Nat /\ a.off \in Nat /\ a.size \in Nat
            /\ d.off \in Nat /\ d.size \in Nat
        BY <1>1, <2>1, <4>2, BlockFields
      <4>4. a.off = c.off /\ a.size = c.size
        <5>1. /\ a.off <= c.off /\ c.off + c.size <= a.off + a.size
              /\ d.off <= a.off /\ a.off + a.size <= d.off + d.size
          BY <2>1, <4>1 DEF Inside
        <5>2. d.size = c.size
          BY <4>2
        <5>. QED
          BY <4>3, <5>1, <5>2
      <4>. QED
        BY <1>1, <2>1, <4>4, BlockEquality
    <3>. QED
      BY <3>1
  <2>4. Inside(n, a)
    BY <2>1, <2>2, <2>3 DEF TreeShape
  <2>. QED
    BY <1>3, <2>1, <2>4 DEF Above
<1>. QED
  BY <1>2, <1>3

(* The search from a node in use: the left child first, then the right.    *)
LEMMA WalkSearchesInUse ==
    ASSUME IInv, NEW size \in Sizes, NEW n \in tree, InUse(n), ~(n.size < size),
           \A c \in Children(n) \cap tree :
               Searches(size, c, FindAndAllocFreeNode[<<size, c, HeapOf(count)>>])
    PROVE  Searches(size, n, FindAndAllocFreeNode[<<size, n, HeapOf(count)>>])
<1> DEFINE H == HeapOf(count)
           f == FindAndAllocFreeNode
           x == f[<<size, n, H>>]
           l == Left(n)
           r == Right(n)
<1>0. TypeOK /\ TreeShape /\ size \in Nat /\ size > 0
  BY SizesAssumption DEF IInv
<1>1. /\ n \in Nodes /\ n \in Block /\ n \in Pointers /\ n.size \in Nat /\ n.off \in Nat
      /\ l \in Pointers /\ r \in Pointers
  BY <1>0, TreeNodes, NodeFields
<1>2. H \in Heap /\ Exists(n, H) /\ H[n] = count[n] /\ count[n] \in Nat /\ H[n] # 0
  BY <1>0, HeapOfTree, TreeNodes DEF InUse
<1>3. Children(n) = {l, r}
  BY DEF Children
<1>4. \A c \in Children(n) \cap tree : Searches(size, c, f[<<size, c, H>>])
  OBVIOUS
<1>5. \A b \in ReachedIn(size, n) :
          /\ b \in Reached(size) /\ b \in tree /\ b \in Block /\ size <= b.size
          /\ Children(n) \subseteq tree /\ (Inside(b, l) \/ Inside(b, r))
  <2> TAKE b \in ReachedIn(size, n)
  <2>1. b \in Reached(size) /\ b \in tree /\ b \in Block /\ Inside(b, n) /\ size <= b.size
        /\ ~InUse(b)
    BY <1>0, ReachedFacts DEF ReachedIn, Reached
  <2>2. b # n
    BY <2>1
  <2>. QED
    BY <1>0, <2>1, <2>2, BelowInChild
<1>6. x = Both(f, size, n, H)
  BY <1>1, <1>2, AllocUnfold DEF AllocOver
<1>7. Allocated(n, size) # NoBlock /\ \A b : Allocated(b, size) # NoBlock
  BY <1>0 DEF Allocated, NoBlock
<1> HIDE DEF H, f, x, l, r
<1>8. CASE ~(Children(n) \subseteq tree)
  <2>1. ReachedIn(size, n) = {}
    BY <1>5, <1>8
  <2>2. l \notin tree /\ r \notin tree
    <3>1. ASSUME NEW c \in Children(n), c \in tree PROVE FALSE
      <4>1. Inside(c, n) /\ c # n
        BY <1>1, ChildInside
      <4>. QED
        BY <1>0, <1>8, <3>1, <4>1, BelowInChild
    <3>. QED
      BY <1>3, <3>1
  <2>3. /\ f[<<size, l, H>>] = [block |-> NoBlock, heap |-> H]
        /\ f[<<size, r, H>>] = [block |-> NoBlock, heap |-> H]
    <3>1. ~Exists(l, H) /\ ~Exists(r, H)
      BY <1>0, <2>2, HeapOfTree DEF H
    <3>. QED
      BY <1>1, <1>2, <3>1, AllocUnfold DEF AllocOver, f
  <2>4. x = [block |-> NoBlock, heap |-> H]
    BY <1>6, <2>3 DEF Both, l, r
  <2>. QED
    BY <2>1, <2>4 DEF Searches, x, f, H
<1>9. CASE Children(n) \subseteq tree
  <2>1. /\ l \in tree /\ r \in tree /\ l \in Block /\ r \in Block
        /\ Inside(l, n) /\ Inside(r, n)
    BY <1>0, <1>1, <1>3, <1>9, TreeNodes, ChildInside
  <2>2. Searches(size, l, f[<<size, l, H>>]) /\ Searches(size, r, f[<<size, r, H>>])
    BY <1>3, <1>4, <2>1
  <2>3. ReachedIn(size, n) = ReachedIn(size, l) \cup ReachedIn(size, r)
    <3>1. ASSUME NEW b \in ReachedIn(size, n)
          PROVE  b \in ReachedIn(size, l) \cup ReachedIn(size, r)
      BY <1>5 DEF ReachedIn
    <3>2. ASSUME NEW c \in {l, r}, NEW b \in ReachedIn(size, c) PROVE b \in ReachedIn(size, n)
      <4>1. b \in Reached(size) /\ b \in Block /\ Inside(b, c)
        BY <1>0, ReachedFacts DEF ReachedIn
      <4>2. Inside(b, n)
        BY <1>1, <2>1, <4>1, InsideTransitive
      <4>. QED
        BY <4>1, <4>2 DEF ReachedIn
    <3>. QED
      BY <3>1, <3>2
  <2>4. ASSUME NEW b \in ReachedIn(size, l), NEW c \in ReachedIn(size, r) PROVE b.off < c.off
    <3>1. b \in Block /\ c \in Block /\ Inside(b, l) /\ Inside(c, r)
      BY <1>0, ReachedFacts DEF ReachedIn
    <3>2. /\ b.off \in Nat /\ b.size \in Nat /\ b.size > 0 /\ c.off \in Nat
      BY <3>1, BlockFields
    <3>3. PICK half \in Nat : l.off = n.off /\ l.size = half /\ r.off = n.off + half
      BY <1>1, ChildFields DEF l, r
    <3>. QED
      BY <1>1, <3>1, <3>2, <3>3 DEF Inside
  <2>5. ASSUME NEW c \in Children(n), NEW b \in ReachedIn(size, c)
        PROVE  SetInUse(n, Climbed(b, size, c)) = Climbed(b, size, n)
    <3>1. b \in tree /\ Inside(b, c) /\ size <= b.size
      BY <1>0, ReachedFacts DEF ReachedIn
    <3>. QED
      BY <1>9, <3>1, ClimbUp
  <2>6. CASE ReachedIn(size, l) = {} /\ ReachedIn(size, r) = {}
    <3>1. x = [block |-> NoBlock, heap |-> H]
      BY <1>6, <2>2, <2>6 DEF Both, Searches, l, r, H
    <3>. QED
      BY <2>3, <2>6, <3>1 DEF Searches, x, f, H
  <2>7. CASE ReachedIn(size, l) = {} /\ ReachedIn(size, r) # {}
    <3>1. ASSUME NEW b \in ReachedIn(size, n), \A c \in ReachedIn(size, n) : b.off <= c.off
          PROVE  x = [block |-> Allocated(b, size), heap |-> Climbed(b, size, n)]
      <4>1. f[<<size, l, H>>] = [block |-> NoBlock, heap |-> H]
        BY <2>2, <2>7 DEF Searches, H
      <4>2. f[<<size, r, H>>] = [block |-> Allocated(b, size), heap |-> Climbed(b, size, r)]
        BY <2>2, <2>3, <2>7, <3>1 DEF Searches
      <4>3. SetInUse(n, Climbed(b, size, r)) = Climbed(b, size, n)
        BY <1>3, <2>3, <2>5, <2>7
      <4>. QED
        BY <1>6, <1>7, <4>1, <4>2, <4>3 DEF Both, l, r
    <3>2. ReachedIn(size, n) # {}
      BY <2>3, <2>7
    <3>. QED
      BY <3>1, <3>2 DEF Searches, x, f, H
  <2>8. CASE ReachedIn(size, l) # {}
    <3>1. ASSUME NEW b \in ReachedIn(size, n), \A c \in ReachedIn(size, n) : b.off <= c.off
          PROVE  x = [block |-> Allocated(b, size), heap |-> Climbed(b, size, n)]
      <4>1. b \in ReachedIn(size, l)
        <5>1. PICK c \in ReachedIn(size, l) : TRUE
          BY <2>8
        <5>2. b.off <= c.off /\ b.off \in Nat /\ c.off \in Nat
          BY <1>5, <2>3, <3>1, <5>1, BlockFields
        <5>3. ASSUME b \in ReachedIn(size, r) PROVE FALSE
          <6>1. c.off < b.off
            BY <2>4, <5>3
          <6>. QED
            BY <5>2, <6>1
        <5>. QED
          BY <2>3, <5>3
      <4>2. f[<<size, l, H>>] = [block |-> Allocated(b, size), heap |-> Climbed(b, size, l)]
        BY <2>2, <2>3, <3>1, <4>1 DEF Searches
      <4>3. SetInUse(n, Climbed(b, size, l)) = Climbed(b, size, n)
        BY <1>3, <2>5, <4>1
      <4>. QED
        BY <1>6, <1>7, <4>2, <4>3 DEF Both, l, r
    <3>2. ReachedIn(size, n) # {}
      BY <2>3, <2>8
    <3>. QED
      BY <3>1, <3>2 DEF Searches, x, f, H
  <2>. QED
    BY <2>6, <2>7, <2>8
<1>. QED
  BY <1>8, <1>9

(* So does the search from any node the search can reach.                  *)
LEMMA WalkSearchesAll ==
    ASSUME IInv, NEW size \in Sizes
    PROVE  \A n \in tree : (\A a \in Above(n) : InUse(a)) =>
               Searches(size, n, FindAndAllocFreeNode[<<size, n, HeapOf(count)>>])
<1> DEFINE Good(n) == Searches(size, n, FindAndAllocFreeNode[<<size, n, HeapOf(count)>>])
           Way(n) == \A a \in Above(n) : InUse(a)
           T == {k \in Nat : \A n \in tree : n.size <= k /\ Way(n) => Good(n)}
<1>0. TypeOK /\ TreeShape
  BY DEF IInv
<1>1. \A n \in tree : n \in Block /\ n.size \in Nat /\ n.size > 0
  BY <1>0, TreeNodes, BlockFields
<1>2. 0 \in T
  BY <1>1
<1>3. ASSUME NEW k \in Nat, k \in T PROVE k + 1 \in T
  <2>1. ASSUME NEW n \in tree, n.size <= k + 1, Way(n) PROVE Good(n)
    <3>1. CASE n.size < size \/ ~InUse(n)
      BY <2>1, <3>1, WalkSearchesFree
    <3>2. CASE ~(n.size < size) /\ InUse(n)
      <4>1. ASSUME NEW c \in Children(n) \cap tree PROVE Good(c)
        <5>1. c.size <= k
          BY <1>1, <2>1, ChildInside
        <5>2. Way(c)
          BY <1>0, <2>1, <3>2, AboveChild
        <5> HIDE DEF Way, Good
        <5>. QED
          BY <1>3, <5>1, <5>2
      <4>. QED
        BY <3>2, <4>1, WalkSearchesInUse
    <3>. QED
      BY <3>1, <3>2
  <2>. QED
    BY <2>1
<1>4. \A k \in Nat : k \in T
  <2> HIDE DEF T
  <2>. QED
    BY <1>2, <1>3, SetInduction
<1>5. ASSUME NEW n \in tree, Way(n) PROVE Good(n)
  <2>1. n.size \in T
    BY <1>1, <1>4
  <2> HIDE DEF Way, Good
  <2>. QED
    BY <1>1, <1>5, <2>1
<1>. QED
  BY <1>5

(* FirstFit is one of the nodes reached, and none is further to the left.  *)
LEMMA FirstFitLeast ==
    ASSUME TypeOK, NEW size, Reached(size) # {}
    PROVE  /\ FirstFit(size) \in Reached(size)
           /\ \A c \in Reached(size) : FirstFit(size).off <= c.off
<1> DEFINE T == {b.off : b \in Reached(size)}
<1>1. T \subseteq Nat
  BY ReachedFacts, BlockFields
<1>2. T # {}
  OBVIOUS
<1> HIDE DEF T
<1>3. PICK o \in T : \A p \in T : o <= p
  BY <1>1, <1>2, NatMinimum
<1>4. PICK b \in Reached(size) : b.off = o
  BY <1>3 DEF T
<1>5. \A c \in Reached(size) : b.off <= c.off
  BY <1>3, <1>4 DEF T
<1>. QED
  BY <1>5 DEF FirstFit

(* What the walk leaves is the tree of AllocNode.                          *)
LEMMA ClimbedTree ==
    ASSUME TypeOK, NEW size \in Sizes, NEW b \in tree, size <= b.size
    PROVE  Climbed(b, size, Root) = HeapOf(CountAfterAlloc(b, size))
<1>1. b \in Block /\ b.off \in Nat /\ b.size \in Nat
  BY TreeNodes, BlockFields
<1>2. ASSUME NEW m \in Nodes
      PROVE  Climbed(b, size, Root)[m] = HeapOf(CountAfterAlloc(b, size))[m]
  <2>1. m \in Block /\ m.off \in Nat /\ m.size \in Nat
    BY NodeFields
  <2>2. HeapOf(CountAfterAlloc(b, size))[m] =
          IF m \in TreeAfterAlloc(b, size) THEN CountAfterAlloc(b, size)[m] ELSE nullptr
    BY DEF HeapOf, CountAfterAlloc
  <2>3. /\ HeapOf(count)[m] = IF m \in tree THEN count[m] ELSE nullptr
        /\ SplitDown(b, size, HeapOf(count))[m] =
              IF m \in Spine(b, size) THEN 1
              ELSE IF m \in Halves(b, size) THEN 0
              ELSE IF b.size # size /\ StrictlyInside(m, b) THEN nullptr
              ELSE HeapOf(count)[m]
        /\ Climbed(b, size, Root)[m] =
              IF m \in Above(b) /\ Inside(m, Root) THEN HeapOf(count)[m] + 1
              ELSE SplitDown(b, size, HeapOf(count))[m]
    BY DEF HeapOf, SplitDown, Climbed, tree
  <2>4. CASE m \in Spine(b, size) \cup Halves(b, size)
    <3>1. /\ m \in Spine(b, size) => m.off = b.off /\ m.size <= b.size
          /\ m \in Halves(b, size) => m.off = b.off + m.size /\ m.size < b.size
      BY SplitMembers
    <3>2. m \notin Above(b)
      <4>1. ASSUME m # b, Inside(b, m) PROVE FALSE
        <5>1. m.off = b.off /\ m.size = b.size
          BY <1>1, <2>1, <2>4, <3>1, <4>1 DEF Inside
        <5>. QED
          BY <1>1, <2>1, <4>1, <5>1, BlockEquality
      <4>. QED
        BY <4>1 DEF Above
    <3>3. m \in TreeAfterAlloc(b, size)
      BY <2>4 DEF TreeAfterAlloc
    <3>. QED
      BY <2>2, <2>3, <2>4, <3>2, <3>3 DEF CountAfterAlloc
  <2>5. CASE m \notin Spine(b, size) \cup Halves(b, size) /\ m \in Above(b)
    <3>1. m \in tree /\ ~StrictlyInside(m, b)
      BY <1>1, <2>1, <2>5, InsideOrder DEF Above, StrictlyInside
    <3>2. m \in TreeAfterAlloc(b, size)
      BY <3>1 DEF TreeAfterAlloc, Overwritten, Below, StrictlyInside
    <3>3. Inside(m, Root)
      <4>1. m.off + m.size <= BackingSize /\ BackingSize \in Nat
        BY <3>1, SizesAssumption DEF TypeOK
      <4>. QED
        BY <2>1, <4>1 DEF Inside, Root
    <3>. QED
      BY <2>2, <2>3, <2>5, <3>1, <3>2, <3>3 DEF CountAfterAlloc
  <2>6. CASE m \notin Spine(b, size) \cup Halves(b, size) /\ m \notin Above(b)
    <3>1. m \in TreeAfterAlloc(b, size)
            <=> m \in tree /\ ~(b.size # size /\ StrictlyInside(m, b))
      BY <2>6 DEF TreeAfterAlloc, Overwritten, Below, StrictlyInside
    <3>. QED
      BY <2>2, <2>3, <2>6, <3>1 DEF CountAfterAlloc
  <2>. QED
    BY <2>4, <2>5, <2>6
<1>3. /\ Climbed(b, size, Root) = [m \in Nodes |-> Climbed(b, size, Root)[m]]
      /\ HeapOf(CountAfterAlloc(b, size)) =
            [m \in Nodes |-> HeapOf(CountAfterAlloc(b, size))[m]]
  BY DEF Climbed, HeapOf
<1>. QED
  BY <1>2, <1>3

(* The walk allocates what AllocNode allocates.                            *)
LEMMA AllocsAgree == IInv /\ Root \in tree => AllocAgrees
<1> SUFFICES ASSUME IInv, Root \in tree, NEW request \in Requests
             PROVE  FindAndAllocFreeNode[<<SizeClass(request), Root, HeapOf(count)>>] =
                      IF Reached(SizeClass(request)) = {}
                      THEN [block |-> NoBlock, heap |-> HeapOf(count)]
                      ELSE [block |-> Allocated(FirstFit(SizeClass(request)), SizeClass(request)),
                            heap |-> HeapOf(CountAfterAlloc(FirstFit(SizeClass(request)),
                                                            SizeClass(request)))]
  BY DEF AllocAgrees
<1> DEFINE size == SizeClass(request)
<1>0. TypeOK /\ BackingSize \in Nat
  BY SizesAssumption DEF IInv
<1>1. size \in Sizes
  BY SizeClassType
<1> HIDE DEF size
<1>2. \A m \in tree : Inside(m, Root)
  <2> TAKE m \in tree
  <2>1. m.off \in Nat /\ m.size \in Nat /\ m.off + m.size <= BackingSize
    BY <1>0, TreeNodes, BlockFields DEF TypeOK
  <2>. QED
    BY <1>0, <2>1 DEF Inside, Root
<1>3. Above(Root) = {}
  <2>1. ASSUME NEW a \in Above(Root) PROVE FALSE
    <3>1. a \in tree /\ a \in Block /\ Root \in Block /\ a # Root /\ Inside(Root, a)
      BY <1>0, TreeNodes DEF Above
    <3>. QED
      BY <1>2, <3>1, InsideOrder
  <2>. QED
    BY <2>1
<1>4. Searches(size, Root, FindAndAllocFreeNode[<<size, Root, HeapOf(count)>>])
  BY <1>1, <1>3, WalkSearchesAll
<1>5. ReachedIn(size, Root) = Reached(size)
  BY <1>0, <1>2, ReachedFacts DEF ReachedIn
<1>6. CASE Reached(size) = {}
  BY <1>4, <1>5, <1>6 DEF Searches, size
<1>7. CASE Reached(size) # {}
  <2>1. /\ FirstFit(size) \in Reached(size)
        /\ \A c \in Reached(size) : FirstFit(size).off <= c.off
    BY <1>0, <1>7, FirstFitLeast
  <2>2. FirstFit(size) \in tree /\ size <= FirstFit(size).size
    BY <1>0, <2>1, ReachedFacts
  <2>3. Climbed(FirstFit(size), size, Root) = HeapOf(CountAfterAlloc(FirstFit(size), size))
    BY <1>0, <1>1, <2>2, ClimbedTree
  <2>4. FindAndAllocFreeNode[<<size, Root, HeapOf(count)>>] =
          [block |-> Allocated(FirstFit(size), size),
           heap |-> Climbed(FirstFit(size), size, Root)]
    BY <1>4, <1>5, <2>1 DEF Searches
  <2>. QED
    BY <1>7, <2>3, <2>4 DEF size
<1>. QED
  BY <1>6, <1>7

-----------------------------------------------------------------------------
(* The walk of Coalesce.                                                   *)

(* The nodes above n that lie in p, without p.                             *)
Passed(n, p) == {a \in Above(n) : StrictlyInside(a, p)}

(* The heap once n and the nodes of U lost a use and those of U their      *)
(* children.                                                               *)
Freed(n, U) ==
    [m \in Nodes |->
        IF m \notin tree \/ \E a \in U : m \in Below(a) THEN nullptr
        ELSE IF m \in U \cup {n} /\ count[m] > 0 THEN count[m] - 1
        ELSE count[m]]

(* A heap of this kind holds the nodes that are left.                      *)
LEMMA FreedHeap ==
    ASSUME TypeOK, NEW n \in tree, NEW U, U \subseteq tree
    PROVE  /\ Freed(n, U) \in Heap
           /\ \A m : Exists(m, Freed(n, U)) <=> m \in tree /\ \A a \in U : m \notin Below(a)
           /\ \A m \in tree : m \in Nodes
<1>1. \A m \in tree : m \in Nodes /\ count[m] \in Nat
  BY TreeNodes
<1>2. ASSUME NEW m \in Nodes
      PROVE  /\ Freed(n, U)[m] \in Nat \cup {-1}
             /\ Freed(n, U)[m] # -1 <=> m \in tree /\ \A a \in U : m \notin Below(a)
  <2>1. CASE m \notin tree \/ \E a \in U : m \in Below(a)
    BY <2>1 DEF Freed, nullptr
  <2>2. CASE ~(m \notin tree \/ \E a \in U : m \in Below(a))
    <3>1. Freed(n, U)[m] = IF m \in U \cup {n} /\ count[m] > 0 THEN count[m] - 1 ELSE count[m]
      BY <2>2 DEF Freed
    <3>2. count[m] \in Nat
      BY <1>1, <2>2
    <3>. QED
      BY <2>2, <3>1, <3>2
  <2>. QED
    BY <2>1, <2>2
<1>3. Freed(n, U) \in Heap
  BY <1>2 DEF Freed, Heap, nullptr
<1>. QED
  BY <1>1, <1>2, <1>3 DEF Exists, nullptr

(* The nodes above a block form a chain.                                   *)
LEMMA AboveChain ==
    ASSUME TypeOK, TreeShape, NEW n \in tree,
           NEW a \in Above(n) \cup {n}, NEW b \in Above(n) \cup {n}
    PROVE  Inside(a, b) \/ Inside(b, a)
<1>1. /\ a \in tree /\ b \in tree /\ a \in Block /\ b \in Block /\ n \in Block
      /\ Inside(n, a) /\ Inside(n, b)
  BY TreeNodes, InsideOrder DEF Above
<1>2. ~Disjoint(a, b)
  <2>1. ASSUME Disjoint(a, b) PROVE FALSE
    <3>1. Disjoint(n, b)
      BY <1>1, <2>1, InsideTransitive
    <3>. QED
      BY <1>1, <3>1, InsideOrder
  <2>. QED
    BY <2>1
<1>. QED
  BY <1>1, <1>2 DEF TreeShape

(* A node with a node above it has a parent: the smallest of them.         *)
LEMMA ParentExists ==
    ASSUME TypeOK, TreeShape, NEW p \in tree, Above(p) # {}
    PROVE  \E q \in Above(p) : p \in Children(q)
<1> DEFINE T == {a.size : a \in Above(p)}
<1>1. \A a \in Above(p) : a \in tree /\ a \in Block /\ a.size \in Nat /\ Inside(p, a) /\ a # p
  BY TreeNodes, BlockFields DEF Above
<1>2. T \subseteq Nat /\ T # {}
  BY <1>1
<1> HIDE DEF T
<1>3. PICK s \in T : \A t \in T : s <= t
  BY <1>2, NatMinimum
<1>4. PICK q \in Above(p) : q.size = s
  BY <1>3 DEF T
<1>5. \A a \in Above(p) : q.size <= a.size
  BY <1>3, <1>4 DEF T
<1>6. PICK c \in Children(q) : Inside(p, c) /\ Children(q) \subseteq tree
  BY <1>1, BelowInChild DEF Children
<1>7. c \in tree /\ c.size < q.size /\ c \in Block /\ c.size \in Nat
  BY <1>1, <1>6, TreeNodes, BlockFields, ChildInside
<1>8. c = p
  <2>1. CASE c # p
    <3>1. c \in Above(p)
      BY <1>6, <1>7, <2>1 DEF Above
    <3>. QED
      BY <1>1, <1>5, <1>7, <3>1
  <2>. QED
    BY <2>1
<1>. QED
  BY <1>6, <1>8

(* The nodes passed on the way to a parent are those passed on the way to  *)
(* the child, and the child.                                               *)
LEMMA PassedParent ==
    ASSUME TypeOK, TreeShape, NEW n \in tree, NEW p \in Above(n) \cup {n}, NEW q \in tree,
           p \in Children(q)
    PROVE  /\ q \in Above(n)
           /\ Passed(n, q) = Passed(n, p) \cup (IF p = n THEN {} ELSE {p})
<1>1. /\ n \in Block /\ p \in Block /\ q \in Block /\ p \in tree /\ Inside(n, p)
      /\ Inside(p, q) /\ p # q /\ p.size < q.size
  BY TreeNodes, InsideOrder, ChildInside DEF Above
<1>2. q \in Above(n)
  <2>1. Inside(n, q)
    BY <1>1, InsideTransitive
  <2>2. q # n
    BY <1>1, InsideOrder
  <2>. QED
    BY <2>1, <2>2 DEF Above
<1>3. ASSUME NEW a \in Passed(n, q), a # p PROVE a \in Passed(n, p)
  <2>1. /\ a \in Above(n) /\ a \in tree /\ a \in Block /\ Inside(n, a)
        /\ Inside(a, q) /\ a # q
    BY <1>3, TreeNodes DEF Passed, StrictlyInside, Above
  <2>2. Inside(a, p)
    <3>1. CASE Inside(p, a)
      <4>1. PICK d \in Children(q) : Inside(a, d) /\ Children(q) \subseteq tree
        BY <2>1, BelowInChild DEF Children
      <4>2. d \in Block /\ d.size = p.size
        BY <1>1, <4>1, TreeNodes, ChildInside
      <4>3. Inside(p, d)
        BY <1>1, <2>1, <3>1, <4>1, <4>2, InsideTransitive
      <4>4. /\ p.off \in Nat /\ p.size \in Nat /\ a.off \in Nat /\ a.size \in Nat
            /\ d.off \in Nat /\ d.size \in Nat
        BY <1>1, <2>1, <4>2, BlockFields
      <4>5. a.off = p.off /\ a.size = p.size
        <5>1. /\ a.off <= p.off /\ p.off + p.size <= a.off + a.size
              /\ d.off <= a.off /\ a.off + a.size <= d.off + d.size
          BY <3>1, <4>1 DEF Inside
        <5>2. d.size = p.size
          BY <4>2
        <5>. QED
          BY <4>4, <5>1, <5>2
      <4>. QED
        BY <1>1, <1>3, <2>1, <4>5, BlockEquality
    <3>2. CASE ~Inside(p, a)
      BY <2>1, <3>2, AboveChain
    <3>. QED
      BY <3>1, <3>2
  <2>. QED
    BY <1>3, <2>1, <2>2 DEF Passed, StrictlyInside
<1>4. ASSUME NEW a \in Passed(n, p) PROVE a \in Passed(n, q)
  <2>1. a \in Above(n) /\ a \in Block /\ a \in tree /\ Inside(a, p) /\ a # p
    BY TreeNodes DEF Passed, StrictlyInside, Above
  <2>2. Inside(a, q) /\ a # q
    BY <1>1, <2>1, InsideTransitive, InsideOrder
  <2>. QED
    BY <2>1, <2>2 DEF Passed, StrictlyInside
<1>5. p # n => p \in Passed(n, q)
  BY <1>1 DEF Passed, StrictlyInside
<1>6. n \notin Passed(n, q)
  BY DEF Passed, Above
<1>. QED
  BY <1>2, <1>3, <1>4, <1>5, <1>6

(* Coalesce comes to p: what it passed is what it should have, with no use *)
(* left.                                                                   *)
Comes(n, p) ==
    /\ p \in Above(n) \cup {n}
    /\ Passed(n, p) \subseteq Coalesced(n)
    /\ \A a \in Passed(n, p) : count[a] <= 1

(* With p passed as well.                                                  *)
PassedWith(n, p) == Passed(n, p) \cup (IF p = n THEN {} ELSE {p})

(* What is passed lies strictly inside p, above n.                         *)
LEMMA PassedFacts ==
    ASSUME TypeOK, NEW n \in tree, NEW p \in Above(n) \cup {n}
    PROVE  /\ p \in tree /\ p \in Block /\ p \in Nodes /\ n \in Block /\ Inside(n, p)
           /\ count[p] \in Nat
           /\ Passed(n, p) \subseteq tree /\ PassedWith(n, p) \subseteq tree
           /\ \A a \in Passed(n, p) : /\ a \in Block /\ a # n /\ a # p
                                      /\ Inside(a, p) /\ Inside(n, a) /\ a \in Above(n)
           /\ p \notin Passed(n, p) /\ n \notin Passed(n, p)
           /\ Passed(n, n) = {}
           /\ \A a \in PassedWith(n, p) : p \notin Below(a)
<1>1. p \in tree /\ p \in Block /\ p \in Nodes /\ n \in Block /\ Inside(n, p) /\ count[p] \in Nat
  BY TreeNodes, InsideOrder DEF Above
<1>2. ASSUME NEW q \in tree, NEW a \in Passed(n, q)
      PROVE  /\ a \in Block /\ a \in tree /\ a # n /\ a # q /\ Inside(a, q) /\ Inside(n, a)
             /\ a \in Above(n)
  BY <1>2, TreeNodes DEF Passed, StrictlyInside, Above
<1>3. Passed(n, n) = {}
  <2>1. ASSUME NEW a \in Passed(n, n) PROVE FALSE
    BY <1>1, <1>2, InsideOrder
  <2>. QED
    BY <2>1
<1>4. ASSUME NEW a \in PassedWith(n, p) PROVE p \notin Below(a)
  <2>1. a = p \/ a \in Passed(n, p)
    BY DEF PassedWith
  <2>. QED
    BY <1>1, <1>2, <2>1, InsideOrder DEF Below
<1>. QED
  BY <1>1, <1>2, <1>3, <1>4 DEF PassedWith

(* A child of p is not below what lies in p.                               *)
LEMMA ChildOnTop ==
    ASSUME TypeOK, TreeShape, NEW p \in tree, NEW d \in Children(p) \cap tree,
           NEW a \in tree, Inside(a, p), a # p
    PROVE  d \notin Below(a)
<1>1. p \in Block /\ d \in Block /\ a \in Block
  BY TreeNodes
<1>2. PICK e \in Children(p) : Inside(a, e) /\ Children(p) \subseteq tree
  BY BelowInChild DEF Children
<1>3. e \in Block /\ d.size = e.size
  BY <1>1, <1>2, TreeNodes, ChildInside
<1>4. /\ d.off \in Nat /\ d.size \in Nat /\ a.off \in Nat /\ a.size \in Nat
      /\ e.off \in Nat /\ e.size \in Nat
  BY <1>1, <1>3, BlockFields
<1>5. Inside(a, e)
  BY <1>2
<1>6. ASSUME Inside(d, a) PROVE d = a
  <2>1. d.off = a.off /\ d.size = a.size
    BY <1>3, <1>4, <1>5, <1>6 DEF Inside
  <2>. QED
    BY <1>1, <2>1, BlockEquality
<1>. QED
  BY <1>6 DEF Below

(* Deleting what is in p and taking one use from it.                       *)
LEMMA MergeFreed ==
    ASSUME TypeOK, NEW n \in tree, Leaf(n), count[n] = 1, NEW p \in Above(n) \cup {n}
    PROVE  Merge(p, Freed(n, Passed(n, p))) = Freed(n, PassedWith(n, p))
<1> DEFINE U == Passed(n, p)
           W == PassedWith(n, p)
           h == Freed(n, U)
<1>1. /\ p \in tree /\ p \in Nodes /\ count[p] \in Nat /\ p \notin U /\ n \notin U
      /\ \A a \in U : p \notin Below(a)
      /\ \A a \in W : p \notin Below(a)
      /\ p \in Block /\ n \in Block
  BY PassedFacts DEF PassedWith
<1>2. W = U \cup (IF p = n THEN {} ELSE {p})
  BY DEF PassedWith
<1>3. Merge(p, h) = [m \in Nodes |-> IF m = p THEN IF Delete(p, h)[p] > 0
                                                   THEN Delete(p, h)[p] - 1 ELSE 0
                                     ELSE Delete(p, h)[m]]
  <2>1. DOMAIN Delete(p, h) = Nodes
    BY DEF Delete
  <2>. QED
    BY <2>1 DEF Merge, SetFree
<1>4. \A m \in Nodes : Delete(p, h)[m] = IF StrictlyInside(m, p) THEN nullptr ELSE h[m]
  BY DEF Delete
<1>5. \A m \in Nodes :
        h[m] = IF m \notin tree \/ \E a \in U : m \in Below(a) THEN nullptr
               ELSE IF m \in U \cup {n} /\ count[m] > 0 THEN count[m] - 1 ELSE count[m]
  BY DEF Freed
<1>6. \A m \in Nodes :
        Freed(n, W)[m] = IF m \notin tree \/ \E a \in W : m \in Below(a) THEN nullptr
                         ELSE IF m \in W \cup {n} /\ count[m] > 0 THEN count[m] - 1 ELSE count[m]
  BY DEF Freed
<1> HIDE DEF U, W, h
<1>7. ASSUME NEW m \in Nodes
      PROVE  (IF m = p THEN IF Delete(p, h)[p] > 0 THEN Delete(p, h)[p] - 1 ELSE 0
              ELSE Delete(p, h)[m]) = Freed(n, W)[m]
  <2>1. CASE m = p
    <3>1. ~StrictlyInside(p, p) /\ p \in W \cup {n}
      BY <1>2 DEF StrictlyInside
    <3>2. Delete(p, h)[p] = h[p]
      BY <1>1, <1>4, <3>1
    <3>3. h[p] = IF p = n THEN 0 ELSE count[p]
      BY <1>1, <1>5
    <3>4. Freed(n, W)[p] = IF count[p] > 0 THEN count[p] - 1 ELSE count[p]
      BY <1>1, <1>6, <3>1
    <3>. QED
      BY <1>1, <2>1, <3>2, <3>3, <3>4
  <2>2. CASE m # p /\ StrictlyInside(m, p)
    <3>1. Delete(p, h)[m] = nullptr
      BY <1>4, <2>2
    <3>2. CASE m \notin tree
      BY <1>6, <2>2, <3>1, <3>2
    <3>3. CASE m \in tree
      <4>1. m \in Below(p)
        BY <2>2, <3>3 DEF Below, StrictlyInside
      <4>2. p # n
        BY <4>1 DEF Leaf
      <4>. QED
        BY <1>2, <1>6, <2>2, <3>1, <4>1, <4>2
    <3>. QED
      BY <3>2, <3>3
  <2>3. CASE m # p /\ ~StrictlyInside(m, p)
    <3>1. m \notin Below(p)
      BY <2>3 DEF Below, StrictlyInside
    <3>2. (\E a \in W : m \in Below(a)) <=> (\E a \in U : m \in Below(a))
      BY <1>2, <3>1
    <3>3. m \in W \cup {n} <=> m \in U \cup {n}
      BY <1>2, <2>3
    <3>. QED
      BY <1>4, <1>5, <1>6, <2>3, <3>2, <3>3
  <2>. QED
    BY <2>1, <2>2, <2>3
<1>8. Freed(n, W) = [m \in Nodes |-> Freed(n, W)[m]]
  BY DEF Freed
<1>9. Merge(p, h) = Freed(n, W)
  BY <1>3, <1>7, <1>8
<1>. QED
  BY <1>9 DEF U, W, h

(* A child in use stops Coalesce, and what it passed is what it should.    *)
LEMMA ClimbStops ==
    ASSUME IInv, NEW n \in tree, Leaf(n), count[n] = 1, NEW p, Comes(n, p),
           NEW s \in Children(p), Exists(s, Freed(n, Passed(n, p))),
           Freed(n, Passed(n, p))[s] > 0
    PROVE  Coalesced(n) = Passed(n, p)
<1> DEFINE U == Passed(n, p)
<1>0. TypeOK /\ TreeShape /\ p \in Above(n) \cup {n}
  BY DEF IInv, Comes
<1>1. /\ p \in tree /\ p \in Block /\ U \subseteq tree /\ U \subseteq Coalesced(n)
      /\ \A a \in U : count[a] <= 1
  BY <1>0, PassedFacts DEF Comes
<1>2. s \in tree /\ s \in Nodes /\ s \in Block /\ count[s] \in Nat /\ \A a \in U : s \notin Below(a)
  BY <1>0, <1>1, FreedHeap, TreeNodes
<1>3. Inside(s, p) /\ s # p
  BY <1>1, ChildInside
<1>4. Freed(n, U)[s] = IF s \in U \cup {n} /\ count[s] > 0 THEN count[s] - 1 ELSE count[s]
  BY <1>2 DEF Freed
<1>5. s \notin U \cup {n} /\ count[s] > 0
  BY <1>1, <1>2, <1>4
<1>6. ~Inside(n, s)
  <2>1. ASSUME Inside(n, s) PROVE s \in U
    BY <1>2, <1>3, <1>5, <2>1 DEF Passed, StrictlyInside, Above
  <2>. QED
    BY <1>5, <2>1
<1>7. ASSUME NEW a \in Coalesced(n) PROVE a \in U
  <2>1. a \in Above(n) /\ a \in tree /\ a \in Block
    BY <1>0, TreeNodes DEF Coalesced, Above
  <2>2. ~Inside(p, a)
    <3>1. ASSUME Inside(p, a) PROVE FALSE
      <4>1. Inside(s, a)
        BY <1>1, <1>2, <1>3, <2>1, <3>1, InsideTransitive
      <4>2. s # a
        BY <1>1, <1>2, <1>3, <3>1, InsideOrder
      <4>3. s \in Below(a)
        BY <1>2, <4>1, <4>2 DEF Below
      <4>4. count[s] <= 0
        BY <1>6, <4>3 DEF Coalesced
      <4>. QED
        BY <1>2, <1>5, <4>4
    <3>. QED
      BY <3>1
  <2>3. Inside(a, p)
    BY <1>0, <2>1, <2>2, AboveChain
  <2>4. a # p
    BY <1>1, <2>2, InsideOrder
  <2>. QED
    BY <2>1, <2>3, <2>4 DEF Passed, StrictlyInside
<1> HIDE DEF U
<1>8. Coalesced(n) = U
  BY <1>1, <1>7
<1>. QED
  BY <1>8 DEF U

(* Where no child is in use Coalesce belongs.                              *)
LEMMA ClimbPasses ==
    ASSUME IInv, NEW n \in tree, Leaf(n), count[n] = 1, NEW p, Comes(n, p), p # n,
           \A s \in Children(p) : Exists(s, Freed(n, Passed(n, p)))
                                      => ~(Freed(n, Passed(n, p))[s] > 0)
    PROVE  p \in Coalesced(n)
<1> DEFINE U == Passed(n, p)
<1>0. TypeOK /\ TreeShape /\ p \in Above(n)
  BY DEF IInv, Comes
<1>1. /\ p \in tree /\ p \in Block /\ U \subseteq tree /\ U \subseteq Coalesced(n)
      /\ \A a \in U : count[a] <= 1
      /\ \A a \in U : Inside(a, p) /\ a # p
  BY <1>0, PassedFacts DEF Comes
<1>2. ASSUME NEW m \in Below(p) PROVE count[m] <= IF Inside(n, m) THEN 1 ELSE 0
  <2>1. m \in tree /\ m # p /\ Inside(m, p) /\ count[m] \in Nat
    BY <1>0, TreeNodes DEF Below
  <2>2. PICK d \in Children(p) : Inside(m, d) /\ Children(p) \subseteq tree
    BY <1>0, <1>1, <2>1, BelowInChild DEF Children
  <2>3. d \in tree /\ d \in Nodes /\ d \in Block /\ count[d] \in Nat /\ Inside(d, p) /\ d # p
    BY <1>0, <1>1, <2>2, TreeNodes, ChildInside
  <2>4. \A a \in U : d \notin Below(a)
    BY <1>0, <1>1, <2>2, ChildOnTop
  <2>5. Exists(d, Freed(n, U))
    BY <1>0, <1>1, <2>3, <2>4, FreedHeap
  <2>6. Freed(n, U)[d] = IF d \in U \cup {n} /\ count[d] > 0 THEN count[d] - 1 ELSE count[d]
    BY <2>3, <2>4 DEF Freed
  <2>7. ~(Freed(n, U)[d] > 0)
    BY <2>2, <2>5
  <2>8. CASE Inside(n, d)
    <3>1. d \in U \cup {n}
      BY <2>3, <2>8 DEF Passed, StrictlyInside, Above
    <3>2. count[d] <= 1
      BY <1>1, <3>1
    <3>3. CASE m = d
      BY <2>8, <3>2, <3>3
    <3>4. CASE m # d
      <4>1. m \in Below(d)
        BY <2>1, <2>2, <3>4 DEF Below
      <4>2. d # n
        BY <4>1 DEF Leaf
      <4>3. d \in Coalesced(n)
        BY <1>1, <3>1, <4>2
      <4>. QED
        BY <4>1, <4>3 DEF Coalesced
    <3>. QED
      BY <3>3, <3>4
  <2>9. CASE ~Inside(n, d)
    <3>1. d \notin U \cup {n}
      BY <1>0, <2>3, <2>9, PassedFacts, InsideOrder
    <3>2. count[d] = 0
      BY <2>3, <2>6, <2>7, <3>1
    <3>3. Leaf(d)
      BY <2>3, <3>2 DEF IInv, FreeNodeIsLeaf, InUse
    <3>4. m = d
      BY <2>1, <2>2, <3>3 DEF Leaf, Below
    <3>. QED
      BY <3>2, <3>4
  <2>. QED
    BY <2>8, <2>9
<1>. QED
  BY <1>0, <1>2 DEF Coalesced

(* Coalesce from p leaves the tree FreeNode leaves.                        *)
Arrives(n, p) == Coalesce[<<p, Freed(n, Passed(n, p))>>] = Freed(n, Coalesced(n))

(* One step of Coalesce: it stops with the right heap, or comes to the     *)
(* parent.                                                                 *)
LEMMA ClimbStep ==
    ASSUME IInv, NEW n \in tree, Leaf(n), count[n] = 1, NEW p, Comes(n, p),
           \A q \in tree : p \in Children(q) /\ Comes(n, q) => Arrives(n, q)
    PROVE  Arrives(n, p)
<1> DEFINE h == Freed(n, Passed(n, p))
           merged == Freed(n, PassedWith(n, p))
<1>0. TypeOK /\ TreeShape /\ p \in Above(n) \cup {n}
  BY DEF IInv, Comes
<1>1. /\ p \in tree /\ p \in Nodes /\ p \in Block /\ n \in Block /\ count[p] \in Nat
      /\ Inside(n, p)
      /\ Passed(n, p) \subseteq tree /\ PassedWith(n, p) \subseteq tree
      /\ \A a \in PassedWith(n, p) : p \notin Below(a)
      /\ \A a \in PassedWith(n, p) : a \in Block /\ Inside(a, p)
  BY <1>0, PassedFacts, InsideOrder DEF PassedWith
<1>2. h \in Heap /\ Merge(p, h) = merged
  BY <1>0, <1>1, FreedHeap, MergeFreed
<1>3. \A m : Exists(m, merged) <=> m \in tree /\ \A a \in PassedWith(n, p) : m \notin Below(a)
  BY <1>0, <1>1, FreedHeap
<1>4. Coalesce[<<p, h>>] = CoalesceOver(Coalesce, p, h)
  BY <1>1, <1>2, CoalesceUnfold
<1>5. CASE \E s \in Children(p) : Exists(s, h) /\ h[s] > 0
  <2>1. Coalesce[<<p, h>>] = h
    BY <1>4, <1>5 DEF CoalesceOver
  <2>2. Coalesced(n) = Passed(n, p)
    BY <1>5, ClimbStops
  <2>. QED
    BY <2>1, <2>2 DEF Arrives
<1>6. CASE ~(\E s \in Children(p) : Exists(s, h) /\ h[s] > 0)
  <2>1. p # n => p \in Coalesced(n)
    BY <1>6, ClimbPasses
  <2>2. PassedWith(n, p) \subseteq Coalesced(n)
    BY <2>1 DEF PassedWith, Comes
  <2>3. Coalesce[<<p, h>>] =
          IF Parents(p, merged) = {} \/ merged[p] > 0 THEN merged
          ELSE Coalesce[<<CHOOSE q \in Parents(p, merged) : TRUE, merged>>]
    BY <1>2, <1>4, <1>6 DEF CoalesceOver
  <2>4. merged[p] = IF p \in PassedWith(n, p) \cup {n} /\ count[p] > 0
                    THEN count[p] - 1 ELSE count[p]
    BY <1>1 DEF Freed
  <2>5. p \in PassedWith(n, p) \cup {n}
    BY DEF PassedWith
  <2> HIDE DEF h, merged
  <2>6. CASE Parents(p, merged) = {} \/ merged[p] > 0
    <3>1. ASSUME NEW a \in Coalesced(n), a \notin PassedWith(n, p) PROVE FALSE
      <4>1. a \in Above(n) /\ a \in tree /\ a \in Block /\ a # n
        BY <1>0, TreeNodes DEF Coalesced, Above
      <4>2. a # p
        BY <3>1, <4>1 DEF PassedWith
      <4>3. ~Inside(a, p)
        BY <3>1, <4>1, <4>2 DEF PassedWith, Passed, StrictlyInside
      <4>4. Inside(p, a)
        BY <1>0, <4>1, <4>3, AboveChain
      <4>5. a \in Above(p) /\ p \in Below(a)
        BY <1>1, <4>1, <4>2, <4>4 DEF Above, Below
      <4>6. count[p] <= 1
        BY <1>1, <3>1, <4>5 DEF Coalesced
      <4>7. ~(merged[p] > 0)
        BY <1>1, <2>4, <2>5, <4>6
      <4>8. PICK q \in Above(p) : p \in Children(q)
        BY <1>0, <1>1, <4>5, ParentExists
      <4>9. q \in tree /\ q \in Block /\ q # p /\ Inside(p, q)
        BY <1>0, TreeNodes DEF Above
      <4>10. ASSUME NEW b \in PassedWith(n, p), q \in Below(b) PROVE FALSE
        <5>1. Inside(q, b) /\ b \in Block /\ Inside(b, p)
          BY <1>1, <4>10 DEF Below
        <5>2. Inside(q, p)
          BY <1>1, <4>9, <5>1, InsideTransitive
        <5>. QED
          BY <1>1, <4>9, <5>2, InsideOrder
      <4>11. q \in Parents(p, merged)
        BY <1>0, <1>3, <4>8, <4>9, <4>10, TreeNodes DEF Parents
      <4>. QED
        BY <2>6, <4>7, <4>11
    <3>2. Coalesced(n) = PassedWith(n, p)
      BY <2>2, <3>1
    <3>. QED
      BY <2>3, <2>6, <3>2 DEF Arrives, h, merged
  <2>7. CASE ~(Parents(p, merged) = {} \/ merged[p] > 0)
    <3>1. PICK q \in Parents(p, merged) : q = CHOOSE x \in Parents(p, merged) : TRUE
      BY <2>7
    <3>2. q \in tree /\ p \in Children(q)
      BY <1>3, <3>1 DEF Parents
    <3>3. q \in Above(n) /\ Passed(n, q) = PassedWith(n, p)
      BY <1>0, <3>2, PassedParent DEF PassedWith
    <3>4. count[p] <= 1
      BY <1>1, <2>4, <2>5, <2>7
    <3>5. Comes(n, q)
      BY <2>2, <3>3, <3>4 DEF Comes, PassedWith
    <3>6. Arrives(n, q)
      BY <3>2, <3>5
    <3>7. Coalesce[<<q, merged>>] = Freed(n, Coalesced(n))
      BY <3>3, <3>6 DEF Arrives, merged
    <3>. QED
      BY <2>3, <2>7, <3>1, <3>7 DEF Arrives, h
  <2>. QED
    BY <2>6, <2>7
<1>. QED
  BY <1>5, <1>6

(* So Coalesce comes to an end with the right heap, from the freed block.  *)
LEMMA ClimbArrives ==
    ASSUME IInv, NEW n \in tree, Leaf(n), count[n] = 1
    PROVE  Coalesce[<<n, Freed(n, {})>>] = Freed(n, Coalesced(n))
<1> DEFINE T == {k \in Nat : \A p : Comes(n, p) /\ BackingSize - p.size < k => Arrives(n, p)}
<1>0. TypeOK /\ BackingSize \in Nat
  BY SizesAssumption DEF IInv
<1>1. ASSUME NEW p, Comes(n, p)
      PROVE  p \in tree /\ p \in Block /\ p.size \in Nat /\ p.size <= BackingSize
  <2>1. p \in tree /\ p \in Block /\ p \in Nodes
    BY <1>0, <1>1, PassedFacts DEF Comes
  <2>. QED
    BY <2>1, NodeFields
<1>2. 0 \in T
  <2>1. ASSUME NEW p, Comes(n, p) PROVE ~(BackingSize - p.size < 0)
    BY <1>0, <1>1, <2>1
  <2>. QED
    BY <2>1
<1>3. ASSUME NEW k \in Nat, k \in T PROVE k + 1 \in T
  <2>1. ASSUME NEW p, Comes(n, p), BackingSize - p.size < k + 1 PROVE Arrives(n, p)
    <3>1. ASSUME NEW q \in tree, p \in Children(q), Comes(n, q) PROVE Arrives(n, q)
      <4>1. q \in Block /\ q.size \in Nat /\ p.size \in Nat
        BY <1>1, <2>1, <3>1
      <4>2. p.size < q.size
        BY <3>1, <4>1, ChildInside
      <4>3. BackingSize - q.size < k
        BY <1>0, <2>1, <4>1, <4>2
      <4>. QED
        BY <1>3, <3>1, <4>3
    <3>. QED
      BY <2>1, <3>1, ClimbStep
  <2>. QED
    BY <2>1
<1>4. \A k \in Nat : k \in T
  <2> HIDE DEF T
  <2>. QED
    BY <1>2, <1>3, SetInduction
<1>5. Passed(n, n) = {}
  BY <1>0, PassedFacts
<1>6. Comes(n, n)
  BY <1>5 DEF Comes
<1>7. Arrives(n, n)
  <2>1. BackingSize - n.size + 1 \in Nat /\ BackingSize - n.size < BackingSize - n.size + 1
    BY <1>0, <1>1, <1>6
  <2>2. BackingSize - n.size + 1 \in T
    BY <1>4, <2>1
  <2>. QED
    BY <1>6, <2>1, <2>2
<1>. QED
  BY <1>5, <1>7 DEF Arrives

(* The heap left is the one of FreeNode.                                   *)
LEMMA FreedTree ==
    ASSUME TypeOK, NEW n \in tree, Leaf(n)
    PROVE  Freed(n, Coalesced(n)) = HeapOf(CountAfterFree(n))
<1>1. \A m \in Nodes :
        m \in TreeAfterFree(n) <=> m \in tree /\ ~(\E a \in Coalesced(n) : m \in Below(a))
  BY DEF TreeAfterFree, Merged, Leaf
<1>2. ASSUME NEW m \in Nodes
      PROVE  Freed(n, Coalesced(n))[m] = HeapOf(CountAfterFree(n))[m]
  <2>1. HeapOf(CountAfterFree(n))[m] =
          IF m \in TreeAfterFree(n)
          THEN IF (m = n \/ m \in Coalesced(n)) /\ count[m] > 0 THEN count[m] - 1 ELSE count[m]
          ELSE nullptr
    BY DEF HeapOf, CountAfterFree
  <2>. QED
    BY <1>1, <2>1 DEF Freed
<1>3. /\ Freed(n, Coalesced(n)) = [m \in Nodes |-> Freed(n, Coalesced(n))[m]]
      /\ HeapOf(CountAfterFree(n)) = [m \in Nodes |-> HeapOf(CountAfterFree(n))[m]]
  BY DEF Freed, HeapOf
<1>. QED
  BY <1>2, <1>3

(* The walk frees what FreeNode frees.                                     *)
LEMMA FreesAgree == IInv => FreeAgrees
<1> SUFFICES ASSUME IInv, NEW r \in Regions, live[r] # NoBlock
             PROVE  WalkFree(live[r]) = HeapOf(CountAfterFree(live[r]))
  BY DEF FreeAgrees
<1> DEFINE n == live[r]
           freed == SetFree(n, HeapOf(count))
<1>0. TypeOK
  BY DEF IInv
<1>1. n \in tree /\ InUse(n) /\ Leaf(n)
  BY DEF IInv, LiveBlockIsLeaf
<1> HIDE DEF n
<1>2. n \in Nodes /\ n \in Block /\ count[n] \in Nat /\ count[n] > 0
  BY <1>0, <1>1, TreeNodes DEF InUse
<1>3. freed = Freed(n, {})
  <2>1. DOMAIN HeapOf(count) = Nodes
    BY DEF HeapOf
  <2>2. freed = [m \in Nodes |-> IF m = n
                                 THEN IF HeapOf(count)[n] > 0 THEN HeapOf(count)[n] - 1 ELSE 0
                                 ELSE HeapOf(count)[m]]
    BY <2>1 DEF SetFree
  <2>3. \A m \in Nodes : HeapOf(count)[m] = IF m \in tree THEN count[m] ELSE nullptr
    BY DEF HeapOf, tree
  <2>4. ASSUME NEW m \in Nodes
        PROVE  (IF m = n THEN IF HeapOf(count)[n] > 0 THEN HeapOf(count)[n] - 1 ELSE 0
                ELSE HeapOf(count)[m]) = Freed(n, {})[m]
    <3>1. Freed(n, {})[m] = IF m \notin tree THEN nullptr
                            ELSE IF m = n /\ count[m] > 0 THEN count[m] - 1 ELSE count[m]
      BY DEF Freed
    <3>. QED
      BY <1>1, <1>2, <2>3, <3>1
  <2>5. Freed(n, {}) = [m \in Nodes |-> Freed(n, {})[m]]
    BY DEF Freed
  <2>. QED
    BY <2>2, <2>4, <2>5
<1>4. freed[n] = count[n] - 1
  BY <1>1, <1>2, <1>3 DEF Freed
<1> HIDE DEF freed
<1>5. WalkFree(n) = IF freed[n] = 0 THEN Coalesce[<<n, freed>>] ELSE freed
  BY DEF WalkFree, freed
<1>6. CASE count[n] = 1
  <2>1. Coalesce[<<n, Freed(n, {})>>] = Freed(n, Coalesced(n))
    BY <1>1, <1>6, ClimbArrives
  <2>. QED
    BY <1>0, <1>1, <1>3, <1>4, <1>5, <1>6, <2>1, FreedTree DEF n
<1>7. CASE count[n] # 1
  <2>1. ASSUME NEW a \in Coalesced(n) PROVE FALSE
    <3>1. n \in Below(a) /\ Inside(n, n)
      BY <1>1, <1>2, InsideOrder DEF Coalesced, Above, Below
    <3>2. count[n] <= 1
      BY <3>1 DEF Coalesced
    <3>. QED
      BY <1>2, <1>7, <3>2
  <2>2. Coalesced(n) = {}
    BY <2>1
  <2>3. freed[n] # 0
    BY <1>2, <1>4, <1>7
  <2>. QED
    BY <1>0, <1>1, <1>3, <1>5, <2>2, <2>3, FreedTree DEF n
<1>. QED
  BY <1>6, <1>7

(* The root is never deleted.                                              *)
LEMMA RootStays == IInv /\ Root \in tree /\ [Next]_vars => (Root \in tree)'
<1> SUFFICES ASSUME IInv, Root \in tree, [Next]_vars PROVE Root \in tree'
  OBVIOUS
<1>0. TypeOK
  BY DEF IInv
<1>1. ASSUME NEW a \in tree PROVE Root \notin Below(a)
  <2>1. a \in Block /\ Root \in Block /\ a.off \in Nat /\ a.size \in Nat
        /\ a.off + a.size <= BackingSize /\ BackingSize \in Nat
    BY <1>0, TreeNodes, BlockFields, SizesAssumption DEF TypeOK
  <2>2. Inside(a, Root)
    BY <2>1 DEF Inside, Root
  <2>. QED
    BY <2>1, <2>2, InsideOrder DEF Below
<1>2. CASE UNCHANGED vars
  BY <1>2 DEF vars, tree
<1>3. ASSUME NEW r \in Regions, NEW request \in Requests, AllocNode(r, request)
      PROVE  Root \in tree'
  <2>1. CASE UNCHANGED vars
    BY <2>1 DEF vars, tree
  <2>2. CASE ~UNCHANGED vars
    <3>1. PICK size \in Sizes : \E b \in Reached(size) : count' = CountAfterAlloc(b, size)
      BY <1>3, <2>2, AllocCases
    <3>2. PICK b \in Reached(size) : count' = CountAfterAlloc(b, size)
      BY <3>1
    <3>3. Root \notin Below(b)
      BY <1>0, <1>1, ReachedFacts
    <3>4. tree' = TreeAfterAlloc(b, size)
      BY <3>2 DEF tree, CountAfterAlloc
    <3>. QED
      BY <3>3, <3>4 DEF TreeAfterAlloc, Overwritten
  <2>. QED
    BY <2>1, <2>2
<1>4. ASSUME NEW r \in Regions, NEW q \in Regions, FindAndIncNode(r, q) PROVE Root \in tree'
  BY <1>4 DEF FindAndIncNode, tree
<1>5. ASSUME NEW r \in Regions, FreeNode(r) PROVE Root \in tree'
  <2> DEFINE n == FindNode(live[r].off)
  <2>1. n = live[r] /\ live[r] # NoBlock /\ count' = CountAfterFree(n)
    BY <1>5, FindNodeFinds DEF FreeNode
  <2>2. n \in tree
    BY <2>1 DEF IInv, LiveBlockIsLeaf
  <2> HIDE DEF n
  <2>3. tree' = TreeAfterFree(n)
    BY <2>1 DEF tree, CountAfterFree
  <2>4. Merged(n) \subseteq tree
    BY <2>2 DEF Merged, Coalesced, Above
  <2>. QED
    BY <1>1, <2>3, <2>4 DEF TreeAfterFree
<1>. QED
  BY <1>2, <1>3, <1>4, <1>5 DEF Next

(* In every tree the allocator can be in, for every backing size, the      *)
(* recursive walks of the code reach the blocks, and leave the tree, that  *)
(* the specification of AllocNode, FindNode and FreeNode says: first fit   *)
(* by descent, a failed search without a trace, coalescing by climbing.    *)
THEOREM WalksFollowPointers == Spec => []WalksAgree
<1>1. Init => IInv /\ Root \in tree
  BY InitInvariant DEF Init, tree
<1>2. IInv /\ Root \in tree /\ [Next]_vars => (IInv /\ Root \in tree)'
  BY NextInvariant, RootStays
<1>3. IInv /\ Root \in tree => WalksAgree
  BY AllocsAgree, FindsAgree, FreesAgree DEF WalksAgree
<1>. QED
  BY <1>1, <1>2, <1>3, PTL DEF Spec
=============================================================================
