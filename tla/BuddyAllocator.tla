--------------------------- MODULE BuddyAllocator ---------------------------
(***************************************************************************)
(* DTL::BuddyNode and DTL::BuddyAllocator (dtl_api.cpp): the binary tree   *)
(* that hands out blocks of the backing memory.                            *)
(*                                                                         *)
(* A node of the tree is the record of its m_TrackedOffset and             *)
(* m_TrackedSize, which no two nodes share; the pointers follow from the   *)
(* arithmetic of Split().  count maps every node that exists to its        *)
(* m_IsFree, which is a use count: 0 means free.  The recursive walks of   *)
(* the code are stated by what they reach; module BuddyWalk follows the    *)
(* pointers and shows that both agree.                                     *)
(*                                                                         *)
(* live is the client's side, the offset each EphemeralRegion remembers.   *)
(* It is a record of the calls made and decides nothing in the allocator.  *)
(***************************************************************************)
EXTENDS Integers, FiniteSets

CONSTANTS Regions,      \* the EphemeralRegion objects a client may hold
          Sizes,        \* the powers of two from MinBlock to BackingSize
          MinBlock,     \* 0x100000 in AllocNode
          BackingSize,  \* realBackingSize of the API constructor
          Requests,     \* the sizes a client asks for
          MaxCount      \* bound: the root's use count stops here

ASSUME SizesAssumption ==
    /\ Sizes \subseteq Nat \ {0}
    /\ MinBlock \in Sizes
    /\ BackingSize \in Sizes
    /\ \A s \in Sizes : MinBlock <= s /\ s <= BackingSize
    /\ \A s \in Sizes \ {MinBlock} : s \div 2 \in Sizes /\ 2 * (s \div 2) = s
    /\ \A s, t \in Sizes : s < t => 2 * s <= t

\* AllocateRegion asserts that a request is no larger than the backing memory.
ASSUME RequestsAssumption == Requests \subseteq 0 .. BackingSize

ASSUME RegionsAssumption == IsFiniteSet(Regions)

ASSUME MaxCountAssumption == MaxCount \in Nat

VARIABLES count,        \* node of the tree -> m_IsFree
          live          \* live[r]: the block of region r, or NoBlock

vars == <<count, live>>

-----------------------------------------------------------------------------
(* Nodes and the tree they form.                                           *)

Block == [off : Nat, size : Sizes]

NoBlock == [off |-> 0, size |-> 0]

Root == [off |-> 0, size |-> BackingSize]

tree == DOMAIN count

InUse(n) == count[n] > 0

Inside(m, n) == n.off <= m.off /\ m.off + m.size <= n.off + n.size

Disjoint(m, n) == m.off + m.size <= n.off \/ n.off + n.size <= m.off

(* The two nodes Split() creates.                                          *)
Left(n)  == [off |-> n.off, size |-> n.size \div 2]
Right(n) == [off |-> n.off + n.size \div 2, size |-> n.size \div 2]
Children(n) == {Left(n), Right(n)}

Above(n) == {a \in tree : a # n /\ Inside(n, a)}
Below(n) == {d \in tree : d # n /\ Inside(d, n)}
Leaf(n)  == Below(n) = {}

-----------------------------------------------------------------------------
(* AllocNode: the size class, the first fit, the splits down to it.        *)

SizeClass(request) ==
    CHOOSE s \in Sizes : /\ request <= s
                         /\ \A t \in Sizes : request <= t => s <= t

(* The search goes down through nodes in use and stops at the first free   *)
(* node on each way; it turns back where the node is too small.            *)
Reached(size) ==
    {b \in tree : /\ ~InUse(b)
                  /\ size <= b.size
                  /\ \A a \in Above(b) : InUse(a)}

(* Left children are searched before right ones.                           *)
FirstFit(size) == CHOOSE b \in Reached(size) :
                     \A c \in Reached(size) : b.off <= c.off

(* Splitting b down to size: the nodes on the way, all at b's offset, and  *)
(* the right halves that stay free.                                        *)
Spine(b, size)  == [off : {b.off}, size : {s \in Sizes : size <= s /\ s <= b.size}]
(* Fault: the split loop runs once too often. *)
HalvesOneTooMany(b, size) ==
    {[off |-> b.off + s, size |-> s] : s \in {t \in Sizes : size <= t /\ t <= b.size}}

Halves(b, size) == {[off |-> b.off + s, size |-> s] :
                       s \in {t \in Sizes : size <= t /\ t < b.size}}

(* Split() overwrites both child pointers of the node it divides.          *)
Overwritten(b, size) == IF b.size = size THEN {} ELSE Below(b)

TreeAfterAlloc(b, size) ==
    (tree \ Overwritten(b, size)) \cup Spine(b, size) \cup Halves(b, size)

(* SetInUse() on every node from the allocated one back up to the root.    *)
CountAfterAlloc(b, size) ==
    [n \in TreeAfterAlloc(b, size) |->
        IF n \in Spine(b, size) THEN 1
        ELSE IF n \in Halves(b, size) THEN 0
        ELSE IF n \in Above(b) THEN count[n] + 1
        ELSE count[n]]

Allocated(b, size) == [off |-> b.off, size |-> size]

AllocNode(r, request) ==
    LET size == SizeClass(request) IN
    /\ live[r] = NoBlock
    /\ IF Reached(size) = {}
       THEN UNCHANGED vars                  \* BUDDY_ALLOC_FAILURE
       ELSE /\ count[Root] < MaxCount
            /\ count' = CountAfterAlloc(FirstFit(size), size)
            /\ live' = [live EXCEPT ![r] = Allocated(FirstFit(size), size)]

-----------------------------------------------------------------------------
(* FindNode, FindAndIncNode and FreeNode: a block is named by its offset.  *)

(* Fault: FindNode takes the first node in use at the offset. *)
StopsAtFirst(offset) == {n \in tree : n.off = offset /\ InUse(n)}

(* Where FindNode stops: a node in use at that offset that has no child,   *)
(* or two free ones.                                                       *)
Stops(offset) ==
    {n \in tree : /\ n.off = offset
                  /\ InUse(n)
                  /\ \/ Children(n) \cap tree = {}
                     \/ \A c \in Children(n) : c \in tree /\ ~InUse(c)}

FindNode(offset) ==
    IF Stops(offset) = {} THEN NoBlock      \* nullptr
    ELSE CHOOSE n \in Stops(offset) :
            \A m \in Stops(offset) : m.size <= n.size

(* Fault: a clone does not count itself. *)
FindNodeOnly(r, q) ==
    LET n == FindNode(live[q].off) IN
    /\ live[r] = NoBlock
    /\ live[q] # NoBlock
    /\ n # NoBlock
    /\ count' = count
    /\ live' = [live EXCEPT ![r] = live[q]]

(* CloneEphemeralRegion increments the found node and no node above it.    *)
FindAndIncNode(r, q) ==
    LET n == FindNode(live[q].off) IN
    /\ live[r] = NoBlock
    /\ live[q] # NoBlock
    /\ n # NoBlock
    /\ count' = [count EXCEPT ![n] = @ + 1]
    /\ live' = [live EXCEPT ![r] = live[q]]

(* Coalesce() climbs from a node that became free for as long as the other *)
(* child is free and the node it leaves went down to 0: each node a it     *)
(* reaches has nothing in use below it but the path to n, every node of    *)
(* which had one use left.                                                 *)
Coalesced(n) ==
    {a \in Above(n) :
        \A m \in Below(a) : count[m] <= IF Inside(n, m) THEN 1 ELSE 0}

(* Nodes whose children Coalesce() deletes.                                *)
Merged(n) == Coalesced(n) \cup IF count[n] = 1 THEN {n} ELSE {}

(* Fault: Coalesce() forgets to delete the children. *)
TreeAfterFreeKept(n) == tree

TreeAfterFree(n) == tree \ UNION {Below(a) : a \in Merged(n)}

(* Fault: SetFree() clears the count that clones share. *)
CountAfterFreeCleared(n) ==
    [m \in TreeAfterFree(n) |->
        IF m = n THEN 0
        ELSE IF m \in Coalesced(n) /\ count[m] > 0 THEN count[m] - 1 ELSE count[m]]

(* SetFree() on n and on every node Coalesce() reaches, never below 0.     *)
CountAfterFree(n) ==
    [m \in TreeAfterFree(n) |->
        IF (m = n \/ m \in Coalesced(n)) /\ count[m] > 0
        THEN count[m] - 1 ELSE count[m]]

FreeNode(r) ==
    LET n == FindNode(live[r].off) IN
    /\ live[r] # NoBlock
    /\ n # NoBlock
    /\ count' = CountAfterFree(n)
    /\ live' = [live EXCEPT ![r] = NoBlock]

-----------------------------------------------------------------------------
Init == /\ count = [n \in {Root} |-> 0]
        /\ live = [r \in Regions |-> NoBlock]

Next == \E r \in Regions :
           \/ \E request \in Requests : AllocNode(r, request)
           \/ \E q \in Regions : FindAndIncNode(r, q)
           \/ FreeNode(r)

Spec == Init /\ [][Next]_vars

-----------------------------------------------------------------------------
(* Properties.                                                             *)

(* Every node is a block inside the backing memory with a use count, every *)
(* region holds a block or none.                                           *)
TypeOK ==
    /\ count \in [tree -> Nat]
    /\ tree \subseteq Block
    /\ \A n \in tree : n.off + n.size <= BackingSize
    /\ live \in [Regions -> Block \cup {NoBlock}]

(* The blocks of two regions are the same (one was cloned from the other)  *)
(* or have no byte in common: AllocNode never hands out memory that some   *)
(* region still uses, in whatever order blocks were split and merged.      *)
LiveBlocksDisjoint ==
    \A r, q \in Regions :
        \/ live[r] = NoBlock
        \/ live[q] = NoBlock
        \/ live[r] = live[q]
        \/ Disjoint(live[r], live[q])

(* A region's offset leads FindNode back to the very block the region was  *)
(* given, although nodes above it can have the same offset: the asserts of *)
(* FreeNode and FindAndIncNode hold and no other block is released.        *)
OffsetNamesBlock ==
    \A r \in Regions : live[r] # NoBlock => FindNode(live[r].off) = live[r]

(* The use count of a block in use by regions is the number of regions     *)
(* that share it, so the last FreeNode and no earlier one releases it.     *)
ShareCountExact ==
    \A r \in Regions :
        live[r] # NoBlock =>
            count[live[r]] = Cardinality({q \in Regions : live[q] = live[r]})

(* A free node has no node below it.  FindAndAllocFreeNode relies on it:   *)
(* Split() would cut off the subtree of a free node that had one.          *)
FreeNodeIsLeaf == \A n \in tree : ~InUse(n) => Leaf(n)

(* Two nodes are disjoint or one lies in a child of the other, and a node  *)
(* with a node below it has both its children.                             *)
TreeShape ==
    \A m, n \in tree :
        \/ Disjoint(m, n)
        \/ Inside(n, m)
        \/ /\ Inside(m, n)
           /\ Children(n) \subseteq tree
           /\ \E c \in Children(n) : Inside(m, c)

(* No order of splits, clones, frees and merges leaves a tree that the     *)
(* next split would damage or in which two nodes overlap.                  *)
TreeWellFormed == FreeNodeIsLeaf /\ TreeShape

(* The block of a region is a node in use that no split went through.      *)
LiveBlockIsLeaf ==
    \A r \in Regions :
        live[r] # NoBlock => live[r] \in tree /\ InUse(live[r]) /\ Leaf(live[r])

(* The inductive invariant.                                                *)
IInv == /\ TypeOK
        /\ TreeShape
        /\ FreeNodeIsLeaf
        /\ LiveBlockIsLeaf
        /\ ShareCountExact

(* What the comments on m_IsFree say: the count of a node without children *)
(* is the number of regions that use it.  The code breaks it: a parent     *)
(* gains one use for each block allocated below it and loses one for all   *)
(* of them when they are merged, so it stays in use with no region in it.  *)
InUseLeafHasRegion ==
    \A n \in tree : InUse(n) /\ Leaf(n) => \E r \in Regions : live[r] = n

Space == INSTANCE RegionSpace WITH held <- live

(* The allocator implements the abstract space: a block handed out is      *)
(* inside the backing memory and touches nothing held.                     *)
ImplementsRegionSpace == Space!Spec
=============================================================================
