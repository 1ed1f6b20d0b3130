------------------------------ MODULE BuddyWalk ------------------------------
(***************************************************************************)
(* The recursive walks of BuddyNode and BuddyAllocator, pointer by         *)
(* pointer.  Module BuddyAllocator says what these walks reach; here they  *)
(* are followed in the order of the code, over every tree the allocator    *)
(* can be in, and must leave the same tree with the same use counts.       *)
(*                                                                         *)
(* A walk carries the heap along: the m_IsFree of every node that exists,  *)
(* nullptr for the others.  A pointer is the offset and size of the node   *)
(* it should lead to, and is null when the heap has no such node.          *)
(***************************************************************************)
EXTENDS BuddyAllocator

nullptr == -1

Nodes    == [off : 0 .. BackingSize - 1, size : Sizes]
Pointers == [off : Nat, size : Nat]
Heap     == [Nodes -> Nat \cup {nullptr}]

Exists(n, h) == n \in Nodes /\ h[n] # nullptr

HeapOf(c) == [n \in Nodes |-> IF n \in DOMAIN c THEN c[n] ELSE nullptr]

StrictlyInside(m, n) == m # n /\ Inside(m, n)

Delete(n, h) == [m \in Nodes |-> IF StrictlyInside(m, n) THEN nullptr ELSE h[m]]

(* Fault: a flag instead of a count, as before regions could be cloned. *)
SetFreeFlag(n, h)  == [h EXCEPT ![n] = 0]

SetInUse(n, h) == [h EXCEPT ![n] = @ + 1]
SetFree(n, h)  == [h EXCEPT ![n] = IF @ > 0 THEN @ - 1 ELSE 0]

(* Two fresh children; what the old pointers led to is lost.               *)
Split(n, h) == [m \in Nodes |-> IF m \in Children(n) THEN 0 ELSE Delete(n, h)[m]]

-----------------------------------------------------------------------------
(* FindAndAllocFreeNode: the block found, or NoBlock, and the heap left.   *)
FindAndAllocFreeNode[a \in Sizes \X Pointers \X Heap] ==
    LET size == a[1]  n == a[2]  h == a[3] IN
    IF ~Exists(n, h) \/ n.size < size THEN [block |-> NoBlock, heap |-> h]
    ELSE IF h[n] = 0 /\ n.size = size
         THEN [block |-> n, heap |-> SetInUse(n, h)]
    ELSE LET start == IF h[n] = 0 THEN Split(n, h) ELSE h
             left  == FindAndAllocFreeNode[<<size, Left(n), start>>]
             right == FindAndAllocFreeNode[<<size, Right(n), left.heap>>]
             found == IF left.block # NoBlock THEN left ELSE right
         IN IF found.block = NoBlock THEN found
            ELSE [block |-> found.block, heap |-> SetInUse(n, found.heap)]

WalkFindNode[a \in Nat \X Pointers] ==
    LET offset == a[1]  n == a[2] IN
    IF n \notin tree \/ offset > n.off + n.size THEN NoBlock
    ELSE IF /\ offset = n.off
            /\ InUse(n)
            /\ \/ Children(n) \cap tree = {}
               \/ \A c \in Children(n) : c \in tree /\ ~InUse(c)
         THEN n
    ELSE IF offset = n.off \/ offset < n.off + n.size \div 2
         THEN WalkFindNode[<<offset, Left(n)>>]
         ELSE WalkFindNode[<<offset, Right(n)>>]

(* m_Parent: the node whose pointer leads to n, the root has none.         *)
Parents(n, h) == {p \in Nodes : Exists(p, h) /\ n \in Children(p)}

(* Coalesce on n: if no child is in use, delete the children, take one use *)
(* from n and go on with the parent once n is free.                        *)
Merge(n, h) == SetFree(n, Delete(n, h))

Coalesce[a \in Nodes \X Heap] ==
    LET n == a[1]  h == a[2] IN
    IF \E child \in Children(n) : Exists(child, h) /\ h[child] > 0 THEN h
    ELSE IF Parents(n, Merge(n, h)) = {} \/ Merge(n, h)[n] > 0 THEN Merge(n, h)
    ELSE Coalesce[<<CHOOSE p \in Parents(n, Merge(n, h)) : TRUE, Merge(n, h)>>]

WalkFree(n) ==
    LET freed == SetFree(n, HeapOf(count)) IN
    IF freed[n] = 0 THEN Coalesce[<<n, freed>>] ELSE freed

-----------------------------------------------------------------------------
AllocAgrees ==
    \A request \in Requests :
        LET size == SizeClass(request)
            walk == FindAndAllocFreeNode[<<size, Root, HeapOf(count)>>]
        IN walk = IF Reached(size) = {}
                  THEN [block |-> NoBlock, heap |-> HeapOf(count)]
                  ELSE [block |-> Allocated(FirstFit(size), size),
                        heap |-> HeapOf(CountAfterAlloc(FirstFit(size), size))]

FindAgrees ==
    \A offset \in 0 .. BackingSize - 1 :
        WalkFindNode[<<offset, Root>>] = FindNode(offset)

FreeAgrees ==
    \A r \in Regions :
        live[r] # NoBlock => WalkFree(live[r]) = HeapOf(CountAfterFree(live[r]))

(* In every tree the allocator can be in, the walks do what the sets say.  *)
(* FindAndAllocFreeNode allocates the block and leaves the tree of         *)
(* AllocNode, and changes nothing when it fails: a search that turned back *)
(* leaves no split node and no use count behind.  FindNode finds the node, *)
(* or none, for every offset, a region's or not.  Freeing a block and      *)
(* coalescing upwards leaves the tree of FreeNode.                         *)
WalksAgree == AllocAgrees /\ FindAgrees /\ FreeAgrees
=============================================================================
