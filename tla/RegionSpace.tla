----------------------------- MODULE RegionSpace -----------------------------
(***************************************************************************)
(* What the backing-memory allocator of the runtime promises its caller.   *)
(*                                                                         *)
(* The backing memory is [0, BackingSize).  A region handle holds at most  *)
(* one block of it.  A new block is handed out only where nothing is held; *)
(* the only way for two handles to hold the same bytes is to share a whole *)
(* block (CloneEphemeralRegion).  Where a block is placed, when blocks are *)
(* split or merged and when a request fails are left to the implementation.*)
(***************************************************************************)
EXTENDS Integers

CONSTANTS Regions,      \* the handles a client may hold
          Sizes,        \* the block sizes that exist
          BackingSize   \* bytes of backing memory

VARIABLE held           \* held[r]: the block of handle r, or Nothing

Nothing == [off |-> 0, size |-> 0]

(* A block of one of the sizes that lies in the backing memory.            *)
Blocks == {b \in [off : 0 .. BackingSize, size : Sizes] :
              b.off + b.size <= BackingSize}

Disjoint(m, n) == m.off + m.size <= n.off \/ n.off + n.size <= m.off

-----------------------------------------------------------------------------
Init == held = [r \in Regions |-> Nothing]

(* A free handle receives a block that touches nothing held.               *)
Grant(r) ==
    /\ held[r] = Nothing
    /\ \E b \in Blocks :
          /\ \A q \in Regions : held[q] # Nothing => Disjoint(b, held[q])
          /\ held' = [held EXCEPT ![r] = b]

(* A free handle joins the block of another handle.                        *)
Share(r, q) ==
    /\ held[r] = Nothing
    /\ held[q] # Nothing
    /\ held' = [held EXCEPT ![r] = held[q]]

Release(r) ==
    /\ held[r] # Nothing
    /\ held' = [held EXCEPT ![r] = Nothing]

Next == \E r \in Regions :
           \/ Grant(r)
           \/ \E q \in Regions : Share(r, q)
           \/ Release(r)

Spec == Init /\ [][Next]_held
=============================================================================
