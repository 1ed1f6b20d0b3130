-------------------------- MODULE MCBuddyAllocator --------------------------
(* BuddyAllocator and its walks on small trees.                            *)
EXTENDS BuddyWalk, TLC

(* Regions are handles without an order: permuting them changes nothing.   *)
RegionSymmetry == Permutations(Regions)
=============================================================================
