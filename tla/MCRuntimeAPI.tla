---------------------------- MODULE MCRuntimeAPI ----------------------------
(* RuntimeAPI with few regions, over two kinds of hardware: with fewer     *)
(* configurations than bitmap bits, where a shortage fails the assert of   *)
(* AllocateConfig, and with as many, where it returns -1.                  *)
EXTENDS RuntimeAPI, TLC

VARIABLE spare      \* whether the bitmap has bits of no configuration

Full == INSTANCE RuntimeAPI WITH ConfigBits <- MaxConfigs

MCInit == spare \in BOOLEAN /\ APIInit

MCNext == /\ \/ spare /\ APINext
             \/ ~spare /\ Full!APINext
          /\ UNCHANGED spare

MCSpec == MCInit /\ [][MCNext]_<<apiVars, spare>>

(* Regions, programs and pages have no order: permuting them changes       *)
(* nothing.                                                                *)
APISymmetry == Permutations(Regions) \cup Permutations(Programs) \cup Permutations(Pages)
=============================================================================
