------------------------------- MODULE MCBio --------------------------------
(* Small instances of Bio for TLC.                                         *)
EXTENDS Bio

\* The root disk is disk 1; with HW4_ide2, a disk of the second controller.
UsedBlocks ==
  [ide |-> {1} \X Sector, ide2 |-> {2} \X {1, 2}, memide |-> {1} \X {1, 3}]
=============================================================================
