------------------------------- MODULE MCFAT -------------------------------
(* Instances of FAT for TLC.                                               *)
EXTENDS FAT

\* Every hint validate_and_fix treats differently, but EndCluster.
MCHints == 0 .. EndCluster - 1 \cup {U32Max}
\* The same with EndCluster, which validate_and_fix lets pass.
MCAllHints == MCHints \cup {EndCluster}
MCExact == {0}
MCStale == {-1, 0, 1}
=============================================================================
