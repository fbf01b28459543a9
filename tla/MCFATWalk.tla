----------------------------- MODULE MCFATWalk -----------------------------
(* Instances of FATWalk for TLC.                                           *)
EXTENDS FATWalk, MCFAT
=============================================================================
