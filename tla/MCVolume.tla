------------------------------ MODULE MCVolume ------------------------------
(* Instances of Volume for TLC: sectors of 8 or 16 bytes, that is of two or *)
(* four entries, and u32 of 8 bits.                                         *)
EXTENDS Volume

Bpb(bytes, spc, reserved, fats, fatSectors, total, root) ==
    [bytes |-> bytes, spc |-> spc, reserved |-> reserved, fats |-> fats,
     fatSectors |-> fatSectors, total |-> total, rootEntries |-> root,
     fsinfo |-> IF reserved = 0 THEN 0 ELSE reserved - 1, backupBoot |-> 0, fat32 |-> TRUE]

\* Three clusters with their entries in two sectors, or one sector per table,
\* and one table.
MCBootSectors ==
    {Bpb(8, 1, 2, 2, 3, 11, 0), Bpb(16, 2, 1, 2, 2, 9, 0), Bpb(8, 1, 1, 1, 3, 7, 0)}

MCLayouts ==
    {Bpb(bytes, spc, reserved, fats, fatSectors, total, root) :
        bytes \in {4, 8, 12, 16}, spc \in 0 .. 3, reserved \in 0 .. 2, fats \in 0 .. 3,
        fatSectors \in {0, 1, 2, 127, 128}, total \in {0} \cup 3 .. 9, root \in {0, 1}}
=============================================================================
