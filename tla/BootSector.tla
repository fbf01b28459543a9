---------------------------- MODULE BootSector -----------------------------
(***************************************************************************)
(* The BIOS parameter block of src/boot_sector.rs: the checks `validate`   *)
(* makes of it, and where the table, its copy and the data clusters lie    *)
(* (src/fat.rs, src/cluster_cache.rs).                                     *)
(*                                                                         *)
(* A parameter block is a record: bytes per sector, sectors per cluster    *)
(* (spc), reserved sectors, number of tables (fats), sectors per table     *)
(* (fatSectors), all sectors (total), root entries, the sectors of FSInfo  *)
(* and of the spare boot sector, and whether signature, label and the      *)
(* fields FAT32 sets to 0 are right (fat32).  The sums are those of u32.   *)
(***************************************************************************)
EXTENDS Integers

CONSTANTS
    U32Mod,                \* 2^32
    MinSector, MaxSector,  \* 512 and 4096
    MaxCluster             \* MAX_CLUS_SZ

ASSUME BootAssumption ==
    /\ U32Mod \in Nat \ {0}
    /\ MinSector \in Nat /\ MinSector >= 4    \* at least one entry
    /\ MaxSector \in Nat /\ MaxCluster \in Nat

\* The fields are unsigned; the total is a u32.
IsParameterBlock(b) ==
    /\ b.bytes \in Nat /\ b.spc \in Nat /\ b.reserved \in Nat /\ b.fats \in Nat
    /\ b.fatSectors \in Nat /\ b.total \in 0 .. U32Mod - 1 /\ b.rootEntries \in Nat
    /\ b.fsinfo \in Nat /\ b.backupBoot \in Nat /\ b.fat32 \in BOOLEAN

BYTES_PER_ENTRY == 4
DIRENT_SZ       == 32
FirstCluster    == 2     \* START_CLUS_ID

Wrapped(x) == x % U32Mod

-----------------------------------------------------------------------------
(* The layout.                                                             *)

RootDirSectors(b) == (b.rootEntries * DIRENT_SZ + b.bytes - 1) \div b.bytes

SectorsPerAllFats(b) == Wrapped(b.fats * b.fatSectors)

\* Mutant: one table is counted where there may be two.
FirstDataSectorOneFat(b) == Wrapped(b.reserved + b.fatSectors + RootDirSectors(b))

FirstDataSector(b) == Wrapped(b.reserved + SectorsPerAllFats(b) + RootDirSectors(b))

FirstFatsSector(b)       == b.reserved
FirstBackupFatsSector(b) == Wrapped(b.reserved + b.fatSectors)

TotalClusters(b) == Wrapped(b.total - FirstDataSector(b)) \div b.spc

EntriesPerSector(b) == b.bytes \div BYTES_PER_ENTRY

\* Mutant: the copy starts at the data.
PositionAtData(b, c) ==
    [fat    |-> FirstFatsSector(b) + c \div EntriesPerSector(b),
     backup |-> FirstDataSector(b) + c \div EntriesPerSector(b),
     offset |-> c % EntriesPerSector(b)]

\* FATManager::position, with the offset in entries.
Position(b, c) ==
    [fat    |-> FirstFatsSector(b) + c \div EntriesPerSector(b),
     backup |-> FirstBackupFatsSector(b) + c \div EntriesPerSector(b),
     offset |-> c % EntriesPerSector(b)]

\* Where ClusterCache reads and writes cluster c.
ClusterSectors(b, c) ==
    LET start == (c - FirstCluster) * b.spc + FirstDataSector(b)
    IN  start .. start + b.spc - 1

-----------------------------------------------------------------------------
(* validate.                                                               *)

PowersOfTwo == {1, 2, 4, 8, 16, 32, 64, 128, 256, 512, 1024, 2048, 4096}

ValidFat32(b)          == b.fat32 /\ b.rootEntries = 0
ValidBytesPerSector(b) == b.bytes \in PowersOfTwo \cap MinSector .. MaxSector
ValidSpc(b)            == b.spc \in PowersOfTwo \cap 1 .. 128
ValidClusterSize(b)    == b.spc * b.bytes <= MaxCluster
ValidReserved(b) ==
    b.reserved >= 1 /\ b.backupBoot < b.reserved /\ b.fsinfo < b.reserved
ValidFats(b) == b.fats \in {1, 2}
\* Mutant: the total is compared with the reserved sectors alone.
ValidTotalReserved(b) == b.total # 0 /\ b.total > b.reserved
ValidTotal(b)      == b.total # 0 /\ b.total > FirstDataSector(b)
ValidFatSectors(b) == b.fatSectors # 0
\* FAT32_MAX_CLUSTERS.  A table too small for the clusters is noticed, and let pass.
ValidTotalClusters(b) == TotalClusters(b) <= 268435444

\* BootSector::validate.  RunFileSystem::new logs a failure and goes on.
Validate(b) ==
    /\ ValidFat32(b) /\ ValidBytesPerSector(b) /\ ValidSpc(b) /\ ValidClusterSize(b)
    /\ ValidReserved(b) /\ ValidFats(b) /\ ValidTotal(b) /\ ValidFatSectors(b)
    /\ ValidTotalClusters(b)

-----------------------------------------------------------------------------
(* What validate leaves to the disk.                                       *)

NoWrap(b) == b.reserved + b.fats * b.fatSectors < U32Mod

\* Every cluster has its entry in each table.
TableHolds(b) ==
    FirstCluster + TotalClusters(b) <= b.fatSectors * EntriesPerSector(b)

DataIds(b) == FirstCluster .. FirstCluster + TotalClusters(b) - 1

\* The regions of a volume do not overlap and lie on the device.
SoundLayout(b) ==
    /\ b.fsinfo < FirstFatsSector(b) /\ b.backupBoot < FirstFatsSector(b)
    /\ \A c \in DataIds(b) :
        LET p == Position(b, c) IN
        /\ p.fat \in FirstFatsSector(b) .. FirstBackupFatsSector(b) - 1
        /\ b.fats = 2 => p.backup \in FirstBackupFatsSector(b) .. FirstDataSector(b) - 1
        /\ \A s \in ClusterSectors(b, c) : s \in FirstDataSector(b) .. b.total - 1
=============================================================================
