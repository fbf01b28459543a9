---------------------------- MODULE VolumeProofs ----------------------------
(***************************************************************************)
(* LayoutSound of Volume for every parameter block: what validate accepts, *)
(* if its sums fit u32 and its tables hold its clusters, keeps the         *)
(* reserved sectors, the table, its copy and the clusters apart.           *)
(***************************************************************************)
EXTENDS Volume, TLAPS

-----------------------------------------------------------------------------
(* Division and remainder.                                                 *)

\* A sum that fits u32 is not wrapped.
LEMMA NotWrapped ==
    ASSUME NEW x \in Nat, x < U32Mod
    PROVE  Wrapped(x) = x
<1>1. U32Mod \in Nat \ {0}
    BY BootAssumption DEF BootAssumption
<1> QED
    BY <1>1, SMT DEF Wrapped

\* A sector holds at least one entry, and a whole number of them; the id of an
\* entry of the first n sectors is in one of them.
LEMMA EntryInSector ==
    ASSUME NEW b, IsParameterBlock(b), ValidBytesPerSector(b),
           NEW n \in Nat, NEW c \in Nat, c < n * EntriesPerSector(b)
    PROVE  c \div EntriesPerSector(b) \in 0 .. n - 1
<1>1. b.bytes \in {4, 8, 16, 32, 64, 128, 256, 512, 1024, 2048, 4096}
    BY BootAssumption DEF BootAssumption, ValidBytesPerSector, PowersOfTwo, IsParameterBlock
<1>2. EntriesPerSector(b) \in {1, 2, 4, 8, 16, 32, 64, 128, 256, 512, 1024}
    BY <1>1 DEF EntriesPerSector, BYTES_PER_ENTRY
<1> QED
    BY <1>2, SMT

\* With no root entries the root takes no sectors before the data.
LEMMA NoRootSectors ==
    ASSUME NEW b, IsParameterBlock(b), ValidFat32(b), ValidBytesPerSector(b)
    PROVE  RootDirSectors(b) = 0
<1>1. b.bytes \in {4, 8, 16, 32, 64, 128, 256, 512, 1024, 2048, 4096}
    BY BootAssumption DEF BootAssumption, ValidBytesPerSector, PowersOfTwo, IsParameterBlock
<1>2. b.rootEntries = 0
    BY DEF ValidFat32
<1> QED
    BY <1>1, <1>2, SMT DEF RootDirSectors, DIRENT_SZ

-----------------------------------------------------------------------------
(* The layout.                                                             *)

\* Without a wrap the regions follow each other: reserved sectors, tables, data.
LEMMA Regions ==
    ASSUME NEW b, IsParameterBlock(b), Validate(b), NoWrap(b)
    PROVE  /\ FirstFatsSector(b) = b.reserved
           /\ FirstBackupFatsSector(b) = b.reserved + b.fatSectors
           /\ FirstDataSector(b) = b.reserved + b.fats * b.fatSectors
<1>1. b.fats \in {1, 2} /\ b.fatSectors \in Nat /\ b.reserved \in Nat
    BY DEF Validate, ValidFats, IsParameterBlock
<1>2. b.reserved + b.fats * b.fatSectors < U32Mod
    BY DEF NoWrap
<1>3. /\ b.fats * b.fatSectors \in Nat
      /\ b.fatSectors <= b.fats * b.fatSectors
      /\ U32Mod \in Nat
    <2>1. CASE b.fats = 1
        BY <1>1, <2>1, BootAssumption, SMT DEF BootAssumption
    <2>2. CASE b.fats = 2
        BY <1>1, <2>2, BootAssumption, SMT DEF BootAssumption
    <2> QED
        BY <1>1, <2>1, <2>2
<1> DEFINE all == b.fats * b.fatSectors
<1>4. /\ all \in Nat /\ all < U32Mod
      /\ b.reserved + b.fatSectors \in Nat /\ b.reserved + b.fatSectors < U32Mod
      /\ b.reserved + all \in Nat /\ b.reserved + all < U32Mod
    <2> HIDE DEF all
    <2> QED
        BY <1>1, <1>2, <1>3, SMT DEF all
<1>5. SectorsPerAllFats(b) = all /\ FirstBackupFatsSector(b) = b.reserved + b.fatSectors
    BY <1>4, NotWrapped DEF SectorsPerAllFats, FirstBackupFatsSector
<1>6. RootDirSectors(b) = 0
    BY NoRootSectors DEF Validate
<1>7. b.reserved + all + 0 = b.reserved + all
    BY <1>1, <1>4, SMT
<1>8. FirstDataSector(b) = b.reserved + all
    BY <1>4, <1>5, <1>6, <1>7, NotWrapped DEF FirstDataSector
<1> QED
    BY <1>5, <1>8 DEF FirstFatsSector

\* The data region has room for all clusters.
LEMMA ClustersFit ==
    ASSUME NEW b, IsParameterBlock(b), Validate(b), NoWrap(b)
    PROVE  /\ TotalClusters(b) \in Nat
           /\ FirstDataSector(b) + TotalClusters(b) * b.spc <= b.total
<1>1. b.spc \in {1, 2, 4, 8, 16, 32, 64, 128}
    BY DEF Validate, ValidSpc, PowersOfTwo, IsParameterBlock
<1>2. FirstDataSector(b) \in Nat /\ b.total \in Nat /\ b.total < U32Mod /\ U32Mod \in Nat
    <2>1. b.fats \in {1, 2} /\ b.fatSectors \in Nat /\ b.reserved \in Nat
        BY DEF Validate, ValidFats, IsParameterBlock
    <2> QED
        BY <2>1, Regions, BootAssumption, SMT DEF BootAssumption, IsParameterBlock
<1>3. b.total > FirstDataSector(b)
    BY DEF Validate, ValidTotal
<1>4. Wrapped(b.total - FirstDataSector(b)) = b.total - FirstDataSector(b)
    BY <1>2, <1>3, NotWrapped, SMT
<1>5. TotalClusters(b) = (b.total - FirstDataSector(b)) \div b.spc
    BY <1>4 DEF TotalClusters
<1> QED
    BY <1>1, <1>2, <1>3, <1>5, SMT

\* Each region of a volume that validates lies where no other one does.
LEMMA ValidLayout ==
    ASSUME NEW b, IsParameterBlock(b), Validate(b), NoWrap(b), TableHolds(b)
    PROVE  SoundLayout(b)
<1> DEFINE F == FirstDataSector(b)
           T == TotalClusters(b)
<1>1. /\ b.fats \in {1, 2} /\ b.fatSectors \in Nat /\ b.reserved \in Nat
      /\ b.spc \in {1, 2, 4, 8, 16, 32, 64, 128} /\ b.total \in Nat
      /\ b.fsinfo \in Nat /\ b.backupBoot \in Nat
    BY BootAssumption, SMT
       DEF BootAssumption, Validate, ValidFats, ValidSpc, PowersOfTwo, IsParameterBlock
<1>2. b.fsinfo < b.reserved /\ b.backupBoot < b.reserved
    BY DEF Validate, ValidReserved
<1>3. F = b.reserved + b.fats * b.fatSectors
    BY Regions
<1>4. T \in Nat /\ F + T * b.spc <= b.total
    BY ClustersFit
<1>5. ASSUME NEW c \in DataIds(b)
      PROVE  /\ Position(b, c).fat \in FirstFatsSector(b) .. FirstBackupFatsSector(b) - 1
             /\ b.fats = 2 => Position(b, c).backup \in FirstBackupFatsSector(b) .. F - 1
    <2>1. c \in Nat /\ c < b.fatSectors * EntriesPerSector(b)
        <3> DEFINE entries == b.fatSectors * EntriesPerSector(b)
        <3>1. 2 + T <= entries /\ c \in 2 .. 2 + T - 1
            BY DEF TableHolds, DataIds, FirstCluster
        <3>2. entries \in Int
            <4>1. b.bytes \div 4 \in Int
                BY SMT DEF IsParameterBlock
            <4> QED
                BY <1>1, <4>1, SMT DEF EntriesPerSector, BYTES_PER_ENTRY
        <3> HIDE DEF entries, T
        <3>3. c \in Nat /\ c < entries
            BY <1>4, <3>1, <3>2, SMT
        <3> QED
            BY <3>3 DEF entries
    <2>2. c \div EntriesPerSector(b) \in 0 .. b.fatSectors - 1
        BY <1>1, <2>1, EntryInSector DEF Validate
    <2> HIDE DEF F
    <2> QED
        BY <1>1, <1>3, <2>2, Regions, SMT DEF Position, F
<1>6. ASSUME NEW c \in DataIds(b), NEW s \in ClusterSectors(b, c)
      PROVE  s \in F .. b.total - 1
    <2>1. c - 2 \in 0 .. T - 1
        BY <1>4, SMT DEF DataIds, FirstCluster
    <2>2. F \in Nat
        BY <1>1, <1>3, SMT
    <2>3. s \in (c - 2) * b.spc + F .. (c - 2) * b.spc + F + b.spc - 1
        BY DEF ClusterSectors, FirstCluster
    <2> HIDE DEF F, T
    <2> QED
        BY <1>1, <1>4, <2>1, <2>2, <2>3, SMT
<1> QED
    BY <1>1, <1>2, <1>5, <1>6, Regions DEF SoundLayout

-----------------------------------------------------------------------------
(* The theorem.                                                            *)

\* No step changes the parameter block.
LEMMA BlockStays == Next => UNCHANGED bpb
<1> SUFFICES ASSUME Next PROVE UNCHANGED bpb
    OBVIOUS
<1>1. ASSUME NEW p, Alloc(p) PROVE UNCHANGED bpb
    BY <1>1 DEF Alloc, Begin
<1>2. ASSUME NEW h, Free(h) PROVE UNCHANGED bpb
    BY <1>2 DEF Free, Begin
<1>3. CASE SetFirst
    BY <1>3 DEF SetFirst, Panic
<1>4. CASE SetSecond
    BY <1>4 DEF SetSecond, Panic
<1>5. ASSUME NEW s, Evict(s) PROVE UNCHANGED bpb
    BY <1>5 DEF Evict
<1>6. CASE Close \/ Closed \/ Mount \/ Crash
    BY <1>6 DEF Close, Closed, Mount, Crash
<1> QED
    BY <1>1, <1>2, <1>3, <1>4, <1>5, <1>6 DEF Next

\* The regions of every volume that validate accepts lie apart and on the device,
\* for every width of the sums, every size of sector and every parameter block
\* (boot_sector.rs:170-182, 201-228, fat.rs:60-67).
THEOREM LayoutsAreSound == Spec => []LayoutSound
<1> DEFINE Inv == IsParameterBlock(bpb)
<1>1. Init => Inv
    BY VolumeAssumption DEF Init, InitFormatted, InitBlank, VolumeAssumption
<1>2. Inv /\ [Next]_vars => Inv'
    <2> SUFFICES ASSUME Inv, [Next]_vars PROVE Inv'
        OBVIOUS
    <2>1. bpb' = bpb
        BY BlockStays DEF vars
    <2> QED
        BY <2>1 DEF IsParameterBlock
<1>3. Inv => LayoutSound
    BY ValidLayout DEF LayoutSound
<1> QED
    BY <1>1, <1>2, <1>3, PTL DEF Spec
=============================================================================
