------------------------- MODULE VolumeTableProofs -------------------------
(***************************************************************************)
(* Proofs about the two tables and FSInfo of Volume, for every parameter   *)
(* block validate accepts, every well-formed table on the device and every *)
(* number of calls between two mounts.                                     *)
(*                                                                         *)
(* The argument has three layers.  Geometry: entries of different clusters *)
(* lie in different places, the tables do not meet each other nor FSInfo.  *)
(* Sectors: what get_cache gives changes only where a write puts an entry, *)
(* whatever is evicted.  Plans: the writes a call has still to make keep   *)
(* the table well-formed one by one, in the order the code makes them, and *)
(* change the number of free clusters by what was counted at once.         *)
(***************************************************************************)
EXTENDS VolumeProofs, SequenceTheorems, FiniteSetTheorems

Offsets == 0 .. EntriesPerSector(bpb) - 1
Entries == {FREE, END} \cup Clusters

Fat(c) == Position(bpb, c).fat
Bak(c) == Position(bpb, c).backup
Off(c) == Position(bpb, c).offset

\* Where the entries lie.
Geometry ==
    /\ bpb.fats \in {1, 2}
    /\ IsFiniteSet(Clusters) /\ Cardinality(Clusters) < U32Mod
    /\ 0 \in Offsets /\ bpb.fsinfo \in InfoSectors
    /\ \A c \in Clusters :
        /\ c \in Nat /\ c # FREE /\ c # END
        /\ Fat(c) \in InfoSectors /\ Off(c) \in Offsets
        /\ Fat(c) # bpb.fsinfo /\ Bak(c) # bpb.fsinfo
        /\ bpb.fats = 2 <=> Bak(c) \in InfoSectors
    /\ \A c, d \in Clusters :
        /\ Fat(c) # Bak(d)
        /\ Fat(c) = Fat(d) <=> Bak(c) = Bak(d)
        /\ Fat(c) = Fat(d) /\ Off(c) = Off(d) => c = d

-----------------------------------------------------------------------------
(* The invariant.                                                          *)

Writes == [id : Clusters, value : Entries]

\* What the running call has still to write into the first table.
Pending == IF copy = 2 THEN Tail(todo) ELSE todo

Unreferenced(t, c) == \A d \in DOMAIN t : t[d] # c

Allocates(t, w) ==
    /\ Len(w) \in {1, 2} /\ w[1].value = END /\ t[w[1].id] = FREE
    /\ Len(w) = 2 => w[2].value = w[1].id /\ t[w[2].id] = END

Links(t, w) ==
    /\ Len(w) = 1 /\ t[w[1].id] = END
    /\ w[1].value \in DOMAIN t /\ w[1].value # w[1].id
    /\ t[w[1].value] = END /\ Unreferenced(t, w[1].value)

Frees(t, w) ==
    /\ Len(w) >= 1 /\ Unreferenced(t, w[1].id)
    /\ \A i \in 1 .. Len(w) : w[i].value = FREE /\ t[w[i].id] # FREE
    /\ \A i \in 1 .. Len(w) - 1 : t[w[i].id] = w[i + 1].id
    /\ \A i, j \in 1 .. Len(w) : w[i].id = w[j].id => i = j

Plan(t, w) == w = <<>> \/ Allocates(t, w) \/ Links(t, w) \/ Frees(t, w)

\* By how much the writes change the number of free clusters.
Delta(w) ==
    IF w = <<>> THEN 0
    ELSE IF w[1].value = END THEN -1
    ELSE IF w[1].value = FREE THEN Len(w)
    ELSE 0

FreeCount(t) == Cardinality(FreeOf(t))

Counts == 0 .. U32Mod - 1

Shape ==
    /\ pc \in {"off", "up", "closing", "panicked"}
    /\ count \in Counts /\ calls \in 0 .. MaxCalls
    /\ copy \in {1, 2} /\ (copy = 2 => todo # <<>>)
    /\ todo \in Seq(Writes) /\ (pc # "up" /\ pc # "panicked" => todo = <<>>)
    /\ disk \in [InfoSectors -> [Offsets -> Nat]]
    /\ DOMAIN buf \subseteq InfoSectors /\ buf \in [DOMAIN buf -> [Offsets -> Nat]]
    /\ pc = "off" => buf = <<>>
    /\ table \in [Clusters -> Entries]
    /\ crashes \in 0 .. MaxCrashes

\* What the sectors hold, as get_cache gives them.
Holds ==
    /\ \A c \in Clusters : Entry(c) = table[c]
    /\ bpb.fats = 2 /\ ~crashed =>
        \A c \in Clusters :
            \/ copy = 2 /\ c = Head(todo).id
            \/ BackupEntry(c) = Entry(c)
    /\ copy = 2 => table[Head(todo).id] = Head(todo).value
    /\ Sector(bpb.fsinfo)[0] \in Counts
    /\ pc = "panicked" => bpb.fats = 1

NoDangling(t) == \A c \in DOMAIN t : t[c] \in DOMAIN t => t[t[c]] # FREE

\* The same of links that stay in a sector of the table.
NoDanglingWithin(t) ==
    \A c \in Clusters : t[c] \in Clusters /\ Fat(c) = Fat(t[c]) => t[t[c]] # FREE

BackupView == [c \in Clusters |-> BackupEntry(c)]

\* What the device holds.
Stored ==
    /\ disk[bpb.fsinfo][0] \in Counts
    /\ OnDisk(1) \in [Clusters -> Entries] /\ NoDanglingWithin(OnDisk(1))
    /\ bpb.fats = 2 /\ ~crashed =>
        NoDangling(BackupView) /\ NoDanglingWithin(OnDisk(2))

Counted ==
    ~crashed =>
        /\ pc = "up" => count = FreeCount(table) + Delta(Pending)
        /\ pc \in {"closing", "off"} => Sector(bpb.fsinfo)[0] = FreeCount(table)

Planned ==
    /\ pc \in {"up", "closing"} \/ (pc = "off" /\ ~crashed) => WellFormed(table)
    /\ pc = "up" => Plan(table, Pending)

Working == Geometry /\ Shape /\ Holds /\ Stored /\ Counted /\ Planned

\* A device of which only the parameter block is looked at.
Blank ==
    /\ pc = "blank" /\ buf = <<>> /\ todo = <<>>
    /\ copy = 1 /\ count = 0 /\ calls = 0 /\ crashes = 0

IInv == Blank \/ Working

-----------------------------------------------------------------------------
(* Where the entries lie.                                                  *)

\* Every block a volume is mounted from.
Usable(b) ==
    IsParameterBlock(b) /\ Validate(b) /\ NoWrap(b) /\ TableHolds(b)

\* What the checks of validate leave of a parameter block, as numbers.
LEMMA Numbers ==
    ASSUME Usable(bpb)
    PROVE  /\ bpb.fats \in {1, 2} /\ bpb.fatSectors \in Nat /\ bpb.reserved \in Nat
           /\ bpb.fsinfo \in Nat /\ bpb.fsinfo < bpb.reserved
           /\ EntriesPerSector(bpb) \in {1, 2, 4, 8, 16, 32, 64, 128, 256, 512, 1024}
           /\ TotalClusters(bpb) \in Nat
           /\ TotalClusters(bpb) <= 268435444 /\ TotalClusters(bpb) < U32Mod
           /\ FirstDataSector(bpb) = bpb.reserved + bpb.fats * bpb.fatSectors
           /\ FirstBackupFatsSector(bpb) = bpb.reserved + bpb.fatSectors
<1> USE DEF Usable
<1>1. /\ bpb.fats \in {1, 2} /\ bpb.fatSectors \in Nat /\ bpb.reserved \in Nat
      /\ bpb.spc \in {1, 2, 4, 8, 16, 32, 64, 128} /\ bpb.total \in Nat
      /\ bpb.fsinfo \in Nat /\ bpb.total < U32Mod /\ U32Mod \in Nat
    BY BootAssumption, SMT
       DEF BootAssumption, Validate, ValidFats, ValidSpc, PowersOfTwo, IsParameterBlock
<1>2. bpb.fsinfo < bpb.reserved /\ TotalClusters(bpb) <= 268435444
    BY DEF Validate, ValidReserved, ValidTotalClusters
<1>3. bpb.bytes \in {4, 8, 16, 32, 64, 128, 256, 512, 1024, 2048, 4096}
    BY BootAssumption
       DEF BootAssumption, Validate, ValidBytesPerSector, PowersOfTwo, IsParameterBlock
<1>4. EntriesPerSector(bpb) \in {1, 2, 4, 8, 16, 32, 64, 128, 256, 512, 1024}
    BY <1>3 DEF EntriesPerSector, BYTES_PER_ENTRY
<1>5. /\ FirstDataSector(bpb) = bpb.reserved + bpb.fats * bpb.fatSectors
      /\ FirstBackupFatsSector(bpb) = bpb.reserved + bpb.fatSectors
    BY Regions
<1>6. /\ TotalClusters(bpb) \in Nat
      /\ FirstDataSector(bpb) + TotalClusters(bpb) * bpb.spc <= bpb.total
    BY ClustersFit
<1>7. FirstDataSector(bpb) \in Nat
    BY <1>1, <1>5, SMT
<1>8. TotalClusters(bpb) < U32Mod
    BY <1>1, <1>6, <1>7, SMT
<1> QED
    BY <1>1, <1>2, <1>4, <1>5, <1>6, <1>8

\* The place of an entry determines its cluster, and the other way round.
LEMMA Places ==
    ASSUME NEW e \in {1, 2, 4, 8, 16, 32, 64, 128, 256, 512, 1024},
           NEW c \in Nat, NEW n \in Nat, c < n * e
    PROVE  /\ c \div e \in 0 .. n - 1 /\ c % e \in 0 .. e - 1
           /\ (c \div e) * e + (c % e) = c
    BY SMT

\* The tables lie apart from each other and from FSInfo, entries of different
\* clusters in different places; the second table of a volume that has one only
\* lies where get_cache does not go.
LEMMA UsableGeometry ==
    ASSUME Usable(bpb)
    PROVE  Geometry
<1> DEFINE e == EntriesPerSector(bpb)
           n == bpb.fatSectors
           r == bpb.reserved
           T == TotalClusters(bpb)
           F == FirstDataSector(bpb)
<1>1. /\ bpb.fats \in {1, 2} /\ n \in Nat /\ r \in Nat
      /\ bpb.fsinfo \in Nat /\ bpb.fsinfo < r
      /\ e \in {1, 2, 4, 8, 16, 32, 64, 128, 256, 512, 1024}
      /\ T \in Nat /\ T <= 268435444 /\ T < U32Mod
      /\ F = r + bpb.fats * n
      /\ FirstBackupFatsSector(bpb) = r + n
    BY Numbers
<1>2. Clusters = 2 .. 2 + T - 1 /\ InfoSectors = 0 .. F - 1 /\ Offsets = 0 .. e - 1
    BY DEF Clusters, DataIds, FirstCluster, InfoSectors, Offsets
<1>3. \A c : Fat(c) = r + c \div e /\ Bak(c) = r + n + c \div e /\ Off(c) = c % e
    BY <1>1 DEF Fat, Bak, Off, Position, FirstFatsSector
<1>4. 2 + T <= n * e
    BY DEF Usable, TableHolds, FirstCluster
<1>5. n * e \in Nat
    BY <1>1, SMT
<1> HIDE DEF e, n, r, T, F
<1>6. IsFiniteSet(Clusters) /\ Cardinality(Clusters) < U32Mod
    <2>1. 2 + T - 1 \in Int /\ (IF 2 > 2 + T - 1 THEN 0 ELSE (2 + T - 1) - 2 + 1) = T
        BY <1>1, SMT
    <2>2. IsFiniteSet(2 .. 2 + T - 1) /\ Cardinality(2 .. 2 + T - 1) = T
        BY <2>1, FS_Interval
    <2> QED
        BY <1>1, <1>2, <2>2
<1>7. ASSUME NEW c \in Clusters
      PROVE  /\ c \in Nat /\ c # FREE /\ c # END
             /\ c \div e \in 0 .. n - 1 /\ c % e \in 0 .. e - 1
             /\ (c \div e) * e + (c % e) = c
    <2>1. c \in Nat /\ c # FREE /\ c # END /\ c < 2 + T
        BY <1>1, <1>2, SMT DEF FREE, END
    <2>2. c < n * e
        BY <1>1, <1>4, <1>5, <2>1, SMT
    <2> QED
        BY <1>1, <2>1, <2>2, Places
<1>8. F \in Nat /\ r + n <= F /\ (bpb.fats = 1 => F = r + n) /\ (bpb.fats = 2 => F = r + n + n)
    BY <1>1, SMT
<1>9. 0 \in Offsets /\ bpb.fsinfo \in InfoSectors
    BY <1>1, <1>2, <1>8, SMT
<1>10. ASSUME NEW c \in Clusters
       PROVE  /\ Fat(c) \in InfoSectors /\ Off(c) \in Offsets
              /\ Fat(c) # bpb.fsinfo /\ Bak(c) # bpb.fsinfo
              /\ bpb.fats = 2 <=> Bak(c) \in InfoSectors
    <2>1. PICK q \in Nat : q = c \div e /\ q < n
        BY <1>7, <1>1, SMT
    <2>2. Fat(c) = r + q /\ Bak(c) = r + n + q
        BY <1>3, <2>1
    <2>3. Off(c) \in Offsets
        BY <1>2, <1>3, <1>7
    <2>4. r + q \in 0 .. F - 1 /\ r + q # bpb.fsinfo /\ r + n + q # bpb.fsinfo
        BY <1>1, <1>8, <2>1, SMT
    <2>5. CASE bpb.fats = 1
        <3>1. r + n + q \notin 0 .. F - 1
            BY <1>1, <1>8, <2>1, <2>5, SMT
        <3> QED
            BY <1>2, <2>2, <2>3, <2>4, <2>5, <3>1
    <2>6. CASE bpb.fats = 2
        <3>1. r + n + q \in 0 .. F - 1
            BY <1>1, <1>8, <2>1, <2>6, SMT
        <3> QED
            BY <1>2, <2>2, <2>3, <2>4, <2>6, <3>1
    <2> QED
        BY <1>1, <2>5, <2>6
<1>11. ASSUME NEW c \in Clusters, NEW d \in Clusters
       PROVE  /\ Fat(c) # Bak(d)
              /\ Fat(c) = Fat(d) <=> Bak(c) = Bak(d)
              /\ Fat(c) = Fat(d) /\ Off(c) = Off(d) => c = d
    <2>1. PICK q \in Nat : q = c \div e /\ q < n /\ q * e + (c % e) = c
        BY <1>7, <1>1, SMT
    <2>2. PICK p \in Nat : p = d \div e /\ p < n /\ p * e + (d % e) = d
        BY <1>7, <1>1, SMT
    <2>3. /\ Fat(c) = r + q /\ Bak(c) = r + n + q
          /\ Fat(d) = r + p /\ Bak(d) = r + n + p
          /\ Off(c) = c % e /\ Off(d) = d % e
        BY <1>3, <2>1, <2>2
    <2>4. Fat(c) = Fat(d) => q = p
        BY <1>1, <2>3, SMT
    <2>5. Fat(c) = Fat(d) /\ Off(c) = Off(d) => c = d
        BY <2>1, <2>2, <2>3, <2>4
    <2> QED
        BY <1>1, <2>1, <2>2, <2>3, <2>5, SMT
<1> QED
    BY <1>1, <1>6, <1>7, <1>9, <1>10, <1>11 DEF Geometry

\* The places are those of the parameter block.
LEMMA PlacesStay ==
    ASSUME bpb' = bpb
    PROVE  /\ Clusters' = Clusters /\ Offsets' = Offsets /\ InfoSectors' = InfoSectors
           /\ Entries' = Entries /\ Writes' = Writes
           /\ \A c : Fat(c)' = Fat(c) /\ Bak(c)' = Bak(c) /\ Off(c)' = Off(c)
           /\ Geometry => Geometry'
<1>1. Clusters' = Clusters /\ Offsets' = Offsets /\ InfoSectors' = InfoSectors
    BY DEF Clusters, Offsets, InfoSectors
<1>2. Entries' = Entries /\ Writes' = Writes
    BY <1>1 DEF Entries, Writes
<1>3. \A c : Fat(c)' = Fat(c) /\ Bak(c)' = Bak(c) /\ Off(c)' = Off(c)
    BY DEF Fat, Bak, Off
<1>4. ASSUME Geometry PROVE Geometry'
    BY <1>1, <1>3, <1>4 DEF Geometry
<1> QED
    BY <1>1, <1>2, <1>3, <1>4

-----------------------------------------------------------------------------
(* What get_cache gives.                                                   *)

\* A sector holds its entries, in the cache or on the device.
LEMMA SectorType ==
    ASSUME Shape, NEW s \in InfoSectors
    PROVE  Sector(s) \in [Offsets -> Nat]
BY DEF Shape, Sector

\* A write changes one entry of one sector, and nothing else that get_cache gives.
LEMMA WriteTouches ==
    ASSUME Shape, bpb' = bpb, disk' = disk,
           NEW s \in InfoSectors, NEW o \in Offsets, NEW v \in Nat,
           buf' = [x \in DOMAIN buf \cup {s} |->
                      IF x = s THEN [Sector(x) EXCEPT ![o] = v] ELSE buf[x]]
    PROVE  /\ DOMAIN buf' \subseteq InfoSectors'
           /\ buf' \in [DOMAIN buf' -> [Offsets -> Nat]]
           /\ Sector(s)'[o] = v
           /\ \A x : \A i \in Offsets : (x # s \/ i # o) => Sector(x)'[i] = Sector(x)[i]
<1>1. InfoSectors' = InfoSectors /\ Offsets' = Offsets
    BY PlacesStay
<1>2. Sector(s) \in [Offsets -> Nat]
    BY SectorType
<1>3. DOMAIN buf' = DOMAIN buf \cup {s}
    OBVIOUS
<1>4. DOMAIN buf' \subseteq InfoSectors'
    BY <1>1, <1>3 DEF Shape
<1>5. [Sector(s) EXCEPT ![o] = v] \in [Offsets -> Nat]
    BY <1>2
<1>6. ASSUME NEW x \in DOMAIN buf' PROVE buf'[x] \in [Offsets -> Nat]
    BY <1>3, <1>5 DEF Shape
<1>7. buf' \in [DOMAIN buf' -> [Offsets -> Nat]]
    BY <1>1, <1>6
<1>8. Sector(s)' = [Sector(s) EXCEPT ![o] = v]
    BY <1>3 DEF Sector
<1>9. Sector(s)'[o] = v
    BY <1>2, <1>8
<1>10. ASSUME NEW x, NEW i \in Offsets, x # s \/ i # o PROVE Sector(x)'[i] = Sector(x)[i]
    <2>1. CASE x = s
        BY <1>2, <1>8, <1>10, <2>1
    <2>2. CASE x # s
        <3>1. Sector(x)' = Sector(x)
            BY <1>3, <2>2 DEF Sector
        <3> QED
            BY <3>1
    <2> QED
        BY <2>1, <2>2
<1> QED
    BY <1>4, <1>7, <1>9, <1>10

\* set_entry_raw puts an entry into the first table.
LEMMA SetFirstTouches ==
    ASSUME Geometry, Shape, bpb' = bpb, disk' = disk, NEW w \in Writes,
           buf' = Modified(Fat(w.id), w)
    PROVE  /\ DOMAIN buf' \subseteq InfoSectors'
           /\ buf' \in [DOMAIN buf' -> [Offsets -> Nat]]
           /\ \A c \in Clusters :
                /\ Entry(c)' = IF c = w.id THEN w.value ELSE Entry(c)
                /\ BackupEntry(c)' = BackupEntry(c)
           /\ Sector(bpb.fsinfo)'[0] = Sector(bpb.fsinfo)[0]
<1>1. w.id \in Clusters /\ w.value \in Nat
    BY SMT DEF Writes, Entries, Geometry, FREE, END
<1>2. PICK s \in InfoSectors, o \in Offsets : s = Fat(w.id) /\ o = Off(w.id)
    BY <1>1 DEF Geometry
<1>3. buf' = [x \in DOMAIN buf \cup {s} |->
                 IF x = s THEN [Sector(x) EXCEPT ![o] = w.value] ELSE buf[x]]
    BY <1>2 DEF Modified, Off
<1>4. /\ DOMAIN buf' \subseteq InfoSectors'
      /\ buf' \in [DOMAIN buf' -> [Offsets -> Nat]]
      /\ Sector(s)'[o] = w.value
      /\ \A x : \A i \in Offsets : (x # s \/ i # o) => Sector(x)'[i] = Sector(x)[i]
    BY <1>1, <1>3, WriteTouches
<1>5. ASSUME NEW c \in Clusters
      PROVE  /\ Entry(c)' = IF c = w.id THEN w.value ELSE Entry(c)
             /\ BackupEntry(c)' = BackupEntry(c)
    <2>1. PICK f, b, i : f = Fat(c) /\ b = Bak(c) /\ i = Off(c)
        OBVIOUS
    <2>2. f = Fat(c)' /\ b = Bak(c)' /\ i = Off(c)'
        BY <2>1, PlacesStay
    <2>3. /\ Entry(c) = Sector(f)[i] /\ BackupEntry(c) = Sector(b)[i]
          /\ Entry(c)' = Sector(f)'[i] /\ BackupEntry(c)' = Sector(b)'[i]
        BY <2>1, <2>2 DEF Entry, BackupEntry, Fat, Bak, Off, Sector
    <2>4. b # s /\ (c # w.id => f # s \/ i # o) /\ i \in Offsets
        BY <1>1, <1>2, <2>1 DEF Geometry
    <2>5. BackupEntry(c)' = BackupEntry(c)
        BY <1>4, <2>3, <2>4
    <2>6. CASE c = w.id
        BY <1>2, <1>4, <2>1, <2>3, <2>5, <2>6
    <2>7. CASE c # w.id
        BY <1>4, <2>3, <2>4, <2>5, <2>7
    <2> QED
        BY <2>6, <2>7
<1>6. Sector(bpb.fsinfo)'[0] = Sector(bpb.fsinfo)[0]
    <2>1. PICK f : f = bpb.fsinfo
        OBVIOUS
    <2>2. f # s /\ 0 \in Offsets
        BY <1>1, <1>2, <2>1 DEF Geometry
    <2>3. Sector(f)'[0] = Sector(f)[0]
        BY <1>4, <2>2
    <2> QED
        BY <2>1, <2>3 DEF Sector
<1> QED
    BY <1>4, <1>5, <1>6

\* set_entry_raw puts an entry into the second table, where there is one.
LEMMA SetSecondTouches ==
    ASSUME Geometry, Shape, bpb' = bpb, disk' = disk, NEW w \in Writes,
           Bak(w.id) \in InfoSectors, buf' = Modified(Bak(w.id), w)
    PROVE  /\ DOMAIN buf' \subseteq InfoSectors'
           /\ buf' \in [DOMAIN buf' -> [Offsets -> Nat]]
           /\ \A c \in Clusters :
                /\ Entry(c)' = Entry(c)
                /\ BackupEntry(c)' = IF c = w.id THEN w.value ELSE BackupEntry(c)
           /\ Sector(bpb.fsinfo)'[0] = Sector(bpb.fsinfo)[0]
<1>1. w.id \in Clusters /\ w.value \in Nat
    BY SMT DEF Writes, Entries, Geometry, FREE, END
<1>2. PICK s \in InfoSectors, o \in Offsets : s = Bak(w.id) /\ o = Off(w.id)
    BY <1>1 DEF Geometry
<1>3. buf' = [x \in DOMAIN buf \cup {s} |->
                 IF x = s THEN [Sector(x) EXCEPT ![o] = w.value] ELSE buf[x]]
    BY <1>2 DEF Modified, Off
<1>4. /\ DOMAIN buf' \subseteq InfoSectors'
      /\ buf' \in [DOMAIN buf' -> [Offsets -> Nat]]
      /\ Sector(s)'[o] = w.value
      /\ \A x : \A i \in Offsets : (x # s \/ i # o) => Sector(x)'[i] = Sector(x)[i]
    BY <1>1, <1>3, WriteTouches
<1>5. ASSUME NEW c \in Clusters
      PROVE  /\ Entry(c)' = Entry(c)
             /\ BackupEntry(c)' = IF c = w.id THEN w.value ELSE BackupEntry(c)
    <2>1. PICK f, b, i : f = Fat(c) /\ b = Bak(c) /\ i = Off(c)
        OBVIOUS
    <2>2. f = Fat(c)' /\ b = Bak(c)' /\ i = Off(c)'
        BY <2>1, PlacesStay
    <2>3. /\ Entry(c) = Sector(f)[i] /\ BackupEntry(c) = Sector(b)[i]
          /\ Entry(c)' = Sector(f)'[i] /\ BackupEntry(c)' = Sector(b)'[i]
        BY <2>1, <2>2 DEF Entry, BackupEntry, Fat, Bak, Off, Sector
    <2>4. f # s /\ (c # w.id => b # s \/ i # o) /\ i \in Offsets
        BY <1>1, <1>2, <2>1 DEF Geometry
    <2>5. Entry(c)' = Entry(c)
        BY <1>4, <2>3, <2>4
    <2>6. CASE c = w.id
        BY <1>2, <1>4, <2>1, <2>3, <2>5, <2>6
    <2>7. CASE c # w.id
        BY <1>4, <2>3, <2>4, <2>5, <2>7
    <2> QED
        BY <2>6, <2>7
<1>6. Sector(bpb.fsinfo)'[0] = Sector(bpb.fsinfo)[0]
    <2>1. PICK f : f = bpb.fsinfo
        OBVIOUS
    <2>2. f # s /\ 0 \in Offsets
        BY <1>1, <1>2, <2>1 DEF Geometry
    <2>3. Sector(f)'[0] = Sector(f)[0]
        BY <1>4, <2>2
    <2> QED
        BY <2>1, <2>3 DEF Sector
<1> QED
    BY <1>4, <1>5, <1>6

\* What get_cache gives once the count is in FSInfo.
WithCount ==
    [x \in DOMAIN buf \cup {bpb.fsinfo} |->
        IF x = bpb.fsinfo THEN [Sector(x) EXCEPT ![0] = count] ELSE buf[x]]

\* The drop of FATManager puts the count into FSInfo, and changes no entry.
LEMMA CloseTouches ==
    ASSUME Geometry, Shape, bpb' = bpb, disk' = disk, count' = count,
           buf' = WithCount
    PROVE  /\ DOMAIN buf' \subseteq InfoSectors'
           /\ buf' \in [DOMAIN buf' -> [Offsets -> Nat]]
           /\ \A c \in Clusters : Entry(c)' = Entry(c) /\ BackupEntry(c)' = BackupEntry(c)
           /\ Sector(bpb.fsinfo)'[0] = count
<1>1. PICK s \in InfoSectors, n \in Nat : s = bpb.fsinfo /\ n = count
    BY BootAssumption, SMT DEF Geometry, Shape, Counts, BootAssumption
<1>2. PICK o \in Offsets : o = 0
    BY DEF Geometry
<1>3. buf' = [x \in DOMAIN buf \cup {s} |->
                 IF x = s THEN [Sector(x) EXCEPT ![o] = n] ELSE buf[x]]
    BY <1>1, <1>2 DEF WithCount
<1>4. /\ DOMAIN buf' \subseteq InfoSectors'
      /\ buf' \in [DOMAIN buf' -> [Offsets -> Nat]]
      /\ Sector(s)'[o] = n
      /\ \A x : \A i \in Offsets : (x # s \/ i # o) => Sector(x)'[i] = Sector(x)[i]
    BY <1>3, WriteTouches
<1>5. ASSUME NEW c \in Clusters
      PROVE  Entry(c)' = Entry(c) /\ BackupEntry(c)' = BackupEntry(c)
    <2>1. PICK f, b, i : f = Fat(c) /\ b = Bak(c) /\ i = Off(c)
        OBVIOUS
    <2>2. f = Fat(c)' /\ b = Bak(c)' /\ i = Off(c)'
        BY <2>1, PlacesStay
    <2>3. /\ Entry(c) = Sector(f)[i] /\ BackupEntry(c) = Sector(b)[i]
          /\ Entry(c)' = Sector(f)'[i] /\ BackupEntry(c)' = Sector(b)'[i]
        BY <2>1, <2>2 DEF Entry, BackupEntry, Fat, Bak, Off, Sector
    <2>4. f # s /\ b # s /\ i \in Offsets
        BY <1>1, <2>1 DEF Geometry
    <2> QED
        BY <1>4, <2>3, <2>4
<1>6. Sector(bpb.fsinfo)'[0] = count
    BY <1>1, <1>2, <1>4 DEF Sector
<1> QED
    BY <1>4, <1>5, <1>6

\* What is evicted is what the device then holds: get_cache gives the same.
LEMMA EvictTouches ==
    ASSUME Geometry, Shape, NEW s \in DOMAIN buf, Evict(s)
    PROVE  /\ DOMAIN buf' \subseteq InfoSectors'
           /\ buf' \in [DOMAIN buf' -> [Offsets -> Nat]]
           /\ disk' \in [InfoSectors -> [Offsets -> Nat]]
           /\ disk'[s] = Sector(s)
           /\ \A x : x # s => disk'[x] = disk[x]
           /\ \A x : Sector(x)' = Sector(x)
<1>1. bpb' = bpb /\ disk' = [disk EXCEPT ![s] = buf[s]]
      /\ buf' = [x \in DOMAIN buf \ {s} |-> buf[x]]
    BY DEF Evict, Without
<1>2. s \in InfoSectors /\ disk \in [InfoSectors -> [Offsets -> Nat]] /\ buf[s] \in [Offsets -> Nat]
    BY DEF Shape
<1>3. disk' \in [InfoSectors -> [Offsets -> Nat]]
    BY <1>1, <1>2
<1>4. disk'[s] = Sector(s) /\ \A x : x # s => disk'[x] = disk[x]
    BY <1>1, <1>2 DEF Sector
<1>5. DOMAIN buf' = DOMAIN buf \ {s} /\ \A x \in DOMAIN buf' : buf'[x] = buf[x]
    BY <1>1
<1>6. DOMAIN buf' \subseteq InfoSectors'
    BY <1>1, <1>5, PlacesStay DEF Shape
<1>7. buf' \in [DOMAIN buf' -> [Offsets -> Nat]]
    BY <1>1, <1>5 DEF Shape
<1>8. \A x : Sector(x)' = Sector(x)
    BY <1>4, <1>5 DEF Sector
<1> QED
    BY <1>3, <1>4, <1>6, <1>7, <1>8

-----------------------------------------------------------------------------
(* What a single write does to a well-formed table.                        *)

\* The special entries lead to no cluster.
LEMMA SpecialEntries ==
    ASSUME Geometry
    PROVE  FREE \notin Clusters /\ END \notin Clusters /\ FREE # END /\ Entries \subseteq Nat
BY SMT DEF Geometry, FREE, END, Entries

\* A free cluster that becomes the end of a chain of its own.
LEMMA EndsOnItsOwn ==
    ASSUME Geometry, NEW t \in [Clusters -> Entries], WellFormed(t),
           NEW c \in Clusters, t[c] = FREE, NEW u, u = [t EXCEPT ![c] = END]
    PROVE  /\ u \in [Clusters -> Entries] /\ WellFormed(u)
           /\ Unreferenced(t, c) /\ Unreferenced(u, c)
<1> USE SpecialEntries
<1>1. u \in [Clusters -> Entries] /\ u[c] = END /\ \A d \in Clusters : d # c => u[d] = t[d]
    BY DEF Entries
<1>2. Unreferenced(t, c)
    BY DEF WellFormed, Unreferenced
<1>3. Unreferenced(u, c)
    BY <1>1, <1>2 DEF Unreferenced
<1>4. \A d \in Clusters : u[d] \in Clusters => u[u[d]] # FREE
    <2> SUFFICES ASSUME NEW d \in Clusters, u[d] \in Clusters PROVE u[u[d]] # FREE
        OBVIOUS
    <2>1. u[d] = t[d] /\ u[d] # c
        BY <1>1, <1>2 DEF Unreferenced
    <2>2. t[t[d]] # FREE
        BY <2>1 DEF WellFormed
    <2> QED
        BY <1>1, <2>1, <2>2
<1>5. \A d, e \in Clusters : u[d] \in Clusters /\ u[d] = u[e] => d = e
    BY <1>1 DEF WellFormed
<1>6. \A S \in SUBSET Clusters : S # {} => \E e \in S : u[e] \notin S
    <2> SUFFICES ASSUME NEW S \in SUBSET Clusters, S # {} PROVE \E e \in S : u[e] \notin S
        OBVIOUS
    <2>1. PICK e \in S : t[e] \notin S
        BY DEF WellFormed
    <2>2. u[e] \notin S
        BY <1>1, <2>1
    <2> QED
        BY <2>2
<1> QED
    BY <1>1, <1>2, <1>3, <1>4, <1>5, <1>6 DEF WellFormed

\* The end of a chain that leads to a chain of one, which nothing led to.
LEMMA LinksOneMore ==
    ASSUME Geometry, NEW t \in [Clusters -> Entries], WellFormed(t),
           NEW p \in Clusters, NEW c \in Clusters, p # c, t[p] = END, t[c] = END,
           Unreferenced(t, c), NEW u, u = [t EXCEPT ![p] = c]
    PROVE  u \in [Clusters -> Entries] /\ WellFormed(u)
<1> USE SpecialEntries
<1>1. u \in [Clusters -> Entries] /\ u[p] = c /\ \A d \in Clusters : d # p => u[d] = t[d]
    BY DEF Entries
<1>2. \A d \in Clusters : u[d] \in Clusters => u[u[d]] # FREE
    <2> SUFFICES ASSUME NEW d \in Clusters, u[d] \in Clusters PROVE u[u[d]] # FREE
        OBVIOUS
    <2>1. CASE d = p
        BY <1>1, <2>1
    <2>2. CASE d # p
        <3>1. u[d] = t[d] /\ t[t[d]] # FREE
            BY <1>1, <2>2 DEF WellFormed
        <3> QED
            BY <1>1, <3>1
    <2> QED
        BY <2>1, <2>2
<1>3. \A d, e \in Clusters : u[d] \in Clusters /\ u[d] = u[e] => d = e
    BY <1>1 DEF WellFormed, Unreferenced
<1>4. \A S \in SUBSET Clusters : S # {} => \E e \in S : u[e] \notin S
    <2> SUFFICES ASSUME NEW S \in SUBSET Clusters, S # {} PROVE \E e \in S : u[e] \notin S
        OBVIOUS
    <2>1. CASE c \in S
        BY <1>1, <2>1
    <2>2. CASE c \notin S
        <3>1. PICK e \in S : t[e] \notin S
            BY DEF WellFormed
        <3>2. u[e] \notin S
            BY <1>1, <2>2, <3>1
        <3> QED
            BY <3>2
    <2> QED
        BY <2>1, <2>2
<1> QED
    BY <1>1, <1>2, <1>3, <1>4 DEF WellFormed

\* A cluster nothing leads to that becomes free.
LEMMA FreesAHead ==
    ASSUME Geometry, NEW t \in [Clusters -> Entries], WellFormed(t),
           NEW c \in Clusters, Unreferenced(t, c), NEW u, u = [t EXCEPT ![c] = FREE]
    PROVE  u \in [Clusters -> Entries] /\ WellFormed(u)
<1> USE SpecialEntries
<1>1. u \in [Clusters -> Entries] /\ u[c] = FREE /\ \A d \in Clusters : d # c => u[d] = t[d]
    BY DEF Entries
<1>2. \A d \in Clusters : u[d] \in Clusters => u[u[d]] # FREE
    <2> SUFFICES ASSUME NEW d \in Clusters, u[d] \in Clusters PROVE u[u[d]] # FREE
        OBVIOUS
    <2>1. d # c /\ u[d] = t[d] /\ t[d] # c
        BY <1>1 DEF Unreferenced
    <2>2. t[t[d]] # FREE
        BY <2>1 DEF WellFormed
    <2> QED
        BY <1>1, <2>1, <2>2
<1>3. \A d, e \in Clusters : u[d] \in Clusters /\ u[d] = u[e] => d = e
    BY <1>1 DEF WellFormed
<1>4. \A S \in SUBSET Clusters : S # {} => \E e \in S : u[e] \notin S
    <2> SUFFICES ASSUME NEW S \in SUBSET Clusters, S # {} PROVE \E e \in S : u[e] \notin S
        OBVIOUS
    <2>1. PICK e \in S : t[e] \notin S
        BY DEF WellFormed
    <2>2. u[e] \notin S
        BY <1>1, <2>1
    <2> QED
        BY <2>2
<1> QED
    BY <1>1, <1>2, <1>3, <1>4 DEF WellFormed

\* The number of free clusters is one that FSInfo has room for.
LEMMA TableCounts ==
    ASSUME Geometry, NEW t \in [Clusters -> Entries]
    PROVE  /\ IsFiniteSet(FreeOf(t))
           /\ FreeCount(t) \in Nat /\ FreeCount(t) < U32Mod /\ FreeCount(t) \in Counts
<1>1. FreeOf(t) \in SUBSET Clusters
    BY DEF FreeOf
<1>2. IsFiniteSet(FreeOf(t)) /\ Cardinality(FreeOf(t)) <= Cardinality(Clusters)
    BY <1>1, FS_Subset DEF Geometry
<1>3. Cardinality(FreeOf(t)) \in Nat
    BY <1>2, FS_CardinalityType
<1>4. Cardinality(Clusters) \in Nat /\ Cardinality(Clusters) < U32Mod /\ U32Mod \in Nat
    BY FS_CardinalityType, BootAssumption DEF Geometry, BootAssumption
<1> QED
    BY <1>2, <1>3, <1>4, SMT DEF FreeCount, Counts

\* The number of free clusters after a write.
LEMMA FreeCounts ==
    ASSUME Geometry, NEW t \in [Clusters -> Entries], NEW c \in Clusters,
           NEW u \in [Clusters -> Entries], \A d \in Clusters : d # c => u[d] = t[d]
    PROVE  /\ FreeCount(t) \in Nat /\ FreeCount(t) < U32Mod
           /\ t[c] = FREE /\ u[c] # FREE => FreeCount(u) = FreeCount(t) - 1
           /\ t[c] # FREE /\ u[c] = FREE => FreeCount(u) = FreeCount(t) + 1
           /\ t[c] # FREE /\ u[c] # FREE => FreeCount(u) = FreeCount(t)
<1>1. IsFiniteSet(FreeOf(t))
    BY TableCounts
<1>2. FreeCount(t) \in Nat /\ FreeCount(t) < U32Mod
    BY TableCounts
<1>3. ASSUME t[c] = FREE, u[c] # FREE PROVE FreeCount(u) = FreeCount(t) - 1
    <2>1. FreeOf(u) = FreeOf(t) \ {c} /\ c \in FreeOf(t)
        BY <1>3 DEF FreeOf
    <2> QED
        BY <1>1, <2>1, FS_RemoveElement DEF FreeCount
<1>4. ASSUME t[c] # FREE, u[c] = FREE PROVE FreeCount(u) = FreeCount(t) + 1
    <2>1. FreeOf(u) = FreeOf(t) \cup {c} /\ c \notin FreeOf(t)
        BY <1>4 DEF FreeOf
    <2> QED
        BY <1>1, <2>1, FS_AddElement DEF FreeCount
<1>5. ASSUME t[c] # FREE, u[c] # FREE PROVE FreeCount(u) = FreeCount(t)
    <2>1. FreeOf(u) = FreeOf(t)
        BY <1>5 DEF FreeOf
    <2> QED
        BY <2>1 DEF FreeCount
<1> QED
    BY <1>2, <1>3, <1>4, <1>5

-----------------------------------------------------------------------------
(* Calls, one write after the other.                                       *)

\* A call's next write is the one its plan means, and leaves a plan for the rest.
LEMMA PlanStep ==
    ASSUME Geometry, NEW t \in [Clusters -> Entries], WellFormed(t),
           NEW w \in Seq(Writes), w # <<>>, Plan(t, w),
           NEW u, u = [t EXCEPT ![w[1].id] = w[1].value]
    PROVE  /\ u \in [Clusters -> Entries] /\ WellFormed(u) /\ Plan(u, Tail(w))
           /\ FreeCount(u) + Delta(Tail(w)) = FreeCount(t) + Delta(w)
           /\ FreeCount(u) \in Nat /\ FreeCount(t) \in Nat
<1> DEFINE v == Tail(w)
           c == w[1].id
<1>1. /\ v \in Seq(Writes) /\ Len(w) \in Nat /\ Len(w) >= 1 /\ Len(v) = Len(w) - 1
      /\ \A i \in 1 .. Len(v) : v[i] = w[i + 1]
    <2>1. Len(w) \in Nat \ {0}
        BY EmptySeq
    <2> QED
        BY <2>1, HeadTailProperties
<1>2. (v = <<>> <=> Len(w) = 1)
    <2>1. v = <<>> => Len(v) = 0
        BY EmptySeq
    <2>2. v # <<>> => Len(v) # 0
        BY <1>1, EmptySeq
    <2> QED
        BY <1>1, <2>1, <2>2
<1>3. \A i \in 1 .. Len(w) : w[i] \in Writes /\ w[i].id \in Clusters /\ w[i].value \in Entries
    <2> TAKE i \in 1 .. Len(w)
    <2>1. w[i] \in Writes
        BY ElementOfSeq
    <2> QED
        BY <2>1 DEF Writes
<1>4. c \in Clusters /\ w[1].value \in Entries
    BY <1>1, <1>3
<1>5. /\ FREE \notin Clusters /\ END \notin Clusters /\ FREE # END
    BY SpecialEntries
<1>6. FreeCount(t) \in Nat
    BY TableCounts
<1>u. u[c] = w[1].value /\ \A d \in Clusters : d # c => u[d] = t[d]
    BY <1>4
<1> HIDE DEF v, c
<1>7. CASE Allocates(t, w)
    <2>1. w[1].value = END /\ t[c] = FREE
        BY <1>7 DEF Allocates, c
    <2>2. /\ u \in [Clusters -> Entries] /\ WellFormed(u)
          /\ Unreferenced(t, c) /\ Unreferenced(u, c)
        BY <1>4, <2>1, EndsOnItsOwn DEF c
    <2>3. FreeCount(u) = FreeCount(t) - 1 /\ FreeCount(u) \in Nat
        <3>1. FreeCount(u) = FreeCount(t) - 1
            <4>1. t[w[1].id] = FREE /\ w[1].value # FREE /\ w[1].id \in Clusters
                BY <1>4, <1>5, <2>1 DEF c
            <4> QED
                BY <1>4, <1>u, <2>2, <4>1, FreeCounts DEF c
        <3>2. FreeCount(u) \in Nat
            BY <2>2, TableCounts
        <3> QED
            BY <3>1, <3>2
    <2>4. Delta(w) = -1
        BY <2>1 DEF Delta
    <2>5. CASE Len(w) = 1
        <3>1. v = <<>>
            BY <1>2, <2>5
        <3>2. Plan(u, v) /\ Delta(v) = 0
            BY <3>1 DEF Plan, Delta
        <3> QED
            BY <1>6, <2>2, <2>3, <2>4, <3>2 DEF v
    <2>6. CASE Len(w) = 2
        <3>1. /\ Len(v) = 1 /\ v[1] = w[2] /\ v # <<>>
              /\ w[2].id \in Clusters /\ w[2].value = c /\ t[w[2].id] = END
            BY <1>1, <1>2, <1>3, <1>7, <2>6 DEF Allocates, c
        <3>2. u[w[2].id] = END /\ w[2].id # c /\ u[c] = END
            BY <1>4, <1>5, <2>1, <3>1 DEF c
        <3>3. Links(u, v)
            BY <1>4, <2>2, <3>1, <3>2 DEF Links
        <3>4. Delta(v) = 0
            BY <1>4, <1>5, <3>1 DEF Delta
        <3> QED
            BY <1>6, <2>2, <2>3, <2>4, <3>3, <3>4 DEF v, Plan
    <2> QED
        BY <1>7, <2>5, <2>6 DEF Allocates
<1>8. CASE Links(t, w)
    <2>1. /\ t[c] = END /\ w[1].value \in Clusters /\ w[1].value # c
          /\ t[w[1].value] = END /\ Unreferenced(t, w[1].value) /\ v = <<>>
        BY <1>2, <1>8 DEF Links, c
    <2>2. u \in [Clusters -> Entries] /\ WellFormed(u)
        BY <1>4, <2>1, LinksOneMore DEF c
    <2>3. FreeCount(u) = FreeCount(t)
        <3>1. t[w[1].id] # FREE /\ w[1].value # FREE /\ w[1].id \in Clusters
            BY <1>4, <1>5, <2>1 DEF c
        <3> QED
            BY <1>4, <1>u, <2>2, <3>1, FreeCounts DEF c
    <2>4. Delta(w) = 0 /\ Delta(v) = 0 /\ Plan(u, v)
        BY <1>5, <2>1 DEF Delta, Plan
    <2> QED
        BY <1>6, <2>2, <2>3, <2>4 DEF v
<1>9. CASE Frees(t, w)
    <2>1. w[1].value = FREE /\ t[c] # FREE /\ Unreferenced(t, c)
        BY <1>1, <1>9 DEF Frees, c
    <2>2. u \in [Clusters -> Entries] /\ WellFormed(u)
        BY <1>4, <2>1, FreesAHead DEF c
    <2>3. FreeCount(u) = FreeCount(t) + 1
        BY <1>4, <1>u, <2>1, <2>2, FreeCounts DEF c
    <2>4. Delta(w) = Len(w)
        BY <1>5, <2>1 DEF Delta
    <2>5. CASE Len(w) = 1
        <3>1. v = <<>>
            BY <1>2, <2>5
        <3>2. Plan(u, v) /\ Delta(v) = 0
            BY <3>1 DEF Plan, Delta
        <3> QED
            BY <1>6, <2>2, <2>3, <2>4, <2>5, <3>2 DEF v
    <2>6. CASE Len(w) # 1
        <3>1. v # <<>> /\ Len(v) >= 1 /\ v[1] = w[2] /\ t[c] = w[2].id /\ w[2].id \in Clusters
            <4>1. v # <<>> /\ Len(v) >= 1 /\ 1 \in 1 .. Len(v) /\ 2 \in 1 .. Len(w) /\ 1 \in 1 .. Len(w) - 1
                BY <1>1, <1>2, <2>6
            <4>2. v[1] = w[2]
                BY <1>1, <4>1
            <4>3. t[c] = w[2].id
                BY <1>9, <4>1 DEF Frees, c
            <4> QED
                BY <1>3, <4>1, <4>2, <4>3
        <3>2. \A i, j \in 1 .. Len(w) : w[i].id = w[j].id => i = j
            BY <1>9 DEF Frees
        <3>3. \A i \in 1 .. Len(v) :
                 /\ i + 1 \in 1 .. Len(w) /\ v[i] = w[i + 1] /\ i + 1 # 1
                 /\ v[i].value = FREE /\ t[v[i].id] # FREE /\ v[i].id # c /\ v[i].id \in Clusters
            <4> TAKE i \in 1 .. Len(v)
            <4>1. i + 1 \in 1 .. Len(w) /\ v[i] = w[i + 1] /\ i + 1 # 1 /\ 1 \in 1 .. Len(w)
                BY <1>1
            <4>2. w[i + 1].id # w[1].id
                BY <3>2, <4>1
            <4> QED
                BY <1>3, <1>9, <4>1, <4>2 DEF Frees, c
        <3>4. \A i \in 1 .. Len(v) : u[v[i].id] = t[v[i].id]
            BY <3>3 DEF c
        <3>5. \A i \in 1 .. Len(v) : v[i].value = FREE /\ u[v[i].id] # FREE
            BY <3>3, <3>4
        <3>6. \A i \in 1 .. Len(v) - 1 : u[v[i].id] = v[i + 1].id
            <4> TAKE i \in 1 .. Len(v) - 1
            <4>1. i \in 1 .. Len(v) /\ i + 1 \in 1 .. Len(v) /\ i + 1 \in 1 .. Len(w) - 1
                BY <1>1
            <4>2. t[w[i + 1].id] = w[i + 1 + 1].id
                BY <1>9, <4>1 DEF Frees
            <4> QED
                BY <3>3, <3>4, <4>1, <4>2
        <3>7. \A i, j \in 1 .. Len(v) : v[i].id = v[j].id => i = j
            <4> TAKE i, j \in 1 .. Len(v)
            <4>1. v[i].id = v[j].id => i + 1 = j + 1
                BY <3>2, <3>3
            <4> QED
                BY <1>1, <4>1
        <3>8. Unreferenced(u, v[1].id)
            <4> SUFFICES ASSUME NEW d \in Clusters, u[d] = w[2].id PROVE FALSE
                BY <2>2, <3>1 DEF Unreferenced
            <4>1. d # c
                BY <1>4, <1>5, <2>1, <3>1 DEF c
            <4>2. t[d] = w[2].id
                BY <4>1 DEF c
            <4>3. d = c
                BY <1>4, <3>1, <4>2 DEF WellFormed
            <4> QED
                BY <4>1, <4>3
        <3>9. Frees(u, v)
            BY <3>1, <3>5, <3>6, <3>7, <3>8 DEF Frees
        <3>10. Delta(v) = Len(v)
            BY <1>5, <3>1, <3>5 DEF Delta
        <3> QED
            BY <1>1, <1>6, <2>2, <2>3, <2>4, <3>9, <3>10 DEF v, Plan
    <2> QED
        BY <2>5, <2>6
<1> QED
    BY <1>7, <1>8, <1>9 DEF Plan

\* alloc_cluster writes what a plan allows.
LEMMA AllocPlans ==
    ASSUME Geometry, NEW t \in [Clusters -> Entries],
           NEW c \in Clusters, t[c] = FREE, NEW p \in {NONE} \cup TailsOf(t),
           NEW w, w = <<Set(c, END)>> \o (IF p = NONE THEN <<>> ELSE <<Set(p, c)>>)
    PROVE  w \in Seq(Writes) /\ w # <<>> /\ Plan(t, w) /\ Delta(w) = -1
<1>1. Set(c, END) \in Writes /\ Set(c, END).id = c /\ Set(c, END).value = END
    BY DEF Set, Writes, Entries
<1>2. <<Set(c, END)>> \in Seq(Writes) /\ Len(<<Set(c, END)>>) = 1 /\ <<Set(c, END)>>[1] = Set(c, END)
    BY <1>1
<1>3. CASE p = NONE
    <2>1. w = <<Set(c, END)>>
        BY <1>2, <1>3, ConcatEmptySeq
    <2>2. w # <<>>
        BY <1>2, <2>1
    <2>3. Len(w) = 1 /\ w[1] = Set(c, END) /\ w \in Seq(Writes)
        BY <1>2, <2>1
    <2>4. w[1].value = END /\ w[1].id = c
        BY <1>1, <2>3
    <2>5. Allocates(t, w)
        BY <2>3, <2>4 DEF Allocates
    <2> QED
        BY <2>2, <2>3, <2>4, <2>5 DEF Plan, Delta
<1>4. CASE p # NONE
    <2>1. p \in Clusters /\ t[p] = END
        BY <1>4 DEF TailsOf
    <2>2. Set(p, c) \in Writes /\ Set(p, c).id = p /\ Set(p, c).value = c
        BY <2>1 DEF Set, Writes, Entries
    <2>3. <<Set(p, c)>> \in Seq(Writes) /\ Len(<<Set(p, c)>>) = 1 /\ <<Set(p, c)>>[1] = Set(p, c)
        BY <2>2
    <2>4. w = <<Set(c, END)>> \o <<Set(p, c)>>
        BY <1>4
    <2> DEFINE first == <<Set(c, END)>>
               second == <<Set(p, c)>>
    <2>5. /\ first \in Seq(Writes) /\ Len(first) = 1 /\ first[1] = Set(c, END)
          /\ second \in Seq(Writes) /\ Len(second) = 1 /\ second[1] = Set(p, c)
          /\ w = first \o second
        BY <1>2, <2>3, <2>4
    <2> HIDE DEF first, second
    <2>6. w \in Seq(Writes) /\ Len(w) = 2 /\ w[1] = Set(c, END) /\ w[2] = Set(p, c)
        BY <2>5, ConcatProperties
    <2>7. w # <<>>
        BY <2>6
    <2>8. Allocates(t, w)
        BY <1>1, <2>1, <2>2, <2>6 DEF Allocates
    <2> QED
        BY <1>1, <2>6, <2>7, <2>8 DEF Plan, Delta
<1> QED
    BY <1>3, <1>4

\* The clusters of a chain differ.
LEMMA ChainIsDistinct ==
    ASSUME NEW t, WellFormed(t), NEW h, NEW w \in Chains(t, h),
           NEW i \in 1 .. Len(w), NEW j \in 1 .. Len(w), i < j
    PROVE  w[i] # w[j]
<1> SUFFICES ASSUME w[i] = w[j] PROVE FALSE
    OBVIOUS
<1>1. PICK n \in Nat : w \in [1 .. n -> DOMAIN t] /\ Len(w) = n
    BY DEF Chains
<1>2. \A k \in 1 .. Len(w) - 1 : t[w[k]] = w[k + 1]
    BY DEF Chains
<1> DEFINE S == {w[k] : k \in i .. j - 1}
<1>3. S \in SUBSET DOMAIN t /\ w[i] \in S
    BY <1>1
<1>4. ASSUME NEW e \in S PROVE t[e] \in S
    <2>1. PICK k \in i .. j - 1 : e = w[k]
        OBVIOUS
    <2>2. t[e] = w[k + 1]
        BY <1>1, <1>2, <2>1
    <2>3. CASE k = j - 1
        BY <1>3, <2>2, <2>3
    <2>4. CASE k # j - 1
        <3>1. k + 1 \in i .. j - 1
            BY <1>1, <2>4
        <3> QED
            BY <2>2, <3>1
    <2> QED
        BY <2>3, <2>4
<1> HIDE DEF S
<1> QED
    BY <1>3, <1>4 DEF WellFormed

\* dealloc_clusters writes what a plan allows, and its count does not overflow.
LEMMA FreePlans ==
    ASSUME Geometry, NEW t \in [Clusters -> Entries], WellFormed(t),
           NEW h \in HeadsOf(t), NEW chain \in Chains(t, h),
           NEW w, w = [i \in DOMAIN chain |-> Set(chain[i], FREE)]
    PROVE  /\ w \in Seq(Writes) /\ w # <<>> /\ Plan(t, w)
           /\ Len(chain) \in Nat /\ Delta(w) = Len(chain)
           /\ FreeCount(t) + Len(chain) < U32Mod
<1>1. PICK n \in Nat : chain \in [1 .. n -> Clusters] /\ Len(chain) = n /\ n >= 1
    <2>1. DOMAIN t = Clusters
        OBVIOUS
    <2>2. PICK n \in 1 .. Cardinality(Clusters) : chain \in [1 .. n -> Clusters]
        BY <2>1 DEF Chains
    <2>3. Cardinality(Clusters) \in Nat
        BY FS_CardinalityType DEF Geometry
    <2> QED
        BY <2>2, <2>3
<1>2. DOMAIN chain = 1 .. n
    BY <1>1
<1>3. /\ chain[1] = h /\ t[h] # FREE /\ Unreferenced(t, h)
      /\ \A i \in 1 .. n - 1 : t[chain[i]] = chain[i + 1]
    BY <1>1 DEF Chains, HeadsOf, Unreferenced
<1>4. /\ w \in [1 .. n -> Writes]
      /\ \A i \in 1 .. n : w[i].id = chain[i] /\ w[i].value = FREE
    BY <1>1, <1>2 DEF Writes, Set, Entries
<1>5. w \in Seq(Writes) /\ Len(w) = n
    BY <1>1, <1>4
<1>6. w # <<>>
    BY <1>1, <1>5
<1>7. \A i \in 1 .. n : t[chain[i]] # FREE
    <2> TAKE i \in 1 .. n
    <2>1. CASE i = 1
        BY <1>3, <2>1
    <2>2. CASE i # 1
        <3>1. i - 1 \in 1 .. n - 1 /\ i - 1 \in 1 .. n
            BY <1>1, <2>2
        <3>2. t[chain[i - 1]] = chain[i]
            BY <1>1, <1>3, <3>1
        <3>3. chain[i - 1] \in Clusters /\ chain[i] \in Clusters
            BY <1>1, <3>1
        <3> QED
            BY <3>2, <3>3 DEF WellFormed
    <2> QED
        BY <2>1, <2>2
<1>8. \A i, j \in 1 .. n : chain[i] = chain[j] => i = j
    <2> SUFFICES ASSUME NEW i \in 1 .. n, NEW j \in 1 .. n, chain[i] = chain[j] PROVE i = j
        OBVIOUS
    <2>1. ~(i < j)
        BY <1>1, ChainIsDistinct
    <2>2. ~(j < i)
        BY <1>1, ChainIsDistinct
    <2> QED
        BY <2>1, <2>2
<1>9. Frees(t, w)
    <2>1. 1 \in 1 .. n
        BY <1>1
    <2>2. Unreferenced(t, w[1].id)
        BY <1>3, <1>4, <2>1
    <2>3. \A i \in 1 .. n : w[i].value = FREE /\ t[w[i].id] # FREE
        BY <1>4, <1>7
    <2>4. \A i \in 1 .. n - 1 : t[w[i].id] = w[i + 1].id
        <3> TAKE i \in 1 .. n - 1
        <3>1. i \in 1 .. n /\ i + 1 \in 1 .. n
            BY <1>1
        <3> QED
            BY <1>3, <1>4, <3>1
    <2>5. \A i, j \in 1 .. n : w[i].id = w[j].id => i = j
        BY <1>4, <1>8
    <2> QED
        BY <1>1, <1>5, <2>2, <2>3, <2>4, <2>5 DEF Frees
<1>10. Delta(w) = Len(chain)
    <2>1. w[1].value = FREE
        BY <1>1, <1>4
    <2> QED
        BY <1>1, <1>5, <1>6, <2>1, SpecialEntries DEF Delta
<1>11. FreeCount(t) + n < U32Mod
    <2> DEFINE used == Clusters \ FreeOf(t)
    <2>1. /\ IsFiniteSet(Clusters) /\ Cardinality(Clusters) \in Nat
          /\ Cardinality(Clusters) < U32Mod /\ U32Mod \in Nat
        BY FS_CardinalityType, BootAssumption DEF Geometry, BootAssumption
    <2>2. FreeOf(t) \in SUBSET Clusters /\ used \in SUBSET Clusters
        BY DEF FreeOf
    <2>3. IsFiniteSet(FreeOf(t)) /\ IsFiniteSet(used)
        BY <2>1, <2>2, FS_Subset
    <2>4. Cardinality(FreeOf(t)) \in Nat /\ Cardinality(used) \in Nat
        BY <2>3, FS_CardinalityType
    <2>5. Cardinality(Clusters) = Cardinality(FreeOf(t)) + Cardinality(used)
        <3>1. FreeOf(t) \cup used = Clusters /\ FreeOf(t) \cap used = {}
            BY <2>2
        <3>2. Cardinality(FreeOf(t) \cap used) = 0
            BY <3>1, FS_EmptySet
        <3> HIDE DEF used
        <3>3. Cardinality(FreeOf(t) \cup used)
                 = Cardinality(FreeOf(t)) + Cardinality(used) - Cardinality(FreeOf(t) \cap used)
            BY <2>3, FS_Union
        <3>4. Cardinality(Clusters) = Cardinality(FreeOf(t)) + Cardinality(used) - 0
            BY <3>1, <3>2, <3>3, Zenon
        <3> QED
            BY <2>4, <3>4
    <2>6. chain \in Injection(1 .. n, used)
        <3>1. chain \in [1 .. n -> used]
            BY <1>1, <1>7 DEF FreeOf
        <3> QED
            BY <1>8, <3>1 DEF Injection, IsInjective
    <2>7. Cardinality(1 .. n) <= Cardinality(used)
        BY <2>3, <2>6, FS_Injection
    <2>8. Cardinality(1 .. n) = n
        BY <1>1, FS_Interval
    <2> HIDE DEF used
    <2> QED
        BY <1>1, <2>1, <2>4, <2>5, <2>7, <2>8 DEF FreeCount
<1> QED
    BY <1>1, <1>5, <1>6, <1>9, <1>10, <1>11 DEF Plan

-----------------------------------------------------------------------------
(* The device as it is found first.                                        *)

\* The sectors of the second table are counted like those of the first.
LEMMA SameSector ==
    ASSUME NEW n \in Nat, NEW q \in Nat, q < n
    PROVE  q % n = q /\ (n + q) % n = q
BY SMT

\* A formatted device holds each entry in its place, in every table it has.
LEMMA FormattedHolds ==
    ASSUME Usable(bpb), Geometry, NEW t \in [Clusters -> Entries], NEW m \in Nat,
           NEW D, D = Formatted(bpb, t, m)
    PROVE  /\ D \in [InfoSectors -> [Offsets -> Nat]]
           /\ D[bpb.fsinfo][0] = m
           /\ \A c \in Clusters :
                /\ D[Fat(c)][Off(c)] = t[c]
                /\ bpb.fats = 2 => D[Bak(c)][Off(c)] = t[c]
<1> DEFINE e == EntriesPerSector(bpb)
           n == bpb.fatSectors
           r == bpb.reserved
           at(s, i) == ((s - r) % n) * e + i
           value(s, i) ==
               IF s = bpb.fsinfo THEN (IF i = 0 THEN m ELSE 0)
               ELSE IF s < r THEN 0
               ELSE IF at(s, i) \in DOMAIN t THEN t[at(s, i)] ELSE END
<1>1. D = [s \in InfoSectors |-> [i \in Offsets |-> value(s, i)]]
    BY DEF Formatted, InfoSectors, Offsets
<1>2. \A s \in InfoSectors, i \in Offsets : D[s][i] = value(s, i)
    <2> HIDE DEF value
    <2> QED
        BY <1>1
<1>3. ASSUME NEW s, NEW i PROVE value(s, i) \in Nat
    <2>1. END \in Nat
        BY DEF END
    <2>2. \A c \in DOMAIN t : t[c] \in Nat
        BY SpecialEntries
    <2> QED
        BY <2>1, <2>2
<1>4. D \in [InfoSectors -> [Offsets -> Nat]]
    <2> HIDE DEF value
    <2> QED
        BY <1>1, <1>3
<1>5. D[bpb.fsinfo][0] = m
    BY <1>2 DEF Geometry
<1>6. /\ bpb.fats \in {1, 2} /\ n \in Nat /\ r \in Nat
      /\ e \in {1, 2, 4, 8, 16, 32, 64, 128, 256, 512, 1024}
      /\ FirstBackupFatsSector(bpb) = r + n
      /\ TotalClusters(bpb) \in Nat
    BY Numbers
<1>7. ASSUME NEW c \in Clusters
      PROVE  /\ D[Fat(c)][Off(c)] = t[c]
             /\ bpb.fats = 2 => D[Bak(c)][Off(c)] = t[c]
    <2>1. c \in Nat /\ c < n * e
        <3>1. c \in Nat /\ c < 2 + TotalClusters(bpb)
            BY <1>6, SMT DEF Clusters, DataIds, FirstCluster
        <3>2. 2 + TotalClusters(bpb) <= n * e
            BY DEF Usable, TableHolds, FirstCluster
        <3>3. n * e \in Nat
            BY <1>6, SMT
        <3> HIDE DEF n, e
        <3> QED
            BY <1>6, <3>1, <3>2, <3>3, SMT
    <2>2. PICK q \in Nat : q = c \div e /\ q < n /\ q * e + (c % e) = c
        <3> HIDE DEF n, e
        <3>1. c \div e \in 0 .. n - 1 /\ (c \div e) * e + (c % e) = c
            BY <1>6, <2>1, Places
        <3> QED
            BY <1>6, <3>1
    <2>3. Fat(c) = r + q /\ Bak(c) = r + n + q /\ Off(c) = c % e
        BY <1>6, <2>2 DEF Fat, Bak, Off, Position, FirstFatsSector
    <2>4. q % n = q /\ (n + q) % n = q
        BY <1>6, <2>2, SameSector
    <2>5. (Fat(c) - r) % n = q /\ (Bak(c) - r) % n = q
        <3> HIDE DEF n, r
        <3>1. (r + q) - r = q /\ (r + n + q) - r = n + q
            BY <1>6, SMT
        <3> QED
            BY <2>3, <2>4, <3>1
    <2>6. at(Fat(c), Off(c)) = c /\ at(Bak(c), Off(c)) = c
        BY <2>2, <2>3, <2>5
    <2>7. ~(Fat(c) < r) /\ ~(Bak(c) < r)
        <3> HIDE DEF n, r
        <3> QED
            BY <1>6, <2>3, SMT
    <2>8. /\ Fat(c) # bpb.fsinfo /\ Bak(c) # bpb.fsinfo /\ DOMAIN t = Clusters
          /\ Fat(c) \in InfoSectors /\ Off(c) \in Offsets
          /\ bpb.fats = 2 => Bak(c) \in InfoSectors
        BY DEF Geometry
    <2> HIDE DEF at, n, r, e
    <2>9. value(Fat(c), Off(c)) = t[c] /\ value(Bak(c), Off(c)) = t[c]
        BY <2>6, <2>7, <2>8, Zenon
    <2> HIDE DEF value
    <2> QED
        BY <1>2, <2>8, <2>9, Zenon
<1> QED
    BY <1>4, <1>5, <1>7

\* The tables on the device, entry by entry.
LEMMA OnDiskIs ==
    /\ OnDisk(1) = [c \in Clusters |-> disk[Fat(c)][Off(c)]]
    /\ OnDisk(2) = [c \in Clusters |-> disk[Bak(c)][Off(c)]]
BY DEF OnDisk, Fat, Bak, Off

\* The invariant holds of a formatted device, and of one that is looked at.
LEMMA InitIInv == Init => IInv
<1> SUFFICES ASSUME Init PROVE IInv
    OBVIOUS
<1>1. CASE InitBlank
    BY <1>1 DEF Init, InitBlank, IInv, Blank
<1>2. CASE InitFormatted
    <2> DEFINE m == Cardinality(FreeOf(table))
    <2>1. /\ Usable(bpb) /\ table \in [Clusters -> Entries] /\ WellFormed(table)
          /\ disk = Formatted(bpb, table, m) /\ pc = "off" /\ buf = <<>> /\ count = 0
          /\ todo = <<>> /\ copy = 1 /\ calls = 0 /\ crashes = 0 /\ ~crashed
        BY <1>2, VolumeAssumption
           DEF Init, InitFormatted, Usable, VolumeAssumption, Clusters, Entries, crashed
    <2>2. Geometry
        BY <2>1, UsableGeometry
    <2>3. m \in Nat /\ m < U32Mod /\ m \in Counts
        BY <2>1, <2>2, TableCounts DEF FreeCount
    <2> HIDE DEF m
    <2>4. /\ disk \in [InfoSectors -> [Offsets -> Nat]]
          /\ disk[bpb.fsinfo][0] = m
          /\ \A c \in Clusters :
                /\ disk[Fat(c)][Off(c)] = table[c]
                /\ bpb.fats = 2 => disk[Bak(c)][Off(c)] = table[c]
        BY <2>1, <2>2, <2>3, FormattedHolds
    <2>5. DOMAIN buf = {} /\ \A s : Sector(s) = disk[s]
        BY <2>1 DEF Sector
    <2>6. \A c \in Clusters :
            /\ Entry(c) = table[c]
            /\ bpb.fats = 2 => BackupEntry(c) = table[c]
        BY <2>4, <2>5 DEF Entry, BackupEntry, Fat, Bak, Off
    <2>7. OnDisk(1) = table /\ (bpb.fats = 2 => OnDisk(2) = table /\ BackupView = table)
        <3>1. [c \in Clusters |-> table[c]] = table
            BY <2>1
        <3>2. [c \in Clusters |-> disk[Fat(c)][Off(c)]] = [c \in Clusters |-> table[c]]
            BY <2>4
        <3>3. ASSUME bpb.fats = 2
              PROVE  /\ [c \in Clusters |-> disk[Bak(c)][Off(c)]] = [c \in Clusters |-> table[c]]
                     /\ [c \in Clusters |-> BackupEntry(c)] = [c \in Clusters |-> table[c]]
            BY <2>4, <2>6, <3>3
        <3> QED
            BY <3>1, <3>2, <3>3, OnDiskIs DEF BackupView
    <2>8. NoDangling(table) /\ NoDanglingWithin(table)
        BY <2>1 DEF WellFormed, NoDangling, NoDanglingWithin
    <2>9. Shape
        <3>1. 0 \in Counts /\ 0 \in 0 .. MaxCalls
            BY BootAssumption, VolumeAssumption DEF BootAssumption, VolumeAssumption, Counts
        <3>2. buf \in [DOMAIN buf -> [Offsets -> Nat]]
            BY <2>1, <2>5
        <3>3. todo \in Seq(Writes)
            BY <2>1
        <3>4. DOMAIN buf \subseteq InfoSectors
            BY <2>5
        <3>5. /\ pc \in {"off", "up", "closing", "panicked"}
              /\ copy \in {1, 2} /\ copy # 2
            <4>1. pc = "off" /\ copy = 1
                BY <2>1
            <4> QED
                BY <4>1
        <3>6. crashes \in 0 .. MaxCrashes
            BY <2>1, VolumeAssumption DEF VolumeAssumption
        <3>7. count \in Counts /\ calls \in 0 .. MaxCalls
            BY <2>1, <3>1, Zenon
        <3> QED
            BY <2>1, <2>4, <3>2, <3>3, <3>4, <3>5, <3>6, <3>7, Zenon DEF Shape
    <2>10. Holds
        BY <2>1, <2>3, <2>4, <2>5, <2>6 DEF Holds
    <2>11. Stored
        BY <2>1, <2>3, <2>4, <2>7, <2>8 DEF Stored
    <2>12. Counted /\ Planned
        BY <2>1, <2>4, <2>5 DEF Counted, Planned, FreeCount, m
    <2> QED
        BY <2>2, <2>9, <2>10, <2>11, <2>12 DEF IInv, Working
<1> QED
    BY <1>1, <1>2 DEF Init

-----------------------------------------------------------------------------
(* The steps.                                                              *)

\* The table that is read is the one the history keeps.
LEMMA ViewIsTable == ASSUME Shape, Holds PROVE View = table
BY DEF Shape, Holds, View

\* What is on the device is what its sectors and places make of it.
LEMMA DeviceStays ==
    ASSUME bpb' = bpb, disk' = disk
    PROVE  /\ OnDisk(1)' = OnDisk(1) /\ OnDisk(2)' = OnDisk(2)
           /\ disk[bpb.fsinfo][0]' = disk[bpb.fsinfo][0]
           /\ NoDanglingWithin(OnDisk(1)) => NoDanglingWithin(OnDisk(1))'
           /\ NoDanglingWithin(OnDisk(2)) => NoDanglingWithin(OnDisk(2))'
<1>1. OnDisk(1)' = OnDisk(1) /\ OnDisk(2)' = OnDisk(2)
    BY PlacesStay DEF OnDisk
<1>2. ASSUME NEW t, NoDanglingWithin(t) PROVE NoDanglingWithin(t)'
    BY <1>2, PlacesStay DEF NoDanglingWithin
<1>3. PICK t, u : t = OnDisk(1) /\ u = OnDisk(2)
    OBVIOUS
<1>4. t = OnDisk(1)' /\ u = OnDisk(2)'
    BY <1>1, <1>3
<1>5. NoDanglingWithin(OnDisk(1)) => NoDanglingWithin(OnDisk(1))'
    BY <1>2, <1>3, <1>4 DEF NoDanglingWithin
<1>6. NoDanglingWithin(OnDisk(2)) => NoDanglingWithin(OnDisk(2))'
    BY <1>2, <1>3, <1>4 DEF NoDanglingWithin
<1> QED
    BY <1>1, <1>5, <1>6

\* So is what get_cache gives.
LEMMA SectorsStay ==
    ASSUME bpb' = bpb, \A x : Sector(x)' = Sector(x)
    PROVE  /\ \A c : Entry(c)' = Entry(c) /\ BackupEntry(c)' = BackupEntry(c)
           /\ Sector(bpb.fsinfo)'[0] = Sector(bpb.fsinfo)[0]
           /\ BackupView' = BackupView
<1>1. \A c : Entry(c)' = Entry(c) /\ BackupEntry(c)' = BackupEntry(c)
    BY DEF Entry, BackupEntry
<1> QED
    BY <1>1, PlacesStay DEF BackupView

\* A step that writes nothing to the device keeps what is stored there, if the
\* second table as get_cache gives it stays as good as it was.
LEMMA StoredStays ==
    ASSUME Stored, bpb' = bpb, disk' = disk, crashed => crashed',
           bpb.fats = 2 /\ ~crashed' => NoDangling(BackupView')
    PROVE  Stored'
<1>1. /\ OnDisk(1)' \in [Clusters' -> Entries'] /\ NoDanglingWithin(OnDisk(1))'
    BY DeviceStays, PlacesStay DEF Stored
<1>2. disk'[bpb'.fsinfo][0] \in Counts'
    BY DEF Stored, Counts
<1>3. bpb.fats = 2 /\ ~crashed' => NoDanglingWithin(OnDisk(2))'
    BY DeviceStays DEF Stored
<1>4. (bpb.fats = 2 /\ ~crashed => NoDangling(BackupView) /\ NoDanglingWithin(OnDisk(2)))'
    BY <1>3 DEF NoDangling
<1> QED
    BY <1>1, <1>2, <1>4 DEF Stored

\* A call begins: its writes are planned, and counted at once.
LEMMA BeginsAsPlanned ==
    ASSUME Working, NEW w \in Seq(Writes), w # <<>>, Plan(table, w), Begin(w),
           count' \in Counts, ~crashed => count' = FreeCount(table) + Delta(w)
    PROVE  Working'
<1>1. /\ pc = "up" /\ todo = <<>> /\ todo' = w /\ calls' = calls + 1
      /\ calls < (IF crashed THEN CallsCrashed ELSE MaxCalls)
      /\ bpb' = bpb /\ disk' = disk /\ buf' = buf /\ copy' = copy /\ pc' = pc
      /\ table' = table
      /\ crashed' = crashed /\ crashes' = crashes
    BY DEF Begin, MayCall, crashed
<1>2. Geometry /\ Shape /\ Holds /\ Stored /\ Counted /\ Planned
    BY DEF Working
<1>3. copy = 1
    BY <1>1, <1>2 DEF Shape
<1>4. Geometry'
    BY <1>1, <1>2, PlacesStay
<1>5. Shape'
    <2>1. calls' \in 0 .. MaxCalls
        BY <1>1, <1>2, VolumeAssumption DEF Shape, VolumeAssumption
    <2>2. Counts' = Counts
        BY DEF Counts
    <2> QED
        BY <1>1, <1>2, <1>3, <2>1, <2>2, PlacesStay DEF Shape
<1>6. \A x : Sector(x)' = Sector(x)
    BY <1>1 DEF Sector
<1>7. Holds'
    <2>1. Counts' = Counts
        BY DEF Counts
    <2> QED
        BY <1>1, <1>2, <1>3, <1>6, <2>1, PlacesStay, SectorsStay DEF Holds
<1>8. Stored'
    <2>1. bpb.fats = 2 /\ ~crashed' => NoDangling(BackupView')
        BY <1>1, <1>2, <1>6, SectorsStay DEF Stored
    <2> QED
        BY <1>1, <1>2, <2>1, StoredStays
<1>9. Counted'
    BY <1>1, <1>3 DEF Counted, Pending
<1>10. Planned'
    BY <1>1, <1>2, <1>3 DEF Planned, Pending
<1> QED
    BY <1>4, <1>5, <1>7, <1>8, <1>9, <1>10 DEF Working

LEMMA AllocKeeps ==
    ASSUME Working, pc = "up", NEW p \in {NONE} \cup TailsOf(View), Alloc(p)
    PROVE  Working'
<1>1. Geometry /\ Shape /\ Holds /\ Counted /\ Planned
    BY DEF Working
<1>2. View = table /\ table \in [Clusters -> Entries] /\ WellFormed(table)
    BY <1>1, ViewIsTable DEF Shape, Planned
<1>3. PICK c \in FreeOf(View) :
        /\ Begin(<<Set(c, END)>> \o (IF p = NONE THEN <<>> ELSE <<Set(p, c)>>))
        /\ count' = Wrapped(count - 1)
    BY DEF Alloc
<1>4. c \in Clusters /\ table[c] = FREE
    BY <1>2, <1>3 DEF FreeOf
<1>5. PICK w : w = <<Set(c, END)>> \o (IF p = NONE THEN <<>> ELSE <<Set(p, c)>>)
    OBVIOUS
<1>6. w \in Seq(Writes) /\ w # <<>> /\ Plan(table, w) /\ Delta(w) = -1
    <2>1. p \in {NONE} \cup TailsOf(table)
        BY <1>2
    <2> QED
        BY <1>1, <1>2, <1>4, <1>5, <2>1, AllocPlans
<1>7. count' \in Counts
    <2>1. U32Mod \in Nat \ {0} /\ count \in Int
        BY <1>1, BootAssumption DEF BootAssumption, Shape, Counts
    <2> QED
        BY <1>3, <2>1, SMT DEF Wrapped, Counts
<1>8. ~crashed => count' = FreeCount(table) + Delta(w)
    <2> SUFFICES ASSUME ~crashed PROVE count' = FreeCount(table) + Delta(w)
        OBVIOUS
    <2>1. todo = <<>> /\ copy = 1
        BY <1>1, <1>3 DEF Begin, MayCall, Shape
    <2>2. count = FreeCount(table) + 0
        BY <1>1, <2>1 DEF Counted, Pending, Delta
    <2>3. PICK u : u = [table EXCEPT ![c] = END]
        OBVIOUS
    <2>4. END \in Entries /\ END # FREE /\ u \in [Clusters -> Entries]
        BY <1>1, <1>2, <2>3, SpecialEntries DEF Entries
    <2>5. /\ FreeCount(table) \in Nat /\ FreeCount(table) < U32Mod
          /\ FreeCount(u) = FreeCount(table) - 1
        <3>1. FreeCount(table) \in Nat /\ FreeCount(table) < U32Mod
            BY <1>1, <1>2, TableCounts
        <3>2. PICK t \in [Clusters -> Entries] : t = table
            BY <1>2
        <3>3. PICK v \in Entries : v = END
            BY <2>4
        <3>4. t[c] = FREE /\ v # FREE /\ u = [t EXCEPT ![c] = v]
            BY <1>4, <2>3, <2>4, <3>2, <3>3
        <3>5. FreeCount(u) = FreeCount(t) - 1
            BY <1>1, <1>4, <3>4, FreeCounts
        <3> QED
            BY <3>1, <3>2, <3>5
    <2>6. FreeCount(u) \in Nat
        BY <1>1, <1>4, <2>4, FreeCounts
    <2>7. count - 1 \in Nat /\ count - 1 < U32Mod
        BY <2>2, <2>5, <2>6, BootAssumption DEF BootAssumption
    <2>8. count' = count - 1
        BY <1>3, <2>7, NotWrapped
    <2> QED
        BY <1>6, <2>2, <2>5, <2>8
<1> QED
    BY <1>3, <1>5, <1>6, <1>7, <1>8, BeginsAsPlanned

LEMMA FreeKeeps ==
    ASSUME Working, pc = "up", NEW h \in HeadsOf(View), Free(h)
    PROVE  Working'
<1>1. Geometry /\ Shape /\ Holds /\ Counted /\ Planned
    BY DEF Working
<1>2. View = table /\ table \in [Clusters -> Entries] /\ WellFormed(table)
    BY <1>1, ViewIsTable DEF Shape, Planned
<1>3. PICK chain \in Chains(View, h) :
        /\ Begin([i \in DOMAIN chain |-> Set(chain[i], FREE)])
        /\ count' = Wrapped(count + Len(chain))
    BY DEF Free
<1>4. PICK w : w = [i \in DOMAIN chain |-> Set(chain[i], FREE)]
    OBVIOUS
<1>5. /\ w \in Seq(Writes) /\ w # <<>> /\ Plan(table, w)
      /\ Len(chain) \in Nat /\ Delta(w) = Len(chain)
      /\ FreeCount(table) + Len(chain) < U32Mod
    <2>1. h \in HeadsOf(table) /\ chain \in Chains(table, h)
        BY <1>2, <1>3
    <2> QED
        BY <1>1, <1>2, <1>4, <2>1, FreePlans
<1>6. count' \in Counts
    <2>1. U32Mod \in Nat \ {0} /\ count \in Int
        BY <1>1, BootAssumption DEF BootAssumption, Shape, Counts
    <2> QED
        BY <1>3, <1>5, <2>1, SMT DEF Wrapped, Counts
<1>7. ~crashed => count' = FreeCount(table) + Delta(w)
    <2> SUFFICES ASSUME ~crashed PROVE count' = FreeCount(table) + Delta(w)
        OBVIOUS
    <2>1. todo = <<>> /\ copy = 1
        BY <1>1, <1>3 DEF Begin, MayCall, Shape
    <2>2. count = FreeCount(table) + 0
        BY <1>1, <2>1 DEF Counted, Pending, Delta
    <2>3. count \in Nat
        BY <1>1, BootAssumption DEF Shape, Counts, BootAssumption
    <2>4. FreeCount(table) \in Nat
        BY <1>1, <1>2, TableCounts
    <2>5. count = FreeCount(table)
        BY <2>2, <2>4
    <2>6. count + Len(chain) \in Nat /\ count + Len(chain) < U32Mod
        BY <1>5, <2>3, <2>5
    <2>7. count' = count + Len(chain)
        BY <1>3, <2>6, NotWrapped
    <2> QED
        BY <1>5, <2>5, <2>7
<1> QED
    BY <1>3, <1>4, <1>5, <1>6, <1>7, BeginsAsPlanned

\* The first of the writes that are still to make.
LEMMA NextWrite ==
    ASSUME Shape, todo # <<>>
    PROVE  /\ Head(todo) \in Writes /\ Head(todo) = todo[1]
           /\ Tail(todo) \in Seq(Writes)
BY HeadTailProperties DEF Shape

LEMMA SetFirstKeeps == ASSUME Working, SetFirst PROVE Working'
<1>1. Geometry /\ Shape /\ Holds /\ Stored /\ Counted /\ Planned
    BY DEF Working
<1>2. pc = "up" /\ todo # <<>> /\ copy = 1
    BY DEF SetFirst
<1>3. PICK w : w = Head(todo) /\ w = todo[1] /\ w \in Writes /\ Tail(todo) \in Seq(Writes)
    BY <1>1, <1>2, NextWrite
<1>4. w.id \in Clusters /\ w.value \in Entries /\ Fat(w.id) \in InfoSectors
    BY <1>1, <1>3 DEF Writes, Geometry
<1>5. /\ buf' = Modified(Fat(w.id), w) /\ table' = [table EXCEPT ![w.id] = w.value]
      /\ copy' = 2 /\ bpb' = bpb /\ disk' = disk /\ count' = count /\ todo' = todo
      /\ pc' = pc /\ calls' = calls
      /\ crashed' = crashed /\ crashes' = crashes
    BY <1>3, <1>4 DEF SetFirst, Fat, crashed
<1>6. /\ DOMAIN buf' \subseteq InfoSectors'
      /\ buf' \in [DOMAIN buf' -> [Offsets -> Nat]]
      /\ \A c \in Clusters :
            /\ Entry(c)' = IF c = w.id THEN w.value ELSE Entry(c)
            /\ BackupEntry(c)' = BackupEntry(c)
      /\ Sector(bpb.fsinfo)'[0] = Sector(bpb.fsinfo)[0]
    BY <1>1, <1>3, <1>5, SetFirstTouches
<1>7. table \in [Clusters -> Entries] /\ WellFormed(table) /\ Plan(table, todo) /\ todo \in Seq(Writes)
    BY <1>1, <1>2 DEF Shape, Planned, Pending
<1>8. /\ table' \in [Clusters -> Entries] /\ WellFormed(table') /\ Plan(table', Tail(todo))
      /\ FreeCount(table') + Delta(Tail(todo)) = FreeCount(table) + Delta(todo)
    <2>0. PICK u : u = table'
        OBVIOUS
    <2>1. PICK t \in [Clusters -> Entries] : t = table
        BY <1>7
    <2>2. PICK v \in Seq(Writes) : v = todo
        BY <1>7
    <2>3. v # <<>> /\ u = [t EXCEPT ![v[1].id] = v[1].value]
        BY <1>2, <1>3, <1>5, <2>0, <2>1, <2>2
    <2>4. WellFormed(t) /\ Plan(t, v)
        BY <1>7, <2>1, <2>2
    <2>5. /\ u \in [Clusters -> Entries] /\ WellFormed(u) /\ Plan(u, Tail(v))
          /\ FreeCount(u) + Delta(Tail(v)) = FreeCount(t) + Delta(v)
        BY <1>1, <2>3, <2>4, PlanStep
    <2> QED
        BY <2>0, <2>1, <2>2, <2>5
<1>9. Geometry'
    BY <1>1, <1>5, PlacesStay
<1>10. Shape'
    <2>1. Counts' = Counts
        BY DEF Counts
    <2> QED
        BY <1>1, <1>2, <1>5, <1>6, <1>8, <2>1, PlacesStay DEF Shape
<1>11. Holds'
    <2>1. \A c \in Clusters : table'[c] = IF c = w.id THEN w.value ELSE table[c]
        BY <1>5, <1>7
    <2>2. \A c \in Clusters : Entry(c)' = table'[c]
        BY <1>1, <1>6, <2>1 DEF Holds
    <2>3. bpb.fats = 2 /\ ~crashed =>
            \A c \in Clusters : c = w.id \/ BackupEntry(c)' = Entry(c)'
        BY <1>1, <1>2, <1>6 DEF Holds
    <2>4. table'[w.id] = w.value
        BY <1>4, <2>1
    <2>5. Sector(bpb.fsinfo)'[0] \in Counts' /\ bpb.fsinfo' = bpb.fsinfo
        BY <1>1, <1>5, <1>6 DEF Holds, Counts
    <2>6. Clusters' = Clusters
        BY <1>5, PlacesStay
    <2>7. \A c \in Clusters' : Entry(c)' = table'[c]
        BY <2>2, <2>6
    <2>8. (bpb.fats = 2 /\ ~crashed =>
            \A c \in Clusters :
                \/ copy = 2 /\ c = Head(todo).id
                \/ BackupEntry(c) = Entry(c))'
        BY <1>3, <1>5, <2>3, <2>6
    <2>9. (copy = 2 => table[Head(todo).id] = Head(todo).value)'
        BY <1>3, <1>5, <2>4
    <2>10. (Sector(bpb.fsinfo)[0] \in Counts)'
        BY <1>5, <2>5 DEF Sector
    <2>11. pc' # "panicked"
        BY <1>2, <1>5
    <2> QED
        BY <2>7, <2>8, <2>9, <2>10, <2>11 DEF Holds
<1>12. Stored'
    <2>1. BackupView' = BackupView
        BY <1>5, <1>6, PlacesStay DEF BackupView
    <2> QED
        BY <1>1, <1>5, <2>1, StoredStays DEF Stored
<1>13. Counted'
    BY <1>1, <1>2, <1>5, <1>8 DEF Counted, Pending
<1>14. Planned'
    BY <1>2, <1>5, <1>8 DEF Planned, Pending
<1> QED
    BY <1>9, <1>10, <1>11, <1>12, <1>13, <1>14 DEF Working

\* The second write of set_entry_raw: where there is no second table, a panic.
LEMMA SetSecondKeeps == ASSUME Working, SetSecond PROVE Working'
<1>1. Geometry /\ Shape /\ Holds /\ Stored /\ Counted /\ Planned
    BY DEF Working
<1>2. pc = "up" /\ todo # <<>> /\ copy = 2
    BY DEF SetSecond
<1>3. PICK w : w = Head(todo) /\ w = todo[1] /\ w \in Writes /\ Tail(todo) \in Seq(Writes)
    BY <1>1, <1>2, NextWrite
<1>4. w.id \in Clusters /\ w.value \in Entries
    BY <1>3 DEF Writes
<1>5. bpb' = bpb /\ disk' = disk /\ count' = count /\ calls' = calls
      /\ table' = table
      /\ crashed' = crashed /\ crashes' = crashes
    BY DEF SetSecond, Panic, crashed
<1>6. Geometry' /\ Counts' = Counts
    BY <1>1, <1>5, PlacesStay DEF Counts
<1>7. CASE Bak(w.id) \notin InfoSectors
    <2>1. pc' = "panicked" /\ buf' = buf /\ todo' = todo /\ copy' = copy
        BY <1>3, <1>7 DEF SetSecond, Panic, Bak
    <2>2. bpb.fats = 1
        BY <1>1, <1>4, <1>7 DEF Geometry
    <2>3. \A x : Sector(x)' = Sector(x)
        BY <1>5, <2>1 DEF Sector
    <2>4. Shape'
        BY <1>1, <1>2, <1>5, <1>6, <2>1, PlacesStay DEF Shape
    <2>5. Holds'
        BY <1>1, <1>2, <1>5, <1>6, <2>1, <2>2, <2>3, PlacesStay, SectorsStay DEF Holds
    <2>6. Stored'
        BY <1>1, <1>5, <2>2, StoredStays
    <2>7. Counted' /\ Planned'
        BY <2>1 DEF Counted, Planned
    <2> QED
        BY <1>6, <2>4, <2>5, <2>6, <2>7 DEF Working
<1>8. CASE Bak(w.id) \in InfoSectors
    <2>1. /\ buf' = Modified(Bak(w.id), w) /\ copy' = 1 /\ todo' = Tail(todo) /\ pc' = pc
        BY <1>3, <1>8 DEF SetSecond, Bak
    <2>2. bpb.fats = 2
        BY <1>1, <1>4, <1>8 DEF Geometry
    <2>3. /\ DOMAIN buf' \subseteq InfoSectors'
          /\ buf' \in [DOMAIN buf' -> [Offsets -> Nat]]
          /\ \A c \in Clusters :
                /\ Entry(c)' = Entry(c)
                /\ BackupEntry(c)' = IF c = w.id THEN w.value ELSE BackupEntry(c)
          /\ Sector(bpb.fsinfo)'[0] = Sector(bpb.fsinfo)[0]
        BY <1>1, <1>3, <1>5, <1>8, <2>1, SetSecondTouches
    <2>4. Shape'
        BY <1>1, <1>2, <1>3, <1>5, <1>6, <2>1, <2>3, PlacesStay DEF Shape
    <2>5. ~crashed => \A c \in Clusters : BackupEntry(c)' = table[c]
        <3> SUFFICES ASSUME ~crashed, NEW c \in Clusters PROVE BackupEntry(c)' = table[c]
            OBVIOUS
        <3>1. CASE c = w.id
            BY <1>1, <1>2, <1>3, <2>3, <3>1 DEF Holds
        <3>2. CASE c # w.id
            BY <1>1, <1>3, <2>2, <2>3, <3>2 DEF Holds
        <3> QED
            BY <3>1, <3>2
    <2>6. Holds'
        <3>1. Clusters' = Clusters
            BY <1>5, PlacesStay
        <3>2. (\A c \in Clusters : Entry(c) = table[c])'
            BY <1>1, <1>5, <2>3, <3>1 DEF Holds
        <3>3. (bpb.fats = 2 /\ ~crashed => \A c \in Clusters : BackupEntry(c) = Entry(c))'
            BY <1>1, <1>5, <2>3, <2>5, <3>1 DEF Holds
        <3>4. (Sector(bpb.fsinfo)[0] \in Counts)'
            BY <1>1, <1>5, <1>6, <2>3 DEF Holds, Sector
        <3>5. copy' # 2 /\ pc' # "panicked"
            BY <1>2, <2>1
        <3> QED
            BY <3>2, <3>3, <3>4, <3>5 DEF Holds
    <2>7. Stored'
        <3>1. table \in [Clusters -> Entries] /\ WellFormed(table)
            BY <1>1, <1>2 DEF Shape, Planned
        <3>2. ~crashed => BackupView' = table
            BY <1>5, <2>5, <3>1, PlacesStay DEF BackupView
        <3>3. ~crashed => NoDangling(BackupView')
            BY <3>1, <3>2 DEF WellFormed, NoDangling
        <3> QED
            BY <1>1, <1>5, <3>3, StoredStays
    <2>8. Counted'
        BY <1>1, <1>2, <1>5, <2>1 DEF Counted, Pending
    <2>9. Planned'
        BY <1>1, <1>2, <1>5, <2>1 DEF Planned, Pending
    <2> QED
        BY <1>6, <2>4, <2>6, <2>7, <2>8, <2>9 DEF Working
<1> QED
    BY <1>7, <1>8

\* A table of which some sectors are brought up to date keeps its links good
\* within sectors.
LEMMA SectorsUpToDate ==
    ASSUME NEW S \in SUBSET Clusters,
           \A c, d \in Clusters : Fat(c) = Fat(d) => (c \in S <=> d \in S),
           NEW t, NoDanglingWithin(t),
           NEW v, DOMAIN v = Clusters, NoDangling(v),
           NEW u, \A c \in Clusters : u[c] = IF c \in S THEN v[c] ELSE t[c]
    PROVE  NoDanglingWithin(u)
<1> SUFFICES ASSUME NEW c \in Clusters, u[c] \in Clusters, Fat(c) = Fat(u[c])
             PROVE  u[u[c]] # FREE
    BY DEF NoDanglingWithin
<1>1. PICK d \in Clusters : d = u[c]
    OBVIOUS
<1>2. Fat(c) = Fat(d)
    BY <1>1
<1>3. c \in S <=> d \in S
    BY <1>2
<1>4. CASE c \in S
    <2>1. u[c] = v[c] /\ u[d] = v[d]
        BY <1>3, <1>4
    <2>2. v[d] # FREE
        BY <1>1, <2>1 DEF NoDangling
    <2> QED
        BY <1>1, <2>1, <2>2
<1>5. CASE c \notin S
    <2>1. u[c] = t[c] /\ u[d] = t[d]
        BY <1>3, <1>5
    <2>2. d = t[c]
        BY <1>1, <2>1
    <2>3. t[t[c]] # FREE
        BY <1>1, <1>2, <2>2 DEF NoDanglingWithin
    <2> QED
        BY <1>1, <2>1, <2>2, <2>3
<1> QED
    BY <1>4, <1>5

LEMMA EvictKeeps == ASSUME Working, NEW s \in DOMAIN buf, Evict(s) PROVE Working'
<1>1. Geometry /\ Shape /\ Holds /\ Stored /\ Counted /\ Planned
    BY DEF Working
<1>2. /\ pc \in {"up", "closing"} /\ bpb' = bpb /\ count' = count /\ todo' = todo
      /\ copy' = copy /\ pc' = pc /\ calls' = calls /\ table' = table
      /\ crashed' = crashed /\ crashes' = crashes
    BY DEF Evict, crashed
<1>3. /\ DOMAIN buf' \subseteq InfoSectors'
      /\ buf' \in [DOMAIN buf' -> [Offsets -> Nat]]
      /\ disk' \in [InfoSectors -> [Offsets -> Nat]]
      /\ disk'[s] = Sector(s)
      /\ \A x : x # s => disk'[x] = disk[x]
      /\ \A x : Sector(x)' = Sector(x)
    BY <1>1, EvictTouches
<1>4. Geometry' /\ Counts' = Counts
    BY <1>1, <1>2, PlacesStay DEF Counts
<1>5. Shape'
    BY <1>1, <1>2, <1>3, <1>4, PlacesStay DEF Shape
<1>6. Holds'
    BY <1>1, <1>2, <1>3, <1>4, PlacesStay, SectorsStay DEF Holds
<1>7. Stored'
    <2>1. /\ OnDisk(1)' = [c \in Clusters |-> disk'[Fat(c)][Off(c)]]
          /\ OnDisk(2)' = [c \in Clusters |-> disk'[Bak(c)][Off(c)]]
        BY <1>2, PlacesStay DEF OnDisk, Fat, Bak, Off
    <2>2. \A c : Entry(c) = Sector(Fat(c))[Off(c)] /\ BackupEntry(c) = Sector(Bak(c))[Off(c)]
        BY DEF Entry, BackupEntry, Fat, Bak, Off
    <2>3. PICK t, u, t2, u2 : /\ t = OnDisk(1) /\ u = OnDisk(1)'
                              /\ t2 = OnDisk(2) /\ u2 = OnDisk(2)'
        OBVIOUS
    <2>4. PICK S, S2 : /\ S = {c \in Clusters : Fat(c) = s}
                       /\ S2 = {c \in Clusters : Bak(c) = s}
        OBVIOUS
    <2>5. \A c \in Clusters : u[c] = IF c \in S THEN table[c] ELSE t[c]
        BY <1>1, <1>3, <2>1, <2>2, <2>3, <2>4, OnDiskIs DEF Holds
    <2>6. \A c \in Clusters : u2[c] = IF c \in S2 THEN BackupView[c] ELSE t2[c]
        BY <1>3, <2>1, <2>2, <2>3, <2>4, OnDiskIs DEF BackupView
    <2>7. table \in [Clusters -> Entries] /\ NoDangling(table)
        BY <1>1, <1>2 DEF Shape, Planned, WellFormed, NoDangling
    <2>8. \A c, d \in Clusters : Fat(c) = Fat(d) =>
             (c \in S <=> d \in S) /\ (c \in S2 <=> d \in S2)
        BY <1>1, <2>4 DEF Geometry
    <2>9. u \in [Clusters -> Entries]
        <3>1. \A c \in Clusters : u[c] \in Entries
            BY <1>1, <2>3, <2>5, <2>7 DEF Stored
        <3> QED
            BY <2>1, <2>3, <3>1
    <2>10. NoDanglingWithin(u)
        <3>1. NoDanglingWithin(t)
            BY <1>1, <2>3 DEF Stored
        <3>2. S \in SUBSET Clusters
            BY <2>4
        <3>3. PICK v : v = table
            OBVIOUS
        <3> QED
            BY <2>5, <2>7, <2>8, <3>1, <3>2, <3>3, SectorsUpToDate
    <2>11. bpb.fats = 2 /\ ~crashed => NoDanglingWithin(u2)
        <3> SUFFICES ASSUME bpb.fats = 2, ~crashed PROVE NoDanglingWithin(u2)
            OBVIOUS
        <3>1. NoDanglingWithin(t2) /\ NoDangling(BackupView)
            BY <1>1, <2>3 DEF Stored
        <3>2. S2 \in SUBSET Clusters
            BY <2>4
        <3>3. PICK v : v = BackupView
            OBVIOUS
        <3>4. DOMAIN v = Clusters
            BY <3>3 DEF BackupView
        <3> QED
            BY <2>6, <2>8, <3>1, <3>2, <3>3, <3>4, SectorsUpToDate
    <2>12. ASSUME NEW x, NoDanglingWithin(x) PROVE NoDanglingWithin(x)'
        BY <1>2, <2>12, PlacesStay DEF NoDanglingWithin
    <2>13. NoDanglingWithin(OnDisk(1))'
        BY <2>3, <2>10, <2>12 DEF NoDanglingWithin
    <2>14. bpb.fats = 2 /\ ~crashed => NoDanglingWithin(OnDisk(2))'
        BY <2>3, <2>11, <2>12 DEF NoDanglingWithin
    <2>15. disk'[bpb.fsinfo][0] \in Counts
        <3>1. CASE s = bpb.fsinfo
            BY <1>1, <1>3, <3>1 DEF Holds
        <3>2. CASE s # bpb.fsinfo
            BY <1>1, <1>3, <3>2 DEF Stored
        <3> QED
            BY <3>1, <3>2
    <2>16. BackupView' = BackupView
        BY <1>2, <1>3, SectorsStay
    <2>17. (disk[bpb.fsinfo][0] \in Counts)' /\ (OnDisk(1) \in [Clusters -> Entries])'
        BY <1>2, <1>4, <2>3, <2>9, <2>15, PlacesStay
    <2>18. (bpb.fats = 2 /\ ~crashed => NoDangling(BackupView) /\ NoDanglingWithin(OnDisk(2)))'
        BY <1>1, <1>2, <2>14, <2>16 DEF Stored, NoDangling
    <2> QED
        BY <2>13, <2>17, <2>18 DEF Stored
<1>8. Counted'
    BY <1>1, <1>2, <1>3, SectorsStay DEF Counted, Pending
<1>9. Planned'
    BY <1>1, <1>2 DEF Planned, Pending
<1> QED
    BY <1>4, <1>5, <1>6, <1>7, <1>8, <1>9 DEF Working

LEMMA CloseKeeps == ASSUME Working, Close PROVE Working'
<1>1. Geometry /\ Shape /\ Holds /\ Stored /\ Counted /\ Planned
    BY DEF Working
<1>2. /\ pc = "up" /\ todo = <<>> /\ pc' = "closing" /\ calls' = 0 /\ bpb' = bpb
      /\ disk' = disk /\ count' = count /\ todo' = todo /\ copy' = copy
      /\ table' = table
      /\ crashed' = crashed /\ crashes' = crashes
    BY DEF Close, crashed
<1>3. copy = 1
    BY <1>1, <1>2 DEF Shape
<1>4. /\ DOMAIN buf' \subseteq InfoSectors'
      /\ buf' \in [DOMAIN buf' -> [Offsets -> Nat]]
      /\ \A c \in Clusters : Entry(c)' = Entry(c) /\ BackupEntry(c)' = BackupEntry(c)
      /\ Sector(bpb.fsinfo)'[0] = count
    <2>1. /\ bpb' = bpb /\ disk' = disk /\ count' = count
          /\ buf' = WithCount
        BY <1>1 DEF Close, WithCount
    <2> QED
        BY <1>1, <2>1, CloseTouches
<1>5. Geometry' /\ Counts' = Counts /\ Clusters' = Clusters
    BY <1>1, <1>2, PlacesStay DEF Counts
<1>6. Shape'
    <2>1. 0 \in 0 .. MaxCalls
        BY VolumeAssumption DEF VolumeAssumption
    <2>2. calls' \in 0 .. MaxCalls
        BY <1>2, <2>1, Zenon
    <2> QED
        BY <1>1, <1>2, <1>3, <1>4, <1>5, <2>2, PlacesStay DEF Shape
<1>7. (Sector(bpb.fsinfo)[0] = count)'
    BY <1>2, <1>4 DEF Sector
<1>8. Holds'
    <2>1. (\A c \in Clusters : Entry(c) = table[c])'
        BY <1>1, <1>2, <1>4, <1>5 DEF Holds
    <2>2. (bpb.fats = 2 /\ ~crashed => \A c \in Clusters : BackupEntry(c) = Entry(c))'
        BY <1>1, <1>2, <1>3, <1>4, <1>5 DEF Holds
    <2>3. count' \in Counts'
        BY <1>1, <1>2, <1>5 DEF Shape
    <2>4. copy' # 2 /\ pc' # "panicked"
        BY <1>2, <1>3
    <2> QED
        BY <1>7, <2>1, <2>2, <2>3, <2>4 DEF Holds
<1>9. Stored'
    <2>1. BackupView' = BackupView
        BY <1>4, <1>5 DEF BackupView
    <2> QED
        BY <1>1, <1>2, <2>1, StoredStays DEF Stored
<1>10. Counted'
    <2> SUFFICES ASSUME ~crashed PROVE (Sector(bpb.fsinfo)[0] = FreeCount(table))'
        BY <1>2 DEF Counted
    <2>1. count = FreeCount(table) + 0
        BY <1>1, <1>2, <1>3 DEF Counted, Pending, Delta
    <2>2. FreeCount(table) \in Nat
        BY <1>1, TableCounts DEF Shape
    <2>3. count' = FreeCount(table')
        BY <1>2, <2>1, <2>2
    <2> QED
        BY <1>7, <2>3
<1>11. Planned'
    BY <1>1, <1>2 DEF Planned
<1> QED
    BY <1>5, <1>6, <1>8, <1>9, <1>10, <1>11 DEF Working

LEMMA ClosedKeeps == ASSUME Working, Closed PROVE Working'
<1>1. Geometry /\ Shape /\ Holds /\ Stored /\ Counted /\ Planned
    BY DEF Working
<1>2. /\ pc = "closing" /\ DOMAIN buf = {} /\ pc' = "off" /\ count' = 0 /\ calls' = calls
      /\ bpb' = bpb /\ disk' = disk /\ buf' = buf /\ todo' = todo /\ copy' = copy
      /\ table' = table
      /\ crashed' = crashed /\ crashes' = crashes
    BY DEF Closed, crashed
<1>3. Geometry' /\ Counts' = Counts
    BY <1>1, <1>2, PlacesStay DEF Counts
<1>4. \A x : Sector(x)' = Sector(x)
    BY <1>2 DEF Sector
<1>5. Shape'
    <2>1. count' \in Counts
        BY <1>2, BootAssumption DEF BootAssumption, Counts
    <2>2. buf' = <<>>
        BY <1>1, <1>2 DEF Shape
    <2>3. DOMAIN buf' \subseteq InfoSectors' /\ buf' \in [DOMAIN buf' -> [Offsets' -> Nat]]
        BY <1>1, <1>2, PlacesStay DEF Shape
    <2> QED
        BY <1>1, <1>2, <1>3, <2>1, <2>2, <2>3, PlacesStay DEF Shape
<1>6. Holds'
    BY <1>1, <1>2, <1>3, <1>4, PlacesStay, SectorsStay DEF Holds
<1>7. Stored'
    <2>1. BackupView' = BackupView
        BY <1>2, <1>4, SectorsStay
    <2> QED
        BY <1>1, <1>2, <2>1, StoredStays DEF Stored
<1>8. Counted'
    BY <1>1, <1>2, <1>4, SectorsStay DEF Counted
<1>9. Planned'
    BY <1>1, <1>2 DEF Planned
<1> QED
    BY <1>3, <1>5, <1>6, <1>7, <1>8, <1>9 DEF Working

LEMMA MountKeeps == ASSUME Working, Mount PROVE Working'
<1>1. Geometry /\ Shape /\ Holds /\ Stored /\ Counted /\ Planned
    BY DEF Working
<1>2. /\ pc = "off" /\ WellFormed(OnDisk(1)) /\ count' = disk[bpb.fsinfo][0] /\ pc' = "up"
      /\ bpb' = bpb /\ disk' = disk /\ buf' = buf /\ todo' = todo /\ copy' = copy
      /\ calls' = calls /\ table' = table
      /\ crashed' = crashed /\ crashes' = crashes
    BY DEF Mount, crashed
<1>3. Geometry' /\ Counts' = Counts
    BY <1>1, <1>2, PlacesStay DEF Counts
<1>4. /\ todo = <<>> /\ buf = <<>> /\ copy = 1
    BY <1>1, <1>2 DEF Shape
<1>5. \A x : Sector(x)' = Sector(x) /\ Sector(x) = disk[x]
    BY <1>2, <1>4 DEF Sector
<1>6. OnDisk(1) = table
    <2>1. \A c \in Clusters : disk[Fat(c)][Off(c)] = table[c]
        BY <1>1, <1>5 DEF Holds, Entry, Fat, Off
    <2> QED
        BY <1>1, <2>1, OnDiskIs DEF Shape
<1>7. Shape'
    BY <1>1, <1>2, <1>3, <1>4, PlacesStay DEF Shape, Stored
<1>8. Holds'
    BY <1>1, <1>2, <1>3, <1>5, PlacesStay, SectorsStay DEF Holds
<1>9. Stored'
    <2>1. BackupView' = BackupView
        BY <1>2, <1>5, SectorsStay
    <2> QED
        BY <1>1, <1>2, <2>1, StoredStays DEF Stored
<1>10. Counted'
    <2> SUFFICES ASSUME ~crashed PROVE count' = FreeCount(table') + Delta(Pending')
        BY <1>2 DEF Counted
    <2>1. count' = FreeCount(table)
        BY <1>1, <1>2, <1>5 DEF Counted
    <2>2. Delta(Pending') = 0
        BY <1>2, <1>4 DEF Pending, Delta
    <2>3. FreeCount(table) \in Nat
        BY <1>1, TableCounts DEF Shape
    <2> QED
        BY <1>2, <2>1, <2>2, <2>3
<1>11. Planned'
    BY <1>2, <1>4, <1>6 DEF Planned, Pending, Plan
<1> QED
    BY <1>3, <1>7, <1>8, <1>9, <1>10, <1>11 DEF Working

\* Power fails: what was written to the device is what there is.
LEMMA CrashKeeps == ASSUME Working, Crash PROVE Working'
<1>1. Geometry /\ Shape /\ Holds /\ Stored /\ Counted /\ Planned
    BY DEF Working
<1>2. /\ buf' = <<>> /\ todo' = <<>> /\ copy' = 1 /\ pc' = "off" /\ calls' = 0
      /\ table' = OnDisk(1) /\ crashes < MaxCrashes /\ crashes' = crashes + 1 /\ count' = 0 /\ bpb' = bpb /\ disk' = disk
    BY DEF Crash
<1>3. crashed'
    BY <1>1, <1>2 DEF Shape, crashed
<1>4. Geometry' /\ Counts' = Counts
    BY <1>1, <1>2, PlacesStay DEF Counts
<1>5. \A x : Sector(x)' = disk[x]
    BY <1>2 DEF Sector
<1>6. Shape'
    <2>1. 0 \in Counts /\ 0 \in 0 .. MaxCalls
        BY BootAssumption, VolumeAssumption DEF BootAssumption, VolumeAssumption, Counts
    <2>2. count' \in Counts' /\ calls' \in 0 .. MaxCalls
        BY <1>2, <1>4, <2>1, Zenon
    <2>3. DOMAIN buf' = {} /\ buf' \in [DOMAIN buf' -> [Offsets' -> Nat]]
        BY <1>2
    <2>4. todo' \in Seq(Writes')
        BY <1>2
    <2>5. table' \in [Clusters' -> Entries'] /\ disk' \in [InfoSectors' -> [Offsets' -> Nat]]
        BY <1>1, <1>2, PlacesStay DEF Stored, Shape
    <2>6. pc' \in {"off", "up", "closing", "panicked"} /\ copy' \in {1, 2} /\ copy' # 2
        BY <1>2
    <2>7. crashes' \in 0 .. MaxCrashes
        BY <1>1, <1>2, VolumeAssumption, SMT DEF Shape, VolumeAssumption
    <2>8. DOMAIN buf' \subseteq InfoSectors'
        BY <2>3
    <2> QED
        BY <1>2, <2>2, <2>3, <2>4, <2>5, <2>6, <2>7, <2>8, Zenon DEF Shape
<1>7. Holds'
    <2>1. \A c \in Clusters : table'[c] = disk[Fat(c)][Off(c)]
        BY <1>2, OnDiskIs
    <2>2. ASSUME NEW c \in Clusters PROVE Entry(c)' = table'[c]
        <3>1. PICK f, i : f = Fat(c) /\ i = Off(c)
            OBVIOUS
        <3>2. f = Fat(c)' /\ i = Off(c)'
            BY <1>2, <3>1, PlacesStay
        <3>3. Entry(c)' = Sector(f)'[i]
            BY <3>2 DEF Entry, Fat, Off, Sector
        <3> QED
            BY <1>5, <2>1, <3>1, <3>3
    <2>3. (\A c \in Clusters : Entry(c) = table[c])'
        BY <1>2, <2>2, PlacesStay
    <2>4. (Sector(bpb.fsinfo)[0] \in Counts)'
        <3>1. PICK f : f = bpb.fsinfo
            OBVIOUS
        <3>2. Sector(f)'[0] \in Counts
            BY <1>1, <1>5, <3>1 DEF Stored
        <3> QED
            BY <1>2, <1>4, <3>1, <3>2 DEF Sector
    <2>5. crashed' /\ copy' # 2 /\ pc' # "panicked"
        BY <1>2, <1>3
    <2> QED
        BY <2>3, <2>4, <2>5 DEF Holds
<1>8. Stored'
    BY <1>1, <1>2, <1>3, StoredStays
<1>9. Counted' /\ Planned'
    BY <1>2, <1>3 DEF Counted, Planned
<1> QED
    BY <1>4, <1>6, <1>7, <1>8, <1>9 DEF Working

LEMMA StutterKeeps == ASSUME IInv, UNCHANGED vars PROVE IInv'
<1>1. /\ bpb' = bpb /\ disk' = disk /\ buf' = buf /\ count' = count /\ todo' = todo
      /\ copy' = copy /\ pc' = pc /\ calls' = calls /\ table' = table
      /\ crashed' = crashed /\ crashes' = crashes
    BY DEF vars, crashed
<1>2. CASE Blank
    BY <1>1, <1>2 DEF Blank, IInv
<1>3. CASE Working
    <2>1. Geometry /\ Shape /\ Holds /\ Stored /\ Counted /\ Planned
        BY <1>3 DEF Working
    <2>2. \A x : Sector(x)' = Sector(x)
        BY <1>1 DEF Sector
    <2>3. Geometry' /\ Counts' = Counts
        BY <1>1, <2>1, PlacesStay DEF Counts
    <2>4. Shape'
        BY <1>1, <2>1, <2>3, PlacesStay DEF Shape
    <2>5. Holds'
        BY <1>1, <2>1, <2>2, <2>3, PlacesStay, SectorsStay DEF Holds
    <2>6. Stored'
        <3>1. BackupView' = BackupView
            BY <1>1, <2>2, SectorsStay
        <3> QED
            BY <1>1, <2>1, <3>1, StoredStays DEF Stored
    <2>7. Counted' /\ Planned'
        BY <1>1, <2>1, <2>2, SectorsStay DEF Counted, Planned, Pending
    <2> QED
        BY <2>3, <2>4, <2>5, <2>6, <2>7 DEF Working, IInv
<1> QED
    BY <1>2, <1>3 DEF IInv

LEMMA StepKeeps == IInv /\ [Next]_vars => IInv'
<1> SUFFICES ASSUME IInv, [Next]_vars PROVE IInv'
    OBVIOUS
<1>1. CASE UNCHANGED vars
    BY <1>1, StutterKeeps
<1>2. CASE Blank /\ Next
    <2>1. pc = "blank" /\ todo = <<>> /\ copy = 1 /\ buf = <<>>
        BY <1>2 DEF Blank
    <2> QED
        BY <1>2, <2>1 DEF Next, MayCall, SetFirst, SetSecond, Evict, Close, Closed, Mount, Crash
<1>3. CASE Working /\ Next
    <2>1. ASSUME MayCall, NEW p \in {NONE} \cup TailsOf(View), Alloc(p) PROVE Working'
        BY <1>3, <2>1, AllocKeeps DEF MayCall
    <2>2. ASSUME MayCall, NEW h \in HeadsOf(View), Free(h) PROVE Working'
        BY <1>3, <2>2, FreeKeeps DEF MayCall
    <2>3. ASSUME SetFirst PROVE Working'
        BY <1>3, <2>3, SetFirstKeeps
    <2>4. ASSUME SetSecond PROVE Working'
        BY <1>3, <2>4, SetSecondKeeps
    <2>5. ASSUME NEW s \in DOMAIN buf, Evict(s) PROVE Working'
        BY <1>3, <2>5, EvictKeeps
    <2>6. ASSUME Close PROVE Working'
        BY <1>3, <2>6, CloseKeeps
    <2>7. ASSUME Closed PROVE Working'
        BY <1>3, <2>7, ClosedKeeps
    <2>8. ASSUME Mount PROVE Working'
        BY <1>3, <2>8, MountKeeps
    <2>9. ASSUME Crash PROVE Working'
        BY <1>3, <2>9, CrashKeeps
    <2>10. Working'
        BY <1>3, <2>1, <2>2, <2>3, <2>4, <2>5, <2>6, <2>7, <2>8, <2>9 DEF Next
    <2> QED
        BY <2>10 DEF IInv
<1> QED
    BY <1>1, <1>2, <1>3 DEF IInv

-----------------------------------------------------------------------------
(* The theorems.                                                           *)

\* The geometry, the sectors, the device, the count and the plans hold on every
\* way through calls, evictions, drops, mounts and a failure of power.
THEOREM Invariance == Spec => []IInv
<1> QED
    BY InitIInv, StepKeeps, PTL DEF Spec

\* Every variable stays in its type (fat.rs:27-31, sector_cache.rs:106-110).
THEOREM TypeCorrect == Spec => []TypeOK
<1>1. IInv => TypeOK
    <2>1. ASSUME Blank PROVE TypeOK
        <3>1. 0 \in 0 .. U32Mod - 1 /\ 0 \in 0 .. MaxCalls
            BY BootAssumption, VolumeAssumption DEF BootAssumption, VolumeAssumption
        <3>2. count \in 0 .. U32Mod - 1 /\ calls \in 0 .. MaxCalls
            BY <2>1, <3>1, Zenon DEF Blank
        <3>3. crashes \in 0 .. MaxCrashes
            BY <2>1, VolumeAssumption DEF Blank, VolumeAssumption
        <3> QED
            BY <2>1, <3>2, <3>3 DEF Blank, TypeOK
    <2>2. ASSUME Working PROVE TypeOK
        <3>1. Shape
            BY <2>2 DEF Working
        <3>2. \A i \in DOMAIN todo : todo[i].id \in Clusters
            <4> TAKE i \in DOMAIN todo
            <4>1. todo \in Seq(Writes) /\ i \in 1 .. Len(todo)
                BY <3>1 DEF Shape
            <4>2. todo[i] \in Writes
                BY <4>1, ElementOfSeq
            <4> QED
                BY <4>2 DEF Writes
        <3> QED
            BY <3>1, <3>2 DEF Shape, TypeOK, Counts, Entries
    <2> QED
        BY <2>1, <2>2 DEF IInv
<1> QED
    BY <1>1, Invariance, PTL

\* The table that is read through the sectors is the one the calls wrote, for
\* every size of sector and every moment of eviction (fat.rs:68-99,
\* sector_cache.rs:29-45, 87-101).
THEOREM ReadsBack == Spec => []ReadsWhatWasWritten
<1>1. IInv => ReadsWhatWasWritten
    BY ViewIsTable DEF IInv, Blank, Working, ReadsWhatWasWritten
<1> QED
    BY <1>1, Invariance, PTL

\* The second table follows the first one until power fails, and set_entry_raw
\* panics on no volume that has two (fat.rs:89-99, sector_cache.rs:27).
THEOREM SecondTableFollows == Spec => []TablesAgree
<1>1. IInv => TablesAgree
    <2>1. ASSUME Blank PROVE TablesAgree
        BY <2>1 DEF Blank, TablesAgree
    <2>2. ASSUME Working PROVE TablesAgree
        BY <2>2 DEF Working, Holds, TablesAgree
    <2> QED
        BY <2>1, <2>2 DEF IInv
<1> QED
    BY <1>1, Invariance, PTL

\* On the device no link within a sector leads to a free cluster, whenever power
\* fails (fat.rs:279-282, 335-347).
THEOREM DeviceNeverDangles == Spec => []NoDanglingInSector
<1>1. IInv => NoDanglingInSector
    <2>1. ASSUME Blank PROVE NoDanglingInSector
        BY <2>1 DEF Blank, NoDanglingInSector
    <2>2. ASSUME Working PROVE NoDanglingInSector
        <3>1. Stored /\ bpb.fats \in {1, 2}
            BY <2>2 DEF Working, Geometry
        <3>2. \A k \in 1 .. bpb.fats : (k = 1 \/ ~crashed) => NoDanglingWithin(OnDisk(k))
            <4> SUFFICES ASSUME NEW k \in 1 .. bpb.fats, k = 1 \/ ~crashed
                         PROVE  NoDanglingWithin(OnDisk(k))
                OBVIOUS
            <4>1. k = 1 \/ (k = 2 /\ bpb.fats = 2)
                BY <3>1
            <4> QED
                BY <3>1, <4>1 DEF Stored
        <3> QED
            BY <3>2 DEF NoDanglingInSector, NoDanglingWithin, Fat
    <2> QED
        BY <2>1, <2>2 DEF IInv
<1> QED
    BY <1>1, Invariance, PTL

\* An orderly drop leaves on the device both tables and the number of free
\* clusters as the calls left them (fat.rs:370-385, sector_cache.rs:97).
THEOREM DropWritesAll == Spec => []DropIsComplete
<1>1. IInv => DropIsComplete
    <2>1. ASSUME Blank PROVE DropIsComplete
        BY <2>1 DEF Blank, DropIsComplete
    <2>2. ASSUME Working, pc = "off", ~crashed
          PROVE  /\ OnDisk(1) = table
                 /\ bpb.fats = 2 => OnDisk(2) = table
                 /\ disk[bpb.fsinfo][0] = Cardinality(FreeOf(table))
        <3>1. Shape /\ Holds /\ Counted
            BY <2>2 DEF Working
        <3>2. buf = <<>> /\ todo = <<>> /\ copy # 2 /\ table \in [Clusters -> Entries]
            BY <2>2, <3>1 DEF Shape
        <3>3. \A x : Sector(x) = disk[x]
            BY <3>2 DEF Sector
        <3>4. \A c \in Clusters : disk[Fat(c)][Off(c)] = table[c]
            BY <3>1, <3>3 DEF Holds, Entry, Fat, Off
        <3>5. bpb.fats = 2 => \A c \in Clusters : disk[Bak(c)][Off(c)] = table[c]
            BY <2>2, <3>1, <3>2, <3>3 DEF Holds, Entry, BackupEntry, Bak, Off
        <3>6. disk[bpb.fsinfo][0] = Cardinality(FreeOf(table))
            BY <2>2, <3>1, <3>3 DEF Counted, FreeCount
        <3> QED
            BY <3>2, <3>4, <3>5, <3>6, OnDiskIs
    <2> QED
        BY <2>1, <2>2 DEF IInv, DropIsComplete
<1> QED
    BY <1>1, Invariance, PTL
=============================================================================
