------------------------------- MODULE Volume -------------------------------
(***************************************************************************)
(* The allocation table as it lies on the device: set_entry_raw of         *)
(* src/fat.rs writes every entry into two tables, each through the sector  *)
(* cache of src/sector_cache.rs, whose sectors reach the device when they  *)
(* are evicted or when the manager is dropped; FSInfo is written by that   *)
(* drop alone; RunFileSystem::new reads them again (src/runfs.rs).  Power  *)
(* may fail at any time.                                                   *)
(*                                                                         *)
(* Which free cluster the allocator takes is the subject of FAT, when the  *)
(* cache evicts that of WriteBackCache: here any free cluster, and any     *)
(* sector that is not in use at the moment.                                *)
(***************************************************************************)
EXTENDS BootSector, Sequences, FiniteSets

CONSTANTS
    BootSectors,   \* the parameter blocks a device may have
    Layouts,       \* parameter blocks whose layout is looked at, and no more
    MaxSecSz,      \* MAX_SEC_SZ, bytes read into a buffer
    MaxCalls,      \* bound on calls between two mounts
    CallsCrashed,  \* the same after a crash
    MaxCrashes     \* bound on crashes

ASSUME VolumeAssumption ==
    /\ MaxSecSz \in Nat /\ MaxCalls \in Nat /\ CallsCrashed \in 0 .. MaxCalls
    /\ MaxCrashes \in Nat
    /\ \A b \in BootSectors \cup Layouts : IsParameterBlock(b)

FREE == 0
END  == 268435455
NONE == -1

VARIABLES
    bpb,       \* the parameter block
    disk,      \* the device: entries of every sector before the data
    buf,       \* modified sectors in the cache
    count,     \* free clusters, as FSInfo in memory says
    todo,      \* the set_entry calls the running call has still to make
    copy,      \* which of the two tables set_entry_raw writes next
    pc,        \* "blank", "off", "up", "closing" or "panicked"
    calls,     \* calls since the mount, while it is up
    table,     \* history: what was last written for every cluster
    crashes    \* history: how often power has failed

vars == <<bpb, disk, buf, count, todo, copy, pc, calls, table, crashes>>

crashed == crashes > 0

-----------------------------------------------------------------------------
(* Sectors and entries.                                                    *)

InfoSectors == 0 .. FirstDataSector(bpb) - 1

\* The sector as get_cache gives it.
Sector(s) == IF s \in DOMAIN buf THEN buf[s] ELSE disk[s]

\* FATManager::entry, of the first table and of the second.
Entry(c)       == Sector(Position(bpb, c).fat)[Position(bpb, c).offset]
BackupEntry(c) == Sector(Position(bpb, c).backup)[Position(bpb, c).offset]

Clusters      == DataIds(bpb)
View          == [c \in Clusters |-> Entry(c)]
FreeOf(t)     == {c \in DOMAIN t : t[c] = FREE}
TailsOf(t)    == {c \in DOMAIN t : t[c] = END}
HeadsOf(t)    == {c \in DOMAIN t : t[c] # FREE /\ \A d \in DOMAIN t : t[d] # c}

\* The chain that starts at c, first cluster first, as dealloc_clusters walks
\* it: each cluster leads to the next one, and the last one to none.
Chains(t, c) ==
    {w \in UNION {[1 .. n -> DOMAIN t] : n \in 1 .. Cardinality(DOMAIN t)} :
        /\ w[1] = c /\ t[w[Len(w)]] \notin DOMAIN t
        /\ \A i \in 1 .. Len(w) - 1 : t[w[i]] = w[i + 1]}

\* The table of copy k on the device, whatever the cache holds.
OnDisk(k) ==
    [c \in Clusters |->
        LET p == Position(bpb, c)
        IN  disk[IF k = 1 THEN p.fat ELSE p.backup][p.offset]]

WellFormed(t) ==
    /\ \A c \in DOMAIN t : t[c] \in DOMAIN t => t[t[c]] # FREE
    /\ \A c, d \in DOMAIN t : t[c] \in DOMAIN t /\ t[c] = t[d] => c = d
    /\ \A S \in SUBSET DOMAIN t : S # {} => \E c \in S : t[c] \notin S

\* A device as mkfs and correct drivers leave it: both tables t, the count n.
Formatted(b, t, n) ==
    [s \in 0 .. FirstDataSector(b) - 1 |->
        [i \in 0 .. EntriesPerSector(b) - 1 |->
            IF s = b.fsinfo THEN (IF i = 0 THEN n ELSE 0)
            ELSE IF s < b.reserved THEN 0
            ELSE LET c == ((s - b.reserved) % b.fatSectors) * EntriesPerSector(b) + i
                 IN  IF c \in DOMAIN t THEN t[c] ELSE END]]

\* BlockCache::new reads MAX_SEC_SZ bytes of a sector and takes the rest for
\* zeros: a wider sector, which validate lets pass, is not read as it is.
Narrow(b) == b.bytes <= MaxSecSz

InitFormatted ==
    /\ bpb \in {b \in BootSectors : Validate(b) /\ NoWrap(b) /\ TableHolds(b) /\ Narrow(b)}
    /\ table \in {t \in [DataIds(bpb) -> {FREE, END} \cup DataIds(bpb)] : WellFormed(t)}
    /\ disk = Formatted(bpb, table, Cardinality(FreeOf(table)))
    /\ pc = "off"

\* A device of which only the parameter block is looked at.
InitBlank == bpb \in Layouts /\ table = <<>> /\ disk = <<>> /\ pc = "blank"

Init ==
    /\ InitFormatted \/ InitBlank
    /\ buf = <<>> /\ count = 0 /\ todo = <<>> /\ copy = 1 /\ calls = 0
    /\ crashes = 0

-----------------------------------------------------------------------------
(* Calls, as the sequence of set_entry they make.                          *)

Set(c, value) == [id |-> c, value |-> value]

\* The manager is up, and no other call runs.
MayCall ==
    pc = "up" /\ todo = <<>> /\ calls < (IF crashed THEN CallsCrashed ELSE MaxCalls)

Begin(writes) ==
    /\ MayCall
    /\ todo' = writes /\ calls' = calls + 1
    /\ UNCHANGED <<bpb, disk, buf, copy, pc, table, crashes>>

\* Mutant: the link is made before the cluster it leads to.
AllocLinkFirst(p) ==
    \E c \in FreeOf(View) :
        /\ Begin((IF p = NONE THEN <<>> ELSE <<Set(p, c)>>) \o <<Set(c, END)>>)
        /\ count' = Wrapped(count - 1)

\* alloc_cluster: the new cluster ends a chain, then the old end leads to it.
Alloc(p) ==
    \E c \in FreeOf(View) :
        /\ Begin(<<Set(c, END)>> \o (IF p = NONE THEN <<>> ELSE <<Set(p, c)>>))
        /\ count' = Wrapped(count - 1)

\* Mutant: the chain is freed from its end.
FreeBackwards(h) ==
  \E chain \in Chains(View, h) :
    /\ Begin([i \in DOMAIN chain |-> Set(chain[Len(chain) + 1 - i], FREE)])
    /\ count' = Wrapped(count + Len(chain))

\* dealloc_clusters(h, None): the chain is freed from its beginning.
Free(h) ==
  \E chain \in Chains(View, h) :
    /\ Begin([i \in DOMAIN chain |-> Set(chain[i], FREE)])
    /\ count' = Wrapped(count + Len(chain))

\* buf with the entry of write w put into sector s.
Modified(s, w) ==
    [x \in DOMAIN buf \cup {s} |->
        IF x = s THEN [Sector(s) EXCEPT ![Position(bpb, w.id).offset] = w.value]
        ELSE buf[x]]

\* get_cache of a sector in the data region fails its assertion.
Panic ==
    /\ pc' = "panicked"
    /\ UNCHANGED <<bpb, disk, buf, count, todo, copy, calls, table, crashes>>

\* set_entry_raw, the first table.
SetFirst ==
    LET w == Head(todo)
        s == Position(bpb, w.id).fat
    IN
    /\ pc = "up" /\ todo # <<>> /\ copy = 1
    /\ IF s \notin InfoSectors THEN Panic
       ELSE /\ buf' = Modified(s, w)
            /\ table' = [table EXCEPT ![w.id] = w.value]
            /\ copy' = 2
            /\ UNCHANGED <<bpb, disk, count, todo, pc, calls, crashes>>

\* Mutant: the second table is left alone.
SetSecondSkipped ==
    /\ pc = "up" /\ todo # <<>> /\ copy = 2
    /\ copy' = 1 /\ todo' = Tail(todo)
    /\ UNCHANGED <<bpb, disk, buf, count, pc, calls, table, crashes>>

\* set_entry_raw, the second table.
SetSecond ==
    LET w == Head(todo)
        s == Position(bpb, w.id).backup
    IN
    /\ pc = "up" /\ todo # <<>> /\ copy = 2
    /\ IF s \notin InfoSectors THEN Panic
       ELSE /\ buf' = Modified(s, w)
            /\ copy' = 1 /\ todo' = Tail(todo)
            /\ UNCHANGED <<bpb, disk, count, pc, calls, table, crashes>>

-----------------------------------------------------------------------------
(* The cache, the drop of the managers, the mount, and power.              *)

Without(s) == [x \in DOMAIN buf \ {s} |-> buf[x]]

\* set_entry_raw still holds the sector of the first table.
InUse(s) == copy = 2 /\ s = Position(bpb, Head(todo).id).fat

\* Mutant: an evicted sector is not written.
EvictDropped(s) ==
    /\ pc \in {"up", "closing"} /\ ~InUse(s)
    /\ buf' = Without(s)
    /\ UNCHANGED <<bpb, disk, count, todo, copy, pc, calls, table, crashes>>

\* A modified sector is dropped from the cache, and written by its sync.
Evict(s) ==
    /\ pc \in {"up", "closing"} /\ ~InUse(s)
    /\ disk' = [disk EXCEPT ![s] = buf[s]]
    /\ buf' = Without(s)
    /\ UNCHANGED <<bpb, count, todo, copy, pc, calls, table, crashes>>

\* Mutant: the drop does not write FSInfo.
CloseUnsynced ==
    /\ pc = "up" /\ todo = <<>>
    /\ pc' = "closing" /\ calls' = 0
    /\ UNCHANGED <<bpb, disk, buf, count, todo, copy, table, crashes>>

\* Drop for FATManager: sync_fsinfo.
Close ==
    /\ pc = "up" /\ todo = <<>>
    /\ buf' = [x \in DOMAIN buf \cup {bpb.fsinfo} |->
                  IF x = bpb.fsinfo THEN [Sector(x) EXCEPT ![0] = count] ELSE buf[x]]
    /\ pc' = "closing" /\ calls' = 0
    /\ UNCHANGED <<bpb, disk, count, todo, copy, table, crashes>>

\* Mutant: the manager is gone while the cache still holds sectors.
ClosedEarly ==
    /\ pc = "closing"
    /\ pc' = "off" /\ count' = 0
    /\ UNCHANGED <<bpb, disk, buf, todo, copy, calls, table, crashes>>

\* The drop of the cache's sectors is over.
Closed ==
    /\ pc = "closing" /\ DOMAIN buf = {}
    /\ pc' = "off" /\ count' = 0
    /\ UNCHANGED <<bpb, disk, buf, todo, copy, calls, table, crashes>>

\* RunFileSystem::new.  It does not look at the chains; a disk whose chains a
\* crash has damaged is repaired by someone else first.
Mount ==
    /\ pc = "off" /\ WellFormed(OnDisk(1))
    /\ count' = disk[bpb.fsinfo][0]
    /\ pc' = "up"
    /\ UNCHANGED <<bpb, disk, buf, todo, copy, calls, table, crashes>>

Crash ==
    /\ pc \in {"up", "closing"} /\ crashes < MaxCrashes
    /\ buf' = <<>> /\ todo' = <<>> /\ copy' = 1 /\ pc' = "off" /\ calls' = 0
    /\ table' = OnDisk(1)
    /\ crashes' = crashes + 1
    /\ count' = 0
    /\ UNCHANGED <<bpb, disk>>

Next ==
    \/ MayCall /\ \E p \in {NONE} \cup TailsOf(View) : Alloc(p)
    \/ MayCall /\ \E h \in HeadsOf(View) : Free(h)
    \/ SetFirst \/ SetSecond
    \/ \E s \in DOMAIN buf : Evict(s)
    \/ Close \/ Closed \/ Mount
    \/ Crash

Spec == Init /\ [][Next]_vars

-----------------------------------------------------------------------------
(* Properties.                                                             *)

\* Every variable stays in its type (fat.rs:27-31, sector_cache.rs:106-110).
TypeOK ==
    /\ count \in 0 .. U32Mod - 1 /\ calls \in 0 .. MaxCalls
    /\ crashes \in 0 .. MaxCrashes
    /\ copy \in {1, 2} /\ (copy = 2 => todo # <<>>)
    /\ pc \in {"blank", "off", "up", "closing", "panicked"}
    /\ pc \in {"blank", "off"} => buf = <<>> /\ todo = <<>>
    /\ pc # "blank" =>
        /\ DOMAIN disk = InfoSectors /\ DOMAIN buf \subseteq InfoSectors
        /\ \A i \in DOMAIN todo : todo[i].id \in Clusters
        /\ table \in [Clusters -> {FREE, END} \cup Clusters]

\* On every volume validate accepts, if its sums fit u32 and its tables hold
\* its clusters, the tables, FSInfo and the clusters lie apart and on the
\* device (boot_sector.rs:163-224, fat.rs:60-67, cluster_cache.rs:36).
LayoutSound ==
    Validate(bpb) /\ NoWrap(bpb) /\ TableHolds(bpb) => SoundLayout(bpb)

\* The table that is read is the table that was written: no entry is lost or
\* changed on the way through a sector, its eviction and its next load, and
\* none is changed by a write to another one (fat.rs:68-99,
\* sector_cache.rs:29-45, 87-101).
ReadsWhatWasWritten == pc = "up" => View = table

\* On a volume with two tables set_entry_raw returns, and then, until power
\* fails, the second table has every entry as the first one has it, on the way
\* through two sectors that are evicted when the cache likes (fat.rs:89-99).
\* On one with a single table, which validate lets pass, it writes a second
\* one all the same, where the data begins, and fails the assertion of
\* BlockCache::new (sector_cache.rs:27).
TablesAgree ==
    bpb.fats = 2 =>
        /\ pc # "panicked"
        /\ pc = "up" /\ ~crashed =>
               \A c \in Clusters :
                   \/ copy = 2 /\ c = Head(todo).id
                   \/ BackupEntry(c) = Entry(c)

\* Whenever power fails, links within a sector of the table on the device do
\* not lead to a free cluster: alloc_cluster writes the new cluster's entry
\* before the link to it, dealloc_clusters frees a chain from its beginning
\* (fat.rs:279-282, 335-347).  Between sectors nothing of the kind holds.
NoDanglingInSector ==
    pc # "blank" => \A k \in 1 .. bpb.fats : (k = 1 \/ ~crashed) =>
        LET t == OnDisk(k) IN
        \A c \in Clusters :
            t[c] \in Clusters /\ Position(bpb, c).fat = Position(bpb, t[c]).fat
                => t[t[c]] # FREE

\* An orderly drop leaves both tables and FSInfo on the device as the calls
\* left them, whatever was evicted before (fat.rs:370-385, sector_cache.rs:97).
DropIsComplete ==
    pc = "off" /\ ~crashed =>
        /\ OnDisk(1) = table
        /\ bpb.fats = 2 => OnDisk(2) = table
        /\ disk[bpb.fsinfo][0] = Cardinality(FreeOf(table))
=============================================================================
