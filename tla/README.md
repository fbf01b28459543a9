# RunFS in TLA+

RunFS (`src/src/`) is a FAT32 library for kernels and for `std` programs: a FAT
manager, two block caches, directories and files behind one type, `VFile`.  This
directory holds TLA+ modules translated from its code, the TLC configurations
that check them, and proofs that hold for every size: of the allocator, the caches,
the table on the device, the locks and file input and output.  Paths below are
relative to `src/src/`, the Rust sources; `PROJECT.json` maps each definition to
its lines.

## 1. Inventory

| Component | State | Operations | Talks to |
|---|---|---|---|
| FAT manager (`fat.rs`) | the table (through its cache), FSInfo | `entry`, `set_entry`, `search_free_cluster`, `alloc_cluster(s)`, `dealloc_cluster(s)`, the walks `next/last/final/all/count/search_cluster`, `recalculate_fsinfo`, `sync_fsinfo` and `Drop` | sector cache |
| FSInfo (`fsinfo.rs`) | free count, next-free hint, each optional | `new`, `validate_and_fix`, `map_free_clusters`, `from_fsinfo` | FAT manager |
| Sector cache (`sector_cache.rs`) | queue of at most 4 sectors, each with a modified flag | `get_cache`, `read`, `modify`, `sync`, `Drop` | block device |
| Cluster cache (`cluster_cache.rs`, `data.rs`) | queue of at most 2 clusters, each with a modified flag | the same, a cluster being several sectors; `clear_cluster`, `read/write_cluster_at` | block device |
| RunFileSystem (`runfs.rs`) | the two managers behind locks, the BPB | `new` (mount), `alloc_clusters` (allocate and clear), `dealloc_clusters`, public guards | all of the above |
| Files (`vfs.rs`, `dir_entry.rs`) | a `VFile` is a name and the position of its directory entry; size and first cluster are in that entry | `read_at`, `write_at`, `capacity`, `adjust_capacity`, `size`, `stat` | RunFileSystem |
| Directories (`vfs.rs`, `dir_entry.rs`) | long and short entries in the clusters of the directory | `create`, `delete`, `find_*`, `find_free_dirents`, `ls`, `dirent_info` | files |
| Boot sector (`boot_sector.rs`) | constants of the volume | `validate`, layout | |
| Names (`vfs.rs`, `dir_entry.rs`) | none | `long_name_split`, `generate_short_name`, `name`, `name_format`, `checksum` | directories |
| Block device, errors, config, console | none | | |

Locks are spin `RwLock`s, taken in the order fs, fat, data, and by `capacity` and
`adjust_capacity` fs once more in between.  Every step of the
FAT manager runs under its write guard, so allocator calls do not overlap; a
`VFile` call takes and drops guards many times, so file calls do.  Nothing is
flushed by a call: a block reaches the device when it is evicted or its manager
is dropped, FSInfo only when the FAT manager is dropped.

What is hard here: the allocator trusts an on-disk hint and count that nobody
keeps true across crashes; its two loops pass state through `prev`, `first` and
`None`; eviction decides by reference counts; write-back is not atomic for a
cluster; file calls interleave between guards; and much arithmetic is in
unsigned integers.  What makes each component right:

* FAT: chains are disjoint and finite, nothing leaks, the hint is free, the count
  is exact whenever it was at mount, a call does all or nothing.
* Caches: one buffer per block, no write lost but by a crash, everything on the
  device after an orderly shutdown.
* Files: bytes are where `pos` and the loops look for them, files do not disturb
  each other, and sizes cover what was written, which they do not (section 6).
* Directories: an entry is found after `create` and gone after `delete`, slots do
  not overlap.
* Layout and table on the device: regions lie apart, both copies of the table follow
  every call, an orderly drop leaves everything there, and a crash no dangling link
  within a sector.
* Names: what `create` writes is what `ls` and the searches read.
* Locks: no cyclic wait, and every call returns.

The hazards, each at its line and with the properties that watch it, are in
`PROJECT.json`.

## 2. Modules

| Module | Models | Remarks |
|---|---|---|
| `FAT` | `fat.rs`, `fsinfo.rs`, mounting in `runfs.rs` | one action per call, one per iteration for the two looping calls |
| `FATWalk` | the walks of `fat.rs` | EXTENDS `FAT`; refines `ClusterPool` |
| `ClusterPool` | (abstract) a pool of free clusters and a set of chains | |
| `WriteBackCache` | `sector_cache.rs`, `cluster_cache.rs`, the handles of `data.rs` | one module for both, `NumParts` sectors per block; refines `BlockStore` |
| `BlockStore` | (abstract) current and stable content of blocks | |
| `FileIO` | `read_at`, `write_at`, `adjust_capacity` in `vfs.rs`, `dir_entry.rs`, `alloc_clusters` in `runfs.rs` | one action per set of guards; stands on the promises of `ClusterPool`, `FATWalk` and `BlockStore` |
| `Directory` | `create`, `delete`, `find_*`, `find_free_dirents`, `ls` in `vfs.rs`, the entries of `dir_entry.rs` | whole calls on one directory; refines `NameSpace` |
| `NameSpace` | (abstract) a map from names to files | |
| `Names` | `long_name_split`, `generate_short_name` in `vfs.rs`, `name`, `name_format` in `dir_entry.rs` | pure operators, extended by `Directory` |
| `BootSector` | `validate` and the layout in `boot_sector.rs`, `position` in `fat.rs` | pure operators on a parameter block, extended by `Volume` |
| `Volume` | `set_entry_raw`, `sync_fsinfo`, the sectors of `sector_cache.rs`, mounting in `runfs.rs` | the table of `FAT` as it lies on the device, with crashes |
| `Locks` | the guards of `runfs.rs`, `vfs.rs` and `dir_entry.rs` | one action per guard taken or dropped |
| `FATProofs`, `FATWalkProofs` | | theorems about `FAT`; about the walks, and that `FATWalk` implements `ClusterPool` |
| `WriteBackCacheProofs` | | theorems about `WriteBackCache`, among them that it implements `BlockStore` |
| `LocksProofs` | | theorems about `Locks` |
| `VolumeProofs`, `VolumeTableProofs` | | theorems about `Volume`: the layout, and the tables in it |
| `FileIOProofs` | | theorems about `FileIO` |
| `DirectoryProofs` | | theorems about `Directory` and `Names`, among them that it implements `NameSpace` |
| `MC*` | | constants for TLC |

Definitions whose comment says *Mutant* are not part of the model: each is a
plausible bug, and `PROJECT.json` pairs it with the property that notices it.

### FAT

`fat` is the table by cluster id, reduced to the 28 bits the code looks at:
`FREE`, `BAD`, `END` or the next cluster.  All End values are one, since the code
writes one and tests for the range.  Ids run to `EndCluster`, as
`FATManager::entry` accepts one id more than there are clusters.  `nextFree` and
`freeCount` are the fields of FSInfo, `NONE` standing for `None`.  `heads` is what
callers hold: the first clusters of files and directories.  `pc` says whether a
loop is running; `asked`, `base`, `prev`, `iter`, `first`, `cur` are the loops'
arguments and locals; `got` and `ret` record what a call did and returned.

`AllocOne`, `BeginAllocClusters`/`AllocStep`/`EndAllocClusters`, `DeallocOne`,
`BeginDeallocClusters`/`DeallocNext`/`DeallocLast`/`EndDeallocClusters` are
`alloc_cluster`, `alloc_clusters`, `dealloc_cluster` and `dealloc_clusters`;
`Remount` is `Drop` followed by `RunFileSystem::new`.  Callers pass what the code
above passes: no `prev` or the last cluster of a chain to allocate; the first
cluster of a chain, a cluster with its predecessor, or a cluster that is already
free (a handle used after `delete`) to free.  `OverflowChecks` distinguishes
builds: `n - 1` on 0 panics with them and wraps without.  After a panic the model
stops (`pc = "panicked"`); the real spin locks do not poison, so a program that
survives the panic goes on with whatever the call left.

Initial states are all well-formed tables (no dangling links, no shared clusters,
no cycles; bad clusters anywhere; anything after the last cluster) with an FSInfo
sector whose hint is in `DiskHints` and whose count is missing or off by a member
of `CountDrift`: 0 for a clean volume, more or less for one that lost its FSInfo in
a crash or was used by another driver.

### WriteBackCache

A buffer is alive while the queue, a handle or a running `Drop` refers to it.
`GetHit`, `GetMiss` and `GetEvict`/`EndEvict` are the branches of `get_cache`,
with the write-back of the evicted buffer (`BeginDrop`, `SyncPart`) one action per
sector in between; `GetPanic` is "Run out of SectorCache!".  `Close` to `Closed`
drop the manager's queue, `Reopen` is a new manager, `Crash` may happen anywhere.
`ReadFails` and `SyncFails` are errors of the device, which the code unwraps: the
panic unwinds every handle; in a `Drop` it comes after `modified` was cleared and
the buffer left the queue, so what was not written yet is lost.  `BlockStore` allows
that loss for the block being written back and for no other.
The manager itself is behind one lock, so there is one `get_cache` at a time, but
handles outlive it.

### FileIO

Per thread, `op` holds the label of the next step and the locals of the call.
Steps read what the code reads under one set of guards: the capacity, the last
cluster, `alloc_clusters` under `fs.write()`, the copy of the directory entry, the
bounds, `search_cluster`, each byte, `next_cluster`, `set_size`.  `content` is a
history variable: the byte last written at each position of each file that no two
threads share.  The allocator is any that takes free clusters (what `ClusterPool`
allows), and clusters read as `BlockStore` says.  `fileOf` says which file each
thread has open.  Threads on one file are not kept apart by the code: two growths
read the same last cluster, and the second link takes the place of the first, so
clusters and bytes of that file are lost.  What the properties claim of such a file
is that its chain stays a chain and that no other file is touched; everything else
they claim of files one thread uses.  Files have a first cluster, as those made by
`create` do.

### Directory

`slots` is the directory's content, one record per 32-byte entry: empty, long or
short, with `del` for the 0xE5 in its first byte.  A long name is the sequence of
its pieces as they lie on disk, the last one first (`Pieces`), the short name what
`generate_short_name` makes of it (`ShortOf`); both come from `Names`.  `free` and
`content` are the volume's clusters, the directory's own among them, `count` the free
count of FSInfo, which may be missing or wrong, since mounting does not count again;
`held` is the VFile a caller keeps for a name.  A VFile holds positions: of the short
entry, and of the long entries as `find_long_name` computes them, which is one byte
apart (`vfs.rs:270`), so `LongDeleted` marks the first long entry, writes over the
beginning of its piece (`MANGLED`, a piece no name has) and leaves the others.  That is
what the code does for names of up to 32 pieces (`PiecesAssumption`); from 33 on the
calls reach the order byte of the second long entry, and `create` sets no limit.  What is
written over is 0xE5, so a piece could equal one that was overwritten only if its first
letter had that low byte; such letters are outside ASCII and not in the model.

`Delete` may panic.  When the first long entry is the last one of a cluster (`RunsOver`),
no entry fits at the position computed for the second one, and the assertion of `get_mut`
(`cluster_cache.rs:84-89`) fails: the first long entry is marked, the short one is live,
and the clusters of the file are not freed.  The file is then neither listed nor found,
and the caller still has its VFile (`HalfDeleted`); `NameSpace` calls this `DeleteStops`.

`CreateNew` is all of `create` for a new name: the place (`FirstFit`), the growth
when the place reaches behind the end (`Added`, with `usize` as in a release
build, and refused unless FSInfo says that there are enough clusters, `fat.rs:293-305`),
the cluster, the entries one `write_at` after the other (`WriteEntry`, each
of which may add a cluster, and whose failure is the `assert_eq!`), the search for
the new file, and the `.` and `..` of a new directory, written through the VFile
the search returned.  `FindLongName` and `FindShortName` keep the ways in which the
loops of the code end early: at the first match whose short entry does not fit,
and at the first free entry.

The directory may start empty or with the `.` and `..` another system put there.
Those are found by `find_short_name`; the ones `create` writes have blank names,
because `generate_short_name` strips dots (`vfs.rs:46`), and are found by nobody.

Callers in the pass run use a name for files or for directories, not both, and ask
by `..` and by long names that are not a short name of another file; `dir_twice` and
`dir_short` show what happens otherwise.  `NamesApart` is this condition; TLC
checks that the names of the pass run satisfy it.

### Names

Names are sequences of characters.  `LongNameSplit`, `CopyShortNamePart`,
`GenerateShortName`, `NameFormat`, `Joined` and `ShortName` are the functions of the
code on them.  `MCDirectory` states two facts as assumptions, which TLC evaluates
over all names of up to five characters of a small alphabet: a name that is split and
joined again is the name (`SplitsAndJoins`, over lengths below, at and above
multiples of a piece), and the short name of a short name is itself
(`ShortNamesAreStable`), so a file found by its short name is the one that has it.

### BootSector and Volume

A parameter block is a record.  `Validate` is `BiosParameterBlock::validate` check by
check; the layout operators are the getters, in u32 arithmetic.  `RunFileSystem::new`
logs a failed validation and goes on, so the models begin where it succeeds.

In `Volume`, `disk` and `buf` hold sectors of table entries; a set of `set_entry`
calls (`todo`) is what `alloc_cluster` or `dealloc_clusters` is going to write, entry
by entry and copy by copy (`SetFirst`, `SetSecond`).  Any sector that is not in use
may be evicted at any time, which is all the cache does seen from here.  `Close`
writes FSInfo into its sector and lets the cache drain, `Crash` keeps what was on the
device (at most `MaxCrashes` times), `Mount` reads the first table.  `Chains` is the chain `dealloc_clusters` walks,
given as what a chain is: the function on `1 .. n` that follows the links to where
they end.  `table` is a history variable: the entry last written for each cluster.
`MayCall` bounds the calls, by `MaxCalls` between two mounts and by `CallsCrashed` on a
volume that once lost power.  The initial state `blank` is a device of which only the
parameter block matters: it lets `LayoutSound` range over many layouts.

### Locks

No call keeps a guard over a whole operation; each is a sequence of sections that
take a few guards and drop them.  An operator per kind of section lists the guards
in the order the code takes them, temporaries included: a guard in a statement, in
the scrutinee of an `if let` or in a receiver lives to the end of it, so
`self.fs.read().fat_manager_modify().count_clusters(self.first_data_cluster())` takes
fs, fat, then fs again and data.  A thread runs sections in any order, which includes
the orders of all calls.  `Blocks` is spin's rule: a writer wants the lock alone, a
reader wants no writer, and who waits is not seen.  The locks of single cache entries
are not modelled: an entry is reached under the manager's write guard alone.

## 3. Runs

| Run | Shows |
|---|---|
| `fat_exact` | clean volumes, overflow checks on: exact count, all or nothing, no panic |
| `fat_stale` | wrong counts and every hint inside the volume, release build: the table stays right, the loops end, the walks agree; `FAT` implements `ClusterPool` |
| `cache` | three handles, queue of two, blocks of two sectors that crashes and device errors can tear; implements `BlockStore` |
| `io` | two threads on a file and a directory, within, across and past cluster boundaries, interleaved at every guard, until the volume is full; also both on one of them |
| `dir` | three names with one short name, of two to four entries each, created, found, written to and deleted in any order in a directory that grows until the volume is full or FSInfo says so, its count exact, one off or missing, and through a delete that panics half-way; implements `NameSpace` |
| `volume` | layouts that validate accepts; the table in two copies through the sector cache, with up to two crashes |
| `locks` | three threads and every kind of section: no circle of waits, every section ends |
| `fat_hint`, `io_panic`, `dir_twice`, `dir_short`, `dir_delete` | disagreements between the code and what its comments say; section 6 |

Bounds.  Four clusters allow two chains of two, a chain of three with a competitor,
a bad cluster between free ones, a search that wraps, and an allocation of three
that fails half-way; all tables of that size are initial states.  `U32Max` is 15:
above every cluster id, so it only acts as NO_INFORMATION and as the wrapped count.
Hints are every id up to the last cluster, the reserved 0 and 1, and none.
`MaxRequest` is 3 of 4 clusters.  Drift is one in either direction.  The cache has one block more than entries, so
that every entry can be evicted, and one handle more, so that the queue can run
out; the code's sizes of 4 and 2 change only how long that takes, and a block of
one sector is one that no crash tears.  Files have clusters of two bytes: a write
of two bytes lies within one when it begins at 0, and spans two of them and asks for up
to two more when it begins at 3, so that files of every length are read and written
within, across and behind their end and growth is granted or refused; `UsizeMax` is 63,
larger than any position.  The directory has clusters of four entries, so that a name may need
as many entries as a cluster has, which makes `find_free_dirents` ask for two
clusters and lets the growth be refused while a cluster is left; the names need
two, three and four, so that holes fit one name and not the next, and a name may begin in
the last entry of a cluster.  FSInfo counts one too many, one too few, right or not at all
(`CountDrift`); its `U32Max` is 7, above the number of clusters, so that the count of a
full volume wraps to something no call takes for few.  The layouts of
`volume` have every field at and around each limit of validate, and u32 has eight
bits, so that the sums wrap; its tables have three clusters in two sectors or in one,
and a volume with one table only.  Two calls between mounts make an allocation and a
free meet; two crashes let the second one meet the table the first one left, from which
`table` starts anew, and one call on it shows an allocation and a free there; for any
number of calls and crashes there is `VolumeTableProofs`.  In
`locks` two threads make a circle and the third may come in between; two sections
each let a guard of one follow on a guard of another; `FILECLUSTERS` 2 makes
`alloc_clusters` take data twice.  Symmetry is
used over what the model only compares: clusters and threads in `FileIO`, clusters in `Directory`,
blocks, buffers and handles in `WriteBackCache`; `FAT` orders its clusters and uses
none.

Deadlock checking is off where a panic may end a behaviour (`fat_hint`, `io_panic`,
`volume` and the `dir` runs) and where all sections may be over (`locks`).

Fairness.  `FairSpec` assumes weak fairness of the steps of a running loop and
nothing about callers: the loop runs under a write guard and waits for nothing, so
a thread that is scheduled executes it.  In `Locks` each thread's next step is weakly
fair: one that can get its guard for good gets it.  That is not fairness of the
lock, which spin does not give: readers that keep coming may starve a writer for
ever, so `CallsReturn` is checked for a bounded number of sections (`MAXSECTIONS`),
where a wait without end can only be a circle.

## 4. Proofs

Each theorem is about every value of the constants its module's `ASSUME`s allow; what
it needs beyond them is in its hypotheses and named below.  The invariants were checked
by TLC on the runs' instances before they were proved.

### The allocator (`FATProofs`, `FATWalkProofs`)

For every `TotalClusters`, `U32Max`, `MaxRequest`, both builds and all drifts, from
`EndCluster \notin DiskHints`:

* `Invariance`: `IInv` is an invariant, and from it `TypeCorrect`,
  `ChainsStayDisjoint`, `ChainsAlwaysEnd`, `NothingLeaks`, `HintStaysFree`;
* `AllocationFindsSpace`;

and with `CountDrift = {0}` also `CountInvariance`, from which `CountStaysExact`,
`AllocationIsAllOrNothing` and `NeverPanics` follow.  `FATWalkProofs` needs only the
first assumption for

* `WalksStayInStep`: the five walks agree on every chain;
* `ManagerImplementsPool`: every call, and every iteration of one, is a step of
  `ClusterPool` or none.

The assumption on `DiskHints` is needed: `fat_hint` is the counterexample.  So is
the one on `CountDrift`: with a count that is too high, `alloc_clusters` returns a
chain shorter than it was asked for (`fat.rs:294` looks at the count alone, though
`fat.rs:291` promises None), and with one that is too low the last allocation
computes `0 - 1`, which panics in builds with overflow checks.

The table properties are not inductive alone, because between two
iterations correctness hangs on the locals.  `IInv` is their conjunction with
`LoopInv`: while allocating, `prev` is the last cluster of a chain, and once an
iteration failed nothing is free any more, so the iterations after it cannot start
a second chain; while freeing, the next cluster is led to by `prev` alone or by
nothing, and no caller holds it.  `LinkNewKeeps` and `UnlinkKeeps` show that the two
table updates preserve disjointness and acyclicity; acyclicity is stated by
sets (every nonempty set of clusters has a member whose link leaves it), which makes
the proof a choice of subset instead of an induction along a chain.
`AllocSearch` shows that under `HintIsFree` the search returns a free cluster, or
`NONE` when there is none, so trusting the hint is sound; `SearchFinds` gives the
next hint.  Then one lemma per action.  For the count, `CountInvariance` adds that
the count equals the cardinality of the free clusters and that a running
`alloc_clusters` has as many left as iterations to go.

`FATWalkProofs` speaks of chains as sequences: `IsChain` is one that follows the links
from a cluster nothing leads to up to END.  `UsedIsInChain` finds one through every
cluster in use, a longest path, which exists because acyclicity keeps paths from
repeating a cluster (`PathsDoNotRepeat`).  `Meet` says that two chains with a common
cluster are one, by going back link by link to where both begin.  The loop of each walk
is then compared with such a sequence, step by step (`AllClustersIs`, `CountClustersIs`,
`LastClusterIs`, `SearchClusterIs`); being recursive functions on numbers, the walks
need only the least number argument of `UpTo`, no induction on data.  For the refinement
no walk is followed again: by `Complete` a set of chains through every cluster in use is
the set of all of them, so `ChainsStart`, `ChainsGrow` and `ChainsCut` only name the
chains after a step and show that they are chains and leave no cluster out.

### The caches (`WriteBackCacheProofs`)

For any number of blocks, sectors per block, queue entries, buffers and handles:
`TypeCorrect`, `OneBufferEach`, `HandlesStayCached`, `WritesBackWhatIsModified`,
`NothingIsLost`, `RunsOutWhenAllInUse`, and `CacheImplementsStore`, that is the
refinement of `BlockStore`.  Assumed are `NumPartsAssumption` and
`CacheSizeAssumption` (a block has a sector, the queue an entry), that there are
finitely many handles (`HandlesAssumption`), and `NoBufferAssumption`, which only keeps
apart the value that stands for no buffer.

`NoLostWrite` (callers find what was last written) is not inductive: it does not forbid a
second buffer of a block, or one whose `modified` flag was lost, which the next eviction
would expose.  `IInv` adds: the live buffers are those of the queue
and the one being dropped, each of a block of its own (`Distinct`); each holds what
callers last wrote to its block, and a block without one has it on the device (`Tells`);
a buffer that is not marked modified equals the device and may be forgotten (`Clean`);
a write-back has reached the sectors below `part` (`Syncing`); and what `pc` says of
`dropping` and `req` (`Phases`).  With it each action maps to a step of `BlockStore` or
to a stutter: eviction and write-back change no current content, a crash drops exactly
what was not stable.

### The locks (`LocksProofs`)

For any number of threads, clusters per file and sections: `NobodyWaitsInACircle`, and
`SectionsDropTheirGuards`, which no run states: it is the safety half of `CallsReturn`.
`IInv` says that readers and writers exclude each other and that what each thread holds
and is going to take is `Orderly`: guards nest and are
taken in the order fs < fat < data < root, or are a second guard for reading fs under a
first one.  The order is lexical, so it is shown of every section; the second reading
guard never waits, because the first one keeps writers out.  So who blocks a thread
waits, if at all, for a lock further up, and a circle would need one above root.  The
invariant ranges over the steps of a section still to come: a thread's future matters,
since what it holds now says nothing of what it will ask for.

### The volume (`VolumeProofs`, `VolumeTableProofs`)

`LayoutsAreSound`, that is `LayoutSound`, holds for every width of the
sums, every limit of sector and cluster size and every parameter block whose fields
are unsigned, where TLC looks at a few thousand small ones.  The parameter block
never changes, so the argument is about one block: without a wrap the regions follow
each other (`Regions`), the clusters fit behind them because `validate` compares the
total with their beginning (`ClustersFit`), and an entry's sector lies in its table
because a sector has a whole number of entries (`EntryInSector`); the powers of two
of `validate` make each division one by a constant.  `NoWrap` and `TableHolds` are
assumed, and needed: the code does not check them.

On such volumes whose sectors fit a buffer (`Narrow`), for any number of clusters and any
bounds on calls and crashes (`MaxCalls`, `MaxCrashes`): `TypeCorrect`,
`ReadsBack`, `SecondTableFollows`, `DeviceNeverDangles` and `DropWritesAll`.  The
invariant has three layers.  `Geometry`: entries of different clusters lie in different
places, the two tables and FSInfo in different sectors.  Sectors: what `get_cache` gives
changes only where a write puts an entry, whatever is evicted.  Plans: each of the
`set_entry` calls a running allocation or free has still to make leaves the table without
a link to a free cluster when it comes at its turn, in the order in which the code makes
them, and together they change the number of free clusters by what the count was changed
by at once.  `DeviceNeverDangles` needs the plans: that a
sector on the device is sound at any moment is the soundness of every prefix of the
writes that went into it.

### Files (`FileIOProofs`)

For any number of clusters, files and threads, any cluster size and any offsets, lengths
and buffers: `TypeCorrect`, `ChainsStayPrivate` (also for files that threads share),
`BytesStay`, `ReadsAreLatest`, `ReadsComplete`; and `ShortWritesMeanFull` from
`SumsFit`, that no sum of `adjust_capacity` exceeds `usize`: without it a release build
wraps, asks for too little, and may stop short of space that is there.
Assumed are a finite volume and entries that tell links from `FREE` and `END`.

Between guards a thread knows things that another may have made untrue, and the
invariant says what is left of them.

* `Structure`: each file has the chain that follows the links from its first cluster to
  END, no cluster has two links to it and none leads to a file's beginning.  This is
  said of all clusters, not only of those in chains: two growths of one file cut off
  what the first one linked, and the thread that grew it may go on behind it.
* `Where`: a cluster a thread holds from an earlier step (`last`, `cur`) is in use and in
  no other file's chain.  It is what makes the link under `fs.write()` harmless.
* `Follows`, for threads that are alone on their file: position, bound, cluster and
  bytes read are functions of the chain, the offset and the bytes done; a write has
  asked for enough clusters, and has them or was refused (`Asked`).
* `Holding`: the chain's clusters show `content`, which is zero behind them.

`ChainFrom` is a recursive function on numbers, about which nothing can be proved by
induction on sequences; `ProperIsChain` shows that it equals any sequence that follows
the links to END without repetition, and `WalkExists` that there is one, by the least
number argument of `UpTo`.  After that the proofs speak of such sequences (`Proper`)
and of appending to them.  `Division`, `IndexBelow` and `NextPosition` are the arithmetic
of positions for a cluster size that is not a number.

### Directories (`DirectoryProofs`)

For any names, any number of clusters and of entries in one, any lengths of pieces and
short names, any drift of the free count and any order of calls: `NamesComeBack` (a name
split into pieces and joined again is the name, of any length), and from `NamesApart`
`TypeCorrect`, `SearchAgreesWithListing`, `NothingTwice`, `HeldFilesStayGood`,
`NobodyWritesOthers`, `PanicsAreKnown` and `RefinesNameSpace`.

`NamesApart` says that no name is the short name of another one or of `.` and `..`, that
none is `.` or `..` or has a NUL character, and that no name is asked for in two kinds.
The code checks none of this.  The first and the last condition are needed, as `dir_short`
and `dir_twice` show; the one between keeps to names that callers can mean.  The checksum
is the short name itself in the model, so two short names of one checksum are outside the
theorems, and so are names of more than 32 pieces (`PiecesAssumption`; a piece has 13
characters, and `create` sets no limit).
Otherwise assumed are a finite volume, a `NONE` that is nothing else, and more than two
entries in a cluster.

The properties speak of `ls` and the searches, which are loops over whatever is on disk;
none says what the disk looks like, so none is inductive.  `Inv` says that there is a
place for each file (`place`, 0 for none) such that the state is `Good`:

* `Laid`: at each place lie the long entries of the name and its short entry (`Group`),
  and nothing else looks like a file: a live entry with the mark of a last piece begins a
  group, or one that the end of the volume cut off, and a live short entry ends one, or is
  found by no name (a foreign or blank `.` or `..`).  The long entries `delete` leaves
  behind are allowed, since only a marked one begins a search.
* `Owned`: files have clusters of their own, not free, with their owner's bytes.
* `Holds`: a VFile is what a search for its name would give (`Where`), or its delete has
  stopped half-way (`Half`).
* `Explained`: a panic left no free cluster, or FSInfo says so or does not know, or a file
  half deleted.

That places of two names do not overlap is not part of the invariant: it follows
(`PlacesApart`), since each entry of a group tells its number and only the first has the
mark.  Then the searches find exactly the place (`FindsByName`), and so does `ls`
(`LsLists`, `ListingIs`).  `Ls` is a recursive function that jumps ahead by a file, so
that it is defined is itself a lemma (`LsExists`, by induction from the end of the directory).  `create`
is followed entry by entry (`WritesAll`, a fold, by `WriteSteps`) with the growth each may
cause: the entries before stay, and either the group is complete or the directory ends in
it with no cluster to be had (`NoneLeft`: none is free, or FSInfo says so or does not
know).  `delete` changes the entries of one group whether it returns or panics (`Deletes`),
and its name is gone either way (`DeleteTakes`).  One lemma per action then gives the new places and the step of
`NameSpace` at once (`NextSteps`), which is why the refinement needs no second invariant.

The properties do not promise that `delete` returns, nor that `create` does while there
are free clusters: `dir_delete` is a counterexample to the first, and with a free count
that is missing or too low `fat.rs:294` is the reason for the second.

### What TLC alone checks

* Liveness: `CallsReturn` and that the loops of `FAT` end.  Out of the prover's reach.
* That the short name of a short name is itself (`ShortNamesAreStable`): for the small
  alphabet of `MCDirectory`.
* The disagreements of section 6.

## 5. Plan

Done: `FAT`, `FATWalk`, `ClusterPool`, `FATProofs`, `FATWalkProofs`,
`WriteBackCache` with device errors, `BlockStore`, `WriteBackCacheProofs`, `FileIO` with shared files,
`FileIOProofs`, `Directory`, `NameSpace`, `Names`, `DirectoryProofs`, `BootSector`, `Volume`,
`VolumeProofs`, `VolumeTableProofs`, `Locks`, `LocksProofs`.  Next, in this order:

1. `Directory` split at the guards, to say exactly which calls of two threads may
   overlap.
2. A data region for `Volume`: directory entries and the table after a crash.

## 6. Where code and comments disagree

| Run | The code | The comment |
|---|---|---|
| `fat_hint` | keeps the hint one past the last cluster (`fsinfo.rs:43`) | the assertion `fat.rs:195-198` |
| `io_panic` | `usize` underflow when the file is larger than the write needs (`vfs.rs:428`) | `vfs.rs:421`, "Ok on success, an error on failure" |
| `dir_twice` | a name that exists with the other kind is created again, and `.` and `..` go into the old file (`vfs.rs:494`) | `vfs.rs:503`, "returns None if it exists already" |
| `dir_short` | `delete` of a file found by its short name leaves the long entries, and creating the name again panics (`vfs.rs:307`) | `vfs.rs:507`, "create the file if it does not exist", and the check `vfs.rs:551` |
| `dir_delete` | the second long entry is looked for one byte behind the first (`vfs.rs:271`): with the first one in the last slot of a cluster, `delete` panics half-way | `vfs.rs:267`, "store the positions of the long entries", and the assertion `cluster_cache.rs:84-89` |

`dealloc_clusters` counts the iterations that did not break, so it frees n clusters
and returns n - 1 (`fat.rs:344`), while `fat.rs:333` says "returns the number really
recycled"; `ret` of `FAT` shows it, and no caller uses the value.

Two more are in the models, without a run of their own, since one call shows them.
`write_at` makes the bytes of its own write the size of the file (`vfs.rs:200`,
`FinishWrite`), where `vfs.rs:387` says "the size is the number of bytes of the content":
after an append, or an overwrite of the beginning, the rest cannot be read.  And without a
free count in FSInfo every growth is refused (`fat.rs:294`, `Added` and `Refused`), so
`create` panics with clusters free; `fat.rs:290` says "returns None if there are not
enough clusters", and `runfs.rs:85` "None only means that it is not certain".

Two things follow from the line of `io_panic` in `adjust_capacity` and are visible in
`FileIO` without a run of their own: it returns Ok when `alloc_clusters` added
nothing (`ShortOnlyWhenFull` says what a write does then), and a capacity that is
a whole number of clusters already is rounded up to one cluster more, so a write
may stop short with the cluster it needs still free (which is why
`ShortOnlyWhenFull` speaks of the number asked for).

## 7. Not modelled

* Dates, formatting, console output, errors as values: no state, and nothing depends
  on them.
* The raw setters behind the public guards (`set_bad`, `set_entry`), and guards a
  caller keeps across calls: what may be done with them is not said anywhere.
* Mounting a volume that does not validate (`runfs.rs:25` logs and goes on), tables
  too small for the volume (`boot_sector.rs:160` notices and lets pass), sectors
  wider than `MAX_SEC_SZ` (`sector_cache.rs:28` reads the first 512 bytes): the
  properties do not hold there, and the preconditions (`Validate`, `TableHolds`,
  `NoWrap`, `Narrow`) are named in the modules.
* What a crash leaves between sectors: links may lead to free clusters and the copies
  may differ, and no code repairs either.
* Calls that overlap in one directory and VFiles kept after a delete: nothing in the
  code keeps them apart, so no property of theirs would hold.
* The `..` of a directory in the root has first cluster 0, as FAT32 wants it
  (`vfs.rs:565`); a VFile opened through it asks for cluster 0, which
  `ClusterCache::new` rejects with an assertion.
* Paths (a loop over `find_vfile_byname`), `size` and `stat` of a directory, files
  whose first cluster is 0, names with characters outside ASCII or of more than 32
  pieces.
