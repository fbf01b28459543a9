-------------------------------- MODULE FAT --------------------------------
(***************************************************************************)
(* The FAT manager of RunFS (src/fat.rs) with the FSInfo record it keeps   *)
(* (src/fsinfo.rs): the allocation table, the hint where the next free     *)
(* cluster is, the count of free clusters, and the calls that allocate and *)
(* free clusters.                                                          *)
(*                                                                         *)
(* Every method takes &mut self behind one RwLock, so calls do not         *)
(* overlap; the two calls that loop (alloc_clusters, dealloc_clusters) are *)
(* one action per iteration, because what must hold between iterations is  *)
(* what makes the loops end and their results right.                       *)
(*                                                                         *)
(* Entries are the 28 bits the code looks at; the caches below the table   *)
(* are the subject of WriteBackCache.                                      *)
(***************************************************************************)
EXTENDS Integers, FiniteSets, FiniteSetsExt

CONSTANTS
    TotalClusters,    \* BiosParameterBlock::total_clusters()
    U32Max,           \* the largest value of a u32, read as NO_INFORMATION
    OverflowChecks,   \* TRUE in debug and test builds, FALSE in release ones
    DiskHints,        \* next-free values the FSInfo sector may hold at mount
    CountDrift,       \* how far its free count may be from the truth
    MaxRequest        \* bound on the num argument of alloc_clusters

START_CLUS_ID == 2
FREE == 0
BAD  == 268435447     \* 0x0FFFFFF7
END  == 268435455     \* 0x0FFFFFFF, the End the code itself writes
NONE == -1            \* Rust's None

ASSUME TotalClustersAssumption ==
    /\ TotalClusters \in Nat \ {0}
    /\ TotalClusters + START_CLUS_ID < BAD
ASSUME U32Assumption ==
    /\ U32Max \in Nat
    /\ TotalClusters + START_CLUS_ID < U32Max
ASSUME OverflowChecksAssumption == OverflowChecks \in BOOLEAN
ASSUME DiskHintsAssumption == DiskHints \subseteq 0 .. U32Max
ASSUME CountDriftAssumption == CountDrift \subseteq Int
ASSUME MaxRequestAssumption == MaxRequest \in Nat

\* The first id after the data clusters (end_cluster in the search loops).
EndCluster   == TotalClusters + START_CLUS_ID
DataClusters == START_CLUS_ID .. EndCluster - 1
\* The ids FATManager::entry accepts: one more than there are clusters.
EntryIds     == 0 .. EndCluster
FATEntries   == {FREE, BAD, END} \cup DataClusters
Counts       == {NONE} \cup 0 .. U32Max

VARIABLES
    fat,         \* the table, by cluster id
    nextFree,    \* fsinfo.next_free_cluster
    freeCount,   \* fsinfo.free_cluster_count
    heads,       \* first clusters of the chains callers hold (files, dirs)
    pc,          \* what the manager is doing
    asked,       \* num argument of the running alloc_clusters
    base,        \* prev argument of the running call
    prev,        \* local prev_id / prev of the running loop
    iter,        \* iterations done
    first,       \* local first of alloc_clusters
    cur,         \* local recycle_cluster of dealloc_clusters
    got,         \* clusters the running call really allocated or freed
    ret          \* the last call's result, and what it really did

info   == <<nextFree, freeCount>>
locals == <<asked, base, prev, iter, first, cur, got>>
vars   == <<fat, info, heads, pc, locals, ret>>

NoResult == [fn |-> "none", val |-> NONE, asked |-> 0, got |-> 0]
Result(fn, val, num, done) ==
    [fn |-> fn, val |-> val, asked |-> num, got |-> done]

-----------------------------------------------------------------------------
(* The table.                                                              *)

IsNext(entry) == entry \notin {FREE, BAD, END}
IsUsed(f, c)  == f[c] \notin {FREE, BAD}
IsLinked(f, c) == \E d \in DataClusters : f[d] = c
FreeClusters(f) == {c \in DataClusters : f[c] = FREE}
\* Clusters where a chain of f starts.
Roots(f) == {c \in DataClusters : IsUsed(f, c) /\ ~IsLinked(f, c)}
\* Clusters where a chain of f ends: what last_cluster returns.
Tails(f) == {c \in DataClusters : f[c] = END}

\* Mutants: the scan ends one cluster too late, or one too early.
FirstFreeTooFar(f, from, to) ==
    LET free == {c \in from .. to + 1 : f[c] = FREE}
    IN  IF free = {} THEN NONE ELSE Min(free)
FirstFreeTooShort(f, from, to) ==
    LET free == {c \in from .. to - 1 : f[c] = FREE}
    IN  IF free = {} THEN NONE ELSE Min(free)

FirstFree(f, from, to) ==
    LET free == {c \in from .. to : f[c] = FREE}
    IN  IF free = {} THEN NONE ELSE Min(free)

\* Mutant: a hint equal to start is trusted, so it never moves on.
SearchTrustsStart(f, hint, start) ==
    IF hint >= start THEN hint
    ELSE IF FirstFree(f, start, EndCluster - 1) # NONE
         THEN FirstFree(f, start, EndCluster - 1)
         ELSE FirstFree(f, START_CLUS_ID, start - 1)

\* The hint is trusted when it lies above start; otherwise the table is
\* scanned from start to the end and then from the beginning to start.
SearchFreeCluster(f, hint, start) ==
    IF hint > start THEN hint
    ELSE IF FirstFree(f, start, EndCluster - 1) # NONE
         THEN FirstFree(f, start, EndCluster - 1)
         ELSE FirstFree(f, START_CLUS_ID, start - 1)

\* Mutant: the assertion rejects the last cluster.
SearchAssertsEarly(start) == start >= EndCluster - 1

\* The assertion at the head of the search.
SearchAsserts(start) == start >= EndCluster

\* set_end on the new cluster, then the link from the old last one.
LinkNew(f, c, p) ==
    IF p = NONE THEN [f EXCEPT ![c] = END]
    ELSE [f EXCEPT ![c] = END, ![p] = c]

\* Mutant: the predecessor keeps its link to the freed cluster.
UnlinkKeepsLink(f, c, p) == [f EXCEPT ![c] = FREE]

\* set_free on a cluster, then set_end on its predecessor when one is given.
Unlink(f, c, p) ==
    IF p = NONE THEN [f EXCEPT ![c] = FREE]
    ELSE [f EXCEPT ![c] = FREE, ![p] = END]

-----------------------------------------------------------------------------
(* FSInfo at mount: FSInfo::new, validate_and_fix, recalculate_fsinfo.     *)

\* Both fields are dropped when the count is missing: the test for the hint
\* looks at free_cluster_count.
FSInfoNew(count, next) ==
    IF count # U32Max THEN [count |-> count, next |-> next]
    ELSE [count |-> NONE, next |-> NONE]

\* `n == 0 | 1` is n == 1: zero passes, and so does EndCluster.
ValidateAndFix(fi) ==
    [count |-> IF fi.count > TotalClusters THEN NONE ELSE fi.count,
     next  |-> IF fi.next > EndCluster \/ fi.next = 1 THEN NONE ELSE fi.next]

RecalculateAsserts(f, hint) ==
    hint # NONE /\ f[hint] # FREE /\ SearchAsserts(hint)

RecalculateFsinfo(f, hint) ==
    IF hint = NONE THEN FirstFree(f, START_CLUS_ID, EndCluster - 1)
    ELSE IF f[hint] = FREE THEN hint
    ELSE SearchFreeCluster(f, hint, hint)

\* FSInfoSector::from_fsinfo
ToDisk(value) == IF value = NONE THEN U32Max ELSE value

\* The manager RunFileSystem::new makes of a table and an FSInfo sector.
Mounted(f, count, next, mountPc, mountNext, mountCount) ==
    LET fi == ValidateAndFix(FSInfoNew(count, next)) IN
    /\ mountCount = fi.count
    /\ IF RecalculateAsserts(f, fi.next)
       THEN mountPc = "panicked" /\ mountNext = fi.next
       ELSE mountPc = "ready" /\ mountNext = RecalculateFsinfo(f, fi.next)

-----------------------------------------------------------------------------
(* Well-formed tables: what mkfs and correct drivers leave on a disk.      *)

\* A chain leads only to clusters in use, never to the same one twice.
NoDangling(f)  == \A c \in DataClusters : IsNext(f[c]) => IsUsed(f, f[c])
NoCrossLink(f) == \A c, d \in DataClusters :
                      IsNext(f[c]) /\ f[c] = f[d] => c = d
\* No set of clusters is closed under "next": every chain reaches an End.
Acyclic(f) == \A S \in SUBSET DataClusters :
                  S # {} => \E c \in S : f[c] \notin S

\* A table whose data entries are d; entries 0 and 1 hold the media type and
\* the volume flags, and the slack after the last cluster is not specified.
Table(d, slack) ==
    [c \in EntryIds |-> IF c \in DataClusters THEN d[c]
                        ELSE IF c < START_CLUS_ID THEN END ELSE slack]

WellFormedTables ==
    {f \in {Table(d, slack) : d \in [DataClusters -> FATEntries],
                              slack \in {FREE, END}} :
        NoDangling(f) /\ NoCrossLink(f) /\ Acyclic(f)}

DiskCounts(f) ==
    {U32Max} \cup ({Cardinality(FreeClusters(f)) + k : k \in CountDrift}
                       \cap 0 .. U32Max)

Init ==
    /\ fat \in WellFormedTables
    /\ heads = Roots(fat)
    /\ \E count \in DiskCounts(fat), next \in DiskHints :
           Mounted(fat, count, next, pc, nextFree, freeCount)
    /\ asked = 0 /\ base = NONE /\ prev = NONE /\ iter = 0
    /\ first = NONE /\ cur = NONE /\ got = 0
    /\ ret = NoResult

-----------------------------------------------------------------------------
(* alloc_cluster and alloc_clusters.                                       *)

Decremented(n) == IF n = NONE THEN NONE
                  ELSE IF n = 0 THEN U32Max ELSE n - 1
Incremented(n) == IF n = NONE THEN NONE
                  ELSE IF n = U32Max THEN 0 ELSE n + 1

\* alloc_cluster(p) once its search found id: link, move the hint, count.
\* The search for the next hint asserts, and so does the subtraction.
AllocCluster(id, p, resume) ==
    /\ fat' = LinkNew(fat, id, p)
    /\ IF SearchAsserts(id)
       THEN pc' = "panicked" /\ UNCHANGED info
       ELSE /\ nextFree' = SearchFreeCluster(fat', nextFree, id)
            /\ IF freeCount = 0 /\ OverflowChecks
               THEN pc' = "panicked" /\ UNCHANGED freeCount
               ELSE pc' = resume /\ freeCount' = Decremented(freeCount)

\* RunFileSystem::alloc_cluster with no prev or the last cluster of a chain.
AllocOne(p) ==
    LET id == SearchFreeCluster(fat, nextFree, START_CLUS_ID) IN
    /\ pc = "ready"
    /\ IF id = NONE
       THEN UNCHANGED <<fat, info, heads, pc>>
       ELSE /\ AllocCluster(id, p, "ready")
            /\ heads' = IF p = NONE /\ pc' = "ready" THEN heads \cup {id} ELSE heads
    /\ ret' = IF pc' = "ready"
              THEN Result("alloc_cluster", id, 1, IF id = NONE THEN 0 ELSE 1)
              ELSE NoResult
    /\ UNCHANGED locals

\* Mutant: the loop starts whatever the count says.
BeginAllocUnguarded(num, p) ==
    /\ pc = "ready"
    /\ pc' = "alloc"
    /\ asked' = num /\ base' = p /\ prev' = p
    /\ iter' = 0 /\ first' = NONE /\ got' = 0
    /\ ret' = NoResult
    /\ UNCHANGED <<fat, info, heads, cur>>

BeginAllocClusters(num, p) ==
    /\ pc = "ready"
    /\ IF freeCount # NONE /\ num <= freeCount
       THEN /\ pc' = "alloc"
            /\ asked' = num /\ base' = p /\ prev' = p
            /\ iter' = 0 /\ first' = NONE /\ got' = 0
            /\ ret' = NoResult
       ELSE /\ ret' = Result("alloc_clusters", NONE, num, 0)
            /\ UNCHANGED <<pc, asked, base, prev, iter, first, got>>
    /\ UNCHANGED <<fat, info, heads, cur>>

\* Mutant: first is set by every iteration, not by the first one alone.
AllocStepFirstMoves ==
    LET id == SearchFreeCluster(fat, nextFree, START_CLUS_ID) IN
    /\ pc = "alloc" /\ iter < asked
    /\ IF id = NONE
       THEN UNCHANGED <<fat, info, pc, got>>
       ELSE AllocCluster(id, prev, "alloc") /\ got' = got + 1
    /\ prev' = id
    /\ first' = id
    /\ iter' = iter + 1
    /\ UNCHANGED <<heads, asked, base, cur, ret>>

\* Mutant: a failed iteration is tried again.
AllocStepRetries ==
    LET id == SearchFreeCluster(fat, nextFree, START_CLUS_ID) IN
    /\ pc = "alloc" /\ iter < asked
    /\ IF id = NONE
       THEN UNCHANGED <<fat, info, pc, got>> /\ iter' = iter
       ELSE AllocCluster(id, prev, "alloc") /\ got' = got + 1 /\ iter' = iter + 1
    /\ prev' = id
    /\ first' = IF iter = 0 THEN id ELSE first
    /\ UNCHANGED <<heads, asked, base, cur, ret>>

\* One iteration; a failed one leaves prev_id = None and the loop goes on.
AllocStep ==
    LET id == SearchFreeCluster(fat, nextFree, START_CLUS_ID) IN
    /\ pc = "alloc" /\ iter < asked
    /\ IF id = NONE
       THEN UNCHANGED <<fat, info, pc, got>>
       ELSE AllocCluster(id, prev, "alloc") /\ got' = got + 1
    /\ prev' = id
    /\ first' = IF iter = 0 THEN id ELSE first
    /\ iter' = iter + 1
    /\ UNCHANGED <<heads, asked, base, cur, ret>>

EndAllocClusters ==
    /\ pc = "alloc" /\ iter = asked
    /\ pc' = "ready"
    /\ heads' = IF base = NONE /\ first # NONE THEN heads \cup {first} ELSE heads
    /\ ret' = Result("alloc_clusters", first, asked, got)
    /\ asked' = 0 /\ base' = NONE /\ prev' = NONE /\ iter' = 0
    /\ first' = NONE /\ got' = 0
    /\ UNCHANGED <<fat, info, cur>>

-----------------------------------------------------------------------------
(* dealloc_cluster and dealloc_clusters.                                   *)

\* Who may be freed, and with which prev: the head of a chain a caller gives
\* up, the rest of a chain cut after p, or a cluster that is free already (a
\* handle used after the file was deleted).
MayDealloc(c, p) ==
    \/ c \in heads /\ p = NONE
    \/ p \in DataClusters /\ fat[p] = c /\ c \in DataClusters
    \/ c \in FreeClusters(fat) /\ p = NONE

\* Mutant: the count is left alone.
DeallocUncounted(c, p, resume) ==
    /\ fat' = Unlink(fat, c, p)
    /\ pc' = resume
    /\ UNCHANGED info

\* dealloc_cluster on a cluster that is in use; the addition may overflow.
DeallocCluster(c, p, resume) ==
    /\ fat' = Unlink(fat, c, p)
    /\ IF freeCount = U32Max /\ OverflowChecks
       THEN pc' = "panicked" /\ UNCHANGED freeCount
       ELSE pc' = resume /\ freeCount' = Incremented(freeCount)
    /\ UNCHANGED nextFree

\* The single call: the caller answers for the rest of the chain.
DeallocOne(c, p) ==
    /\ pc = "ready" /\ MayDealloc(c, p)
    /\ IF IsUsed(fat, c)
       THEN /\ DeallocCluster(c, p, "ready")
            /\ heads' = (heads \ {c}) \cup ({fat[c]} \ {END})
       ELSE UNCHANGED <<fat, info, heads, pc>>
    /\ ret' = NoResult
    /\ UNCHANGED locals

BeginDeallocClusters(c, p) ==
    /\ pc = "ready" /\ MayDealloc(c, p)
    /\ pc' = "dealloc"
    /\ cur' = c /\ base' = p /\ prev' = p /\ iter' = 0 /\ got' = 0
    /\ heads' = heads \ {c}
    /\ ret' = NoResult
    /\ UNCHANGED <<fat, info, asked, first>>

\* Mutant: prev stays set after the first iteration.
DeallocNextKeepsPrev ==
    /\ pc = "dealloc" /\ cur # NONE /\ IsNext(fat[cur])
    /\ DeallocCluster(cur, prev, "dealloc")
    /\ cur' = fat[cur] /\ prev' = prev
    /\ iter' = iter + 1 /\ got' = got + 1
    /\ UNCHANGED <<heads, asked, base, first, ret>>

\* dealloc_cluster returned Some(next): the loop moves on to it, without prev.
DeallocNext ==
    /\ pc = "dealloc" /\ cur # NONE /\ IsNext(fat[cur])
    /\ DeallocCluster(cur, prev, "dealloc")
    /\ cur' = fat[cur] /\ prev' = NONE
    /\ iter' = iter + 1 /\ got' = got + 1
    /\ UNCHANGED <<heads, asked, base, first, ret>>

\* dealloc_cluster returned None: an End was freed, or nothing was.
DeallocLast ==
    /\ pc = "dealloc" /\ cur # NONE /\ ~IsNext(fat[cur])
    /\ IF fat[cur] = END
       THEN DeallocCluster(cur, prev, "dealloc") /\ got' = got + 1
       ELSE UNCHANGED <<fat, info, pc, got>>
    /\ cur' = NONE
    /\ UNCHANGED <<heads, asked, base, prev, iter, first, ret>>

\* num, the value returned, counts the iterations that did not break.
EndDeallocClusters ==
    /\ pc = "dealloc" /\ cur = NONE
    /\ pc' = "ready"
    /\ ret' = Result("dealloc_clusters", iter, 0, got)
    /\ base' = NONE /\ prev' = NONE /\ iter' = 0 /\ got' = 0
    /\ UNCHANGED <<fat, info, heads, asked, first, cur>>

-----------------------------------------------------------------------------
(* Unmount and mount: Drop writes FSInfo back, new() reads it.             *)

Remount ==
    /\ pc = "ready"
    /\ Mounted(fat, ToDisk(freeCount), ToDisk(nextFree), pc', nextFree', freeCount')
    /\ ret' = NoResult
    /\ UNCHANGED <<fat, heads, locals>>

LoopStep == \/ AllocStep \/ EndAllocClusters
            \/ DeallocNext \/ DeallocLast \/ EndDeallocClusters

Next ==
    \/ \E p \in {NONE} \cup Tails(fat) : AllocOne(p)
    \/ \E num \in 0 .. MaxRequest, p \in {NONE} \cup Tails(fat) :
           BeginAllocClusters(num, p)
    \/ AllocStep
    \/ EndAllocClusters
    \/ \E c \in DataClusters, p \in {NONE} \cup DataClusters : DeallocOne(c, p)
    \/ \E c \in DataClusters, p \in {NONE} \cup DataClusters :
           BeginDeallocClusters(c, p)
    \/ DeallocNext
    \/ DeallocLast
    \/ EndDeallocClusters
    \/ Remount

Spec == Init /\ [][Next]_vars

\* A call that has begun runs to its return: nothing in a loop waits.
FairSpec == Spec /\ WF_vars(LoopStep)
-----------------------------------------------------------------------------
(* Properties.                                                             *)

\* Clusters the running call is answerable for: the rest of the chain it is
\* freeing, or the new chain it has not handed over yet.
InFlight ==
    {c \in DataClusters :
        \/ pc = "dealloc" /\ c = cur
        \/ pc = "alloc" /\ base = NONE /\ c = first}

\* Every variable stays in its type (fat.rs:27-31, fsinfo.rs:14-17 and the
\* locals of the two loops).
TypeOK ==
    /\ fat \in [EntryIds -> FATEntries]
    /\ nextFree \in {NONE} \cup DataClusters
    /\ freeCount \in Counts
    /\ heads \subseteq DataClusters
    /\ pc \in {"ready", "alloc", "dealloc", "panicked"}
    /\ asked \in 0 .. MaxRequest
    /\ base \in {NONE} \cup DataClusters
    /\ prev \in {NONE} \cup DataClusters
    /\ iter \in Nat
    /\ first \in {NONE} \cup DataClusters
    /\ cur \in {NONE} \cup DataClusters
    /\ got \in Nat
    /\ ret \in [fn : {"none", "alloc_cluster", "alloc_clusters", "dealloc_clusters"},
                val : Int, asked : Nat, got : Nat]

\* No call, and no iteration of one, makes two chains share a cluster, makes a
\* chain lead into a free cluster, or leaves a file's first cluster inside
\* another chain (the order of set_entry calls in fat.rs:276-332).
ChainsDisjoint ==
    /\ NoDangling(fat)
    /\ NoCrossLink(fat)
    /\ \A h \in heads : IsUsed(fat, h) /\ ~IsLinked(fat, h)

\* Every chain reaches an End, so that the walks of fat.rs:146-190, which have
\* no bound of their own, come to an end.
ChainsEnd == Acyclic(fat)

\* Every cluster in use belongs to a chain whose first cluster a caller holds
\* or the running call still has in hand: nothing is lost between two
\* iterations, on a failed one, or at a return (fat.rs:292-348).
NoLeak ==
    pc # "panicked" =>
        \A c \in DataClusters :
            IsUsed(fat, c) => c \in heads \cup InFlight \/ IsLinked(fat, c)

\* A hint that is known names a free data cluster. alloc_cluster takes a hint
\* above 2 without looking at its entry (fat.rs:199-202), so a stale one
\* would put a cluster of a live file into a second chain.
HintIsFree ==
    nextFree # NONE => nextFree \in DataClusters /\ fat[nextFree] = FREE

\* A known count is the number of free clusters, before, during and after
\* every call and over remounts (fat.rs:285, 320, 328; tests/fat.rs:79-83).
CountExact ==
    pc # "panicked" /\ freeCount # NONE =>
        freeCount = Cardinality(FreeClusters(fat))

\* alloc_clusters either allocates all it was asked for or nothing: its guard
\* on the count (fat.rs:294) is the only thing between a caller and a partial
\* chain, for the loop ignores a failed alloc_cluster.
AllOrNothing ==
    ret.fn = "alloc_clusters" =>
        ret.got = (IF ret.val = NONE THEN 0 ELSE ret.asked)

\* alloc_cluster says None only when no cluster is free, wherever the hint is
\* and whatever the count says (fat.rs:193-222, 276-290).
AllocFindsSpace ==
    ret.fn = "alloc_cluster" /\ ret.val = NONE => FreeClusters(fat) = {}

\* No call runs into the assertion of the search (fat.rs:195-198) or into an
\* overflow of the count (fat.rs:285, 320, 328).
NoPanic == pc # "panicked"

\* What the locals of the two loops mean between iterations: a None in prev_id
\* or first says that nothing is free any more, so that the iterations after
\* a failed one cannot start a second chain (fat.rs:297-302); the cluster to be
\* freed next is led to by prev alone, or by nothing (fat.rs:337-346).
LoopInv ==
    /\ fat[0] = END /\ fat[1] = END
    /\ pc \in {"alloc", "dealloc"} => ret = NoResult
    /\ pc = "alloc" =>
        /\ iter <= asked
        /\ prev \in {NONE} \cup Tails(fat)
        /\ iter = 0 => prev = base /\ first = NONE
        /\ iter > 0 /\ (prev = NONE \/ first = NONE) => FreeClusters(fat) = {}
        /\ first # NONE => IsUsed(fat, first)
        /\ first # NONE /\ base = NONE => ~IsLinked(fat, first)
    /\ pc = "dealloc" /\ cur # NONE /\ IsUsed(fat, cur) =>
        /\ cur \notin heads
        /\ IF prev = NONE THEN ~IsLinked(fat, cur) ELSE fat[prev] = cur

\* Every call that has begun returns (or panics): the loops of
\* alloc_clusters and dealloc_clusters end (fat.rs:297-302, 337-346).
CallsReturn == pc \in {"alloc", "dealloc"} ~> pc \in {"ready", "panicked"}
=============================================================================
