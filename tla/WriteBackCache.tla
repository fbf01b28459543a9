--------------------------- MODULE WriteBackCache ---------------------------
(***************************************************************************)
(* The write-back cache of RunFS, which exists twice with the same logic:  *)
(* SectorCacheManager over BlockCache for the FAT and FSInfo sectors       *)
(* (src/sector_cache.rs, four entries, one sector each) and                *)
(* ClusterCacheManager over ClusterCache for the data clusters             *)
(* (src/cluster_cache.rs, two entries of several sectors each).            *)
(*                                                                         *)
(* An entry is a buffer behind an Arc: the queue holds one reference, and  *)
(* every call that uses the buffer holds another for as long as it does.   *)
(* A buffer dies with its last reference, and writes itself back then and  *)
(* only then, one sector at a time.  A crash loses every buffer.  A call    *)
(* whose device reports an error panics: its handles are unwound, spin     *)
(* locks are not poisoned, and other threads go on with the queue it left. *)
(***************************************************************************)
EXTENDS Integers, Sequences, FiniteSets

CONSTANTS
    Blocks,       \* sectors of the FAT region, or clusters
    NumParts,     \* sectors in a block
    Values,       \* what a sector may hold
    Buffers,      \* identities of buffers; a freed one may come back
    Handles,      \* places where a call keeps the Arc get_cache gave it
    CacheSize,    \* INFOSEC_CACHE_SZ or DATACLU_CACHE_SZ
    NoBuffer

ASSUME NumPartsAssumption == NumParts \in Nat \ {0}
ASSUME CacheSizeAssumption == CacheSize \in Nat \ {0}
ASSUME HandlesAssumption == IsFiniteSet(Handles)

Parts == 1 .. NumParts

VARIABLES
    disk,       \* the block device
    buf,        \* by buffer: block, contents, modified; NoBuffer when dead
    queue,      \* the manager's VecDeque, oldest first
    held,       \* by handle: the buffer it keeps alive
    pc,         \* what the manager is doing
    dropping,   \* buffer whose Drop is running
    part,       \* next sector its sync writes
    req,        \* handle and block of the get_cache that evicts
    mem         \* history: what callers wrote over what they found

vars == <<disk, buf, queue, held, pc, dropping, part, req, mem>>

Contents == [Parts -> Values]
BufferStates == [block : Blocks, data : Contents, modified : BOOLEAN]
ASSUME NoBufferAssumption == NoBuffer \notin Buffers \cup BufferStates
NoRequest == <<>>

Cached == {queue[i] : i \in DOMAIN queue}
Live   == (Cached \cup {held[h] : h \in Handles} \cup {dropping}) \ {NoBuffer}
Pinned(x) == \E h \in Handles : held[h] = x
\* Mutant: only the newest entry is looked at.
HitsNewest(b) == {x \in Cached : buf[x].block = b /\ x = queue[Len(queue)]}

Hits(b) == {x \in Cached : buf[x].block = b}

\* Mutant: pop_front in place of drain(idx).
WithoutFront(i) == SubSeq(queue, 2, Len(queue))

\* queue without its i-th element.
Without(i) == SubSeq(queue, 1, i - 1) \o SubSeq(queue, i + 1, Len(queue))
\* Mutants: references are not counted, or only the oldest entry is tried.
EvictableAny == DOMAIN queue
EvictableOldest == {i \in DOMAIN queue : i = 1 /\ ~Pinned(queue[i])}

\* Indices of buffers only the queue refers to: Arc::strong_count is 1.
Evictable == {i \in DOMAIN queue : ~Pinned(queue[i])}

\* buf once the last reference to x is gone.
Dead(x) == [buf EXCEPT ![x] = NoBuffer]

Init ==
    /\ disk \in [Blocks -> Contents]
    /\ buf = [x \in Buffers |-> NoBuffer]
    /\ queue = <<>>
    /\ held = [h \in Handles |-> NoBuffer]
    /\ pc = "up" /\ dropping = NoBuffer /\ part = 1 /\ req = NoRequest
    /\ mem = disk

-----------------------------------------------------------------------------
(* get_cache.                                                              *)

GetHit(h, b) ==
    /\ pc = "up" /\ held[h] = NoBuffer
    /\ \E x \in Hits(b) : held' = [held EXCEPT ![h] = x]
    /\ UNCHANGED <<disk, buf, queue, pc, dropping, part, req, mem>>

\* BlockCache::new / ClusterCache::new reads the device, then push_back; bufs
\* is buf without the buffer that made room.
Load(h, b, bufs) ==
    \E x \in Buffers :
        /\ bufs[x] = NoBuffer
        /\ buf' = [bufs EXCEPT ![x] =
                      [block |-> b, data |-> disk[b], modified |-> FALSE]]
        /\ queue' = Append(queue, x)
        /\ held' = [held EXCEPT ![h] = x]

\* Mutant: the size of the queue is not tested.
GetMissUnbounded(h, b) ==
    /\ pc = "up" /\ held[h] = NoBuffer
    /\ Hits(b) = {}
    /\ Load(h, b, buf)
    /\ UNCHANGED <<disk, pc, dropping, part, req, mem>>

GetMiss(h, b) ==
    /\ pc = "up" /\ held[h] = NoBuffer
    /\ Hits(b) = {} /\ Len(queue) # CacheSize
    /\ Load(h, b, buf)
    /\ UNCHANGED <<disk, pc, dropping, part, req, mem>>

\* Mutant: the sync starts at the second sector.
BeginDropSecond(x) ==
    /\ dropping' = x
    /\ part' = IF buf[x].modified THEN 2 ELSE NumParts + 1
    /\ buf' = [buf EXCEPT ![x].modified = FALSE]

\* sync clears modified before it writes; a clean buffer writes nothing.
BeginDrop(x) ==
    /\ dropping' = x
    /\ part' = IF buf[x].modified THEN 1 ELSE NumParts + 1
    /\ buf' = [buf EXCEPT ![x].modified = FALSE]

\* The queue is full: drain the oldest entry nobody else refers to.
GetEvict(h, b) ==
    /\ pc = "up" /\ held[h] = NoBuffer
    /\ Hits(b) = {} /\ Len(queue) = CacheSize
    /\ \E i \in Evictable :
        /\ \A j \in Evictable : i <= j
        /\ queue' = Without(i)
        /\ BeginDrop(queue[i])
    /\ pc' = "evict" /\ req' = <<h, b>>
    /\ UNCHANGED <<disk, held, mem>>

GetPanic(h, b) ==
    /\ pc = "up" /\ held[h] = NoBuffer
    /\ Hits(b) = {} /\ Len(queue) = CacheSize /\ Evictable = {}
    /\ pc' = "panicked"
    /\ UNCHANGED <<disk, buf, queue, held, dropping, part, req, mem>>

\* Mutant: one sector is written where the block has several.
SyncPartOnce ==
    /\ dropping # NoBuffer /\ part <= NumParts
    /\ disk' = [disk EXCEPT ![buf[dropping].block] =
                   [disk[buf[dropping].block] EXCEPT ![part] = buf[dropping].data[part]]]
    /\ part' = NumParts + 1
    /\ UNCHANGED <<buf, queue, held, pc, dropping, req, mem>>

\* One write_block of the sync of the buffer being dropped.
SyncPart ==
    /\ dropping # NoBuffer /\ part <= NumParts
    /\ disk' = [disk EXCEPT ![buf[dropping].block] =
                   [disk[buf[dropping].block] EXCEPT ![part] = buf[dropping].data[part]]]
    /\ part' = part + 1
    /\ UNCHANGED <<buf, queue, held, pc, dropping, req, mem>>

\* The evicted buffer is gone; get_cache loads the block it was asked for.
EndEvict ==
    /\ pc = "evict" /\ part = NumParts + 1
    /\ Load(req[1], req[2], Dead(dropping))
    /\ pc' = "up" /\ dropping' = NoBuffer /\ part' = 1 /\ req' = NoRequest
    /\ UNCHANGED <<disk, mem>>

-----------------------------------------------------------------------------
(* Errors of the device, which read and sync unwrap.                       *)

Unwound == [h \in Handles |-> NoBuffer]

\* read_block fails in get_cache: nothing has been queued, and what made room
\* is gone.
ReadFails ==
    /\ \/ /\ pc = "up" /\ Len(queue) # CacheSize
          /\ \E h \in Handles, b \in Blocks : held[h] = NoBuffer /\ Hits(b) = {}
          /\ UNCHANGED buf
       \/ /\ pc = "evict" /\ part = NumParts + 1
          /\ buf' = Dead(dropping)
    /\ held' = Unwound
    /\ pc' = "up" /\ dropping' = NoBuffer /\ part' = 1 /\ req' = NoRequest
    /\ UNCHANGED <<disk, queue, mem>>

\* write_block fails in a buffer's Drop, when its last reference is gone and
\* modified is cleared: the sectors it had not written are lost, and the next
\* get_cache finds the old ones.
SyncFails ==
    /\ dropping # NoBuffer /\ part <= NumParts
    /\ mem' = [mem EXCEPT ![buf[dropping].block] = disk[buf[dropping].block]]
    /\ buf' = Dead(dropping)
    /\ held' = Unwound
    /\ pc' = IF pc = "evict" THEN "up" ELSE pc
    /\ dropping' = NoBuffer /\ part' = 1 /\ req' = NoRequest
    /\ UNCHANGED <<disk, queue>>

-----------------------------------------------------------------------------
(* What a caller does with a buffer.                                       *)

\* Mutant: the modified flag is not set.
ModifyUnmarked(h, p, v) ==
    /\ pc = "up" /\ held[h] # NoBuffer
    /\ buf' = [buf EXCEPT ![held[h]] = [@ EXCEPT !.data = [@ EXCEPT ![p] = v]]]
    /\ mem' = [mem EXCEPT ![buf[held[h]].block] = [@ EXCEPT ![p] = v]]
    /\ UNCHANGED <<disk, queue, held, pc, dropping, part, req>>

Modify(h, p, v) ==
    LET x == held[h] IN
    /\ pc = "up" /\ x # NoBuffer
    /\ buf' = [buf EXCEPT ![x] = [block |-> buf[x].block,
                                  data |-> [buf[x].data EXCEPT ![p] = v],
                                  modified |-> TRUE]]
    /\ mem' = [mem EXCEPT ![buf[x].block] = [@ EXCEPT ![p] = v]]
    /\ UNCHANGED <<disk, queue, held, pc, dropping, part, req>>

Release(h) ==
    /\ pc = "up" /\ held[h] # NoBuffer
    /\ held' = [held EXCEPT ![h] = NoBuffer]
    /\ UNCHANGED <<disk, buf, queue, pc, dropping, part, req, mem>>

-----------------------------------------------------------------------------
(* Dropping the manager, opening the volume again, and losing power.       *)

\* Handles are temporaries of calls, so none is held when the manager goes.
Close ==
    /\ pc = "up" /\ \A h \in Handles : held[h] = NoBuffer
    /\ pc' = "closing"
    /\ UNCHANGED <<disk, buf, queue, held, dropping, part, req, mem>>

CloseNext ==
    /\ pc = "closing" /\ dropping = NoBuffer /\ queue # <<>>
    /\ BeginDrop(queue[1])
    /\ queue' = Without(1)
    /\ UNCHANGED <<disk, held, pc, req, mem>>

CloseDropped ==
    /\ pc = "closing" /\ dropping # NoBuffer /\ part = NumParts + 1
    /\ buf' = Dead(dropping)
    /\ dropping' = NoBuffer /\ part' = 1
    /\ UNCHANGED <<disk, queue, held, pc, req, mem>>

Closed ==
    /\ pc = "closing" /\ dropping = NoBuffer /\ queue = <<>>
    /\ pc' = "closed"
    /\ UNCHANGED <<disk, buf, queue, held, dropping, part, req, mem>>

Reopen ==
    /\ pc = "closed"
    /\ pc' = "up"
    /\ UNCHANGED <<disk, buf, queue, held, dropping, part, req, mem>>

Crash ==
    /\ buf' = [x \in Buffers |-> NoBuffer]
    /\ queue' = <<>> /\ held' = [h \in Handles |-> NoBuffer]
    /\ pc' = "up" /\ dropping' = NoBuffer /\ part' = 1 /\ req' = NoRequest
    /\ mem' = disk
    /\ UNCHANGED disk

Next ==
    \/ \E h \in Handles, b \in Blocks :
           GetHit(h, b) \/ GetMiss(h, b) \/ GetEvict(h, b) \/ GetPanic(h, b)
    \/ SyncPart
    \/ EndEvict
    \/ ReadFails \/ SyncFails
    \/ \E h \in Handles, p \in Parts, v \in Values : Modify(h, p, v)
    \/ \E h \in Handles : Release(h)
    \/ Close \/ CloseNext \/ CloseDropped \/ Closed \/ Reopen
    \/ Crash

Spec == Init /\ [][Next]_vars

-----------------------------------------------------------------------------
(* Properties.                                                             *)

\* Every variable stays in its type (sector_cache.rs:11-17, 106-110).
TypeOK ==
    /\ disk \in [Blocks -> Contents]
    /\ buf \in [Buffers -> BufferStates \cup {NoBuffer}]
    /\ Live = {x \in Buffers : buf[x] # NoBuffer}
    /\ queue \in Seq(Buffers) /\ Len(queue) <= CacheSize
    /\ held \in [Handles -> Buffers \cup {NoBuffer}]
    /\ pc \in {"up", "evict", "closing", "closed", "panicked"}
    /\ dropping \in Buffers \cup {NoBuffer}
    /\ part \in 1 .. NumParts + 1
    /\ req \in {NoRequest} \cup (Handles \X Blocks)

\* Two live buffers never stand for the same block: a block is loaded again
\* only after the buffer that had it is gone, so no write is made to a copy
\* that another one overwrites (sector_cache.rs:121-145).
OneBufferPerBlock ==
    \A x, y \in Live : buf[x].block = buf[y].block => x = y

\* A buffer a call still uses is in the queue: eviction passes over it, so the
\* next get_cache of its block finds it (sector_cache.rs:127-134).
HeldIsCached == \A h \in Handles : held[h] # NoBuffer => held[h] \in Cached

\* A live buffer that is not marked modified is what the device holds; the one
\* being written back agrees with it as far as its sync has come
\* (sector_cache.rs:84-94, cluster_cache.rs:105-119).
CleanIsOnDisk ==
    /\ \A x \in Live \ {dropping} :
           ~buf[x].modified => buf[x].data = disk[buf[x].block]
    /\ dropping # NoBuffer =>
           \A p \in Parts : p < part =>
               buf[dropping].data[p] = disk[buf[dropping].block][p]

\* get_cache runs out of entries ("Run out of SectorCache!") only when calls
\* keep at least CacheSize handles besides the new one; set_entry_raw keeps
\* one while it asks for another, the calls of data.rs none.
RunsOutOnlyWhenPinned ==
    pc = "panicked" =>
        Cardinality({h \in Handles : held[h] # NoBuffer}) >= CacheSize

\* What the manager may rely on between the steps of an eviction or a shutdown:
\* what is not marked modified is on disk, and the buffer being dropped has left
\* the queue, is marked clean, and is not of the block that is waited for
\* (sector_cache.rs:133-145).
WriteBackInv ==
    /\ CleanIsOnDisk
    /\ \A i, j \in DOMAIN queue : queue[i] = queue[j] => i = j
    /\ dropping \notin Cached
    /\ dropping # NoBuffer => ~buf[dropping].modified /\ pc \in {"evict", "closing"}
    /\ dropping = NoBuffer => part = 1 /\ pc # "evict"
    /\ pc = "evict" => /\ req # NoRequest /\ held[req[1]] = NoBuffer
                       /\ Len(queue) < CacheSize
                       /\ \A x \in Live : buf[x].block # req[2]
    /\ pc \in {"closing", "closed"} => \A h \in Handles : held[h] = NoBuffer
    /\ pc = "closed" => queue = <<>>

\* The current content of a block: its buffer's, or the device's.
View ==
    [b \in Blocks |->
        IF \E x \in Live : buf[x].block = b
        THEN buf[CHOOSE x \in Live : buf[x].block = b].data
        ELSE disk[b]]

\* What callers find is what was last written, or what the device had before:
\* no write is lost and none comes back by a hit, a miss, an eviction or a
\* shutdown, only by a crash, or, of one block, by an error of the device
\* while that block is written back (sector_cache.rs:120-147, cluster_cache.rs:142-170).
NoLostWrite == View = mem

Store == INSTANCE BlockStore WITH
             mem <- mem, stable <- disk, open <- (pc # "closed")

\* The device only ever takes over, sector by sector, what callers last wrote;
\* a crash takes callers back to the device, an error of the device one block,
\* the one being written back, and no other; and a manager that has been
\* dropped has written everything back (sector_cache.rs:87-101,
\* cluster_cache.rs:105-126).
ImplementsStore == Store!Spec
=============================================================================
