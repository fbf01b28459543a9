------------------------ MODULE WriteBackCacheProofs ------------------------
(***************************************************************************)
(* Proofs about WriteBackCache, for every number of blocks, sectors in a   *)
(* block, entries, buffers and calls.                                      *)
(*                                                                         *)
(* The argument: the live buffers are those of the queue and the one that  *)
(* is being dropped, each of a block of its own (Distinct).  Each holds    *)
(* what callers last wrote into its block, and a block without one has     *)
(* that on the device (Tells).  A buffer that is not marked modified can   *)
(* be forgotten, because the device has its contents (Clean), and so can   *)
(* the one being dropped, once its sync has come to the end.               *)
(***************************************************************************)
EXTENDS WriteBackCache, TLAPS, SequenceTheorems, FiniteSetTheorems

Bufs == [Buffers -> BufferStates \cup {NoBuffer}]

\* The predicates below are about a table of buffers b, a device d and the
\* contents m that callers know, so that they can speak of the table in the
\* middle of an action too.
LiveOf(b) == {x \in Buffers : b[x] # NoBuffer}

Distinct(b) == \A x, y \in LiveOf(b) : b[x].block = b[y].block => x = y

Clean(b, d, S) == \A x \in S : ~b[x].modified => b[x].data = d[b[x].block]

Tells(b, d, m) ==
    /\ \A x \in LiveOf(b) : m[b[x].block] = b[x].data
    /\ \A k \in Blocks : (\A x \in LiveOf(b) : b[x].block # k) => m[k] = d[k]

Types ==
    /\ disk \in [Blocks -> Contents] /\ mem \in [Blocks -> Contents]
    /\ buf \in Bufs
    /\ queue \in Seq(Buffers) /\ Len(queue) <= CacheSize
    /\ held \in [Handles -> Buffers \cup {NoBuffer}]
    /\ pc \in {"up", "evict", "closing", "closed", "panicked"}
    /\ dropping \in Buffers \cup {NoBuffer}
    /\ part \in 1 .. NumParts + 1
    /\ req \in {NoRequest} \cup (Handles \X Blocks)

QueueDistinct == \A i, j \in DOMAIN queue : queue[i] = queue[j] => i = j

LiveIsCached ==
    /\ LiveOf(buf) = Cached \cup ({dropping} \ {NoBuffer})
    /\ dropping \notin Cached

\* The sync of the buffer being dropped, as far as it has come.
Syncing ==
    IF dropping = NoBuffer THEN part = 1 /\ pc # "evict"
    ELSE /\ pc \in {"evict", "closing"}
         /\ ~buf[dropping].modified
         /\ \A p \in Parts : p < part =>
                buf[dropping].data[p] = disk[buf[dropping].block][p]

Phases ==
    /\ pc = "evict" =>
           /\ req \in Handles \X Blocks /\ held[req[1]] = NoBuffer
           /\ Len(queue) < CacheSize
           /\ \A x \in LiveOf(buf) : buf[x].block # req[2]
    /\ pc \in {"closing", "closed"} => \A h \in Handles : held[h] = NoBuffer
    /\ pc = "closed" => queue = <<>>
    /\ pc = "panicked" => Len(queue) = CacheSize /\ \A x \in Cached : Pinned(x)

IInv ==
    /\ Types
    /\ QueueDistinct
    /\ LiveIsCached
    /\ HeldIsCached
    /\ Distinct(buf)
    /\ Clean(buf, disk, LiveOf(buf) \ {dropping})
    /\ Tells(buf, disk, mem)
    /\ Syncing
    /\ Phases

-----------------------------------------------------------------------------
(* The queue.                                                              *)

\* A live buffer has a block, contents and a flag.
LEMMA LiveHasState ==
    ASSUME NEW b \in Bufs, NEW x \in LiveOf(b)
    PROVE  /\ b[x] \in BufferStates
           /\ b[x].block \in Blocks /\ b[x].data \in Contents
           /\ b[x].modified \in BOOLEAN
    BY DEF Bufs, LiveOf, BufferStates

\* A state of a buffer is not NoBuffer.
LEMMA StateIsLive == ASSUME NEW s \in BufferStates PROVE s # NoBuffer
    BY NoBufferAssumption DEF NoBufferAssumption

\* drain(idx) takes one buffer out of the queue and leaves the others.
LEMMA Removed ==
    ASSUME queue \in Seq(Buffers), QueueDistinct,
           NEW i \in DOMAIN queue, queue' = Without(i)
    PROVE  /\ queue' \in Seq(Buffers) /\ Len(queue') = Len(queue) - 1
           /\ Cached' = Cached \ {queue[i]}
           /\ QueueDistinct'
<1> DEFINE n == Len(queue)
           front == SubSeq(queue, 1, i - 1)
           back  == SubSeq(queue, i + 1, n)
<1>1. n \in Nat /\ DOMAIN queue = 1 .. n /\ \A k \in 1 .. n : queue[k] \in Buffers
    BY LenProperties, ElementOfSeq
<1>2. /\ front \in Seq(Buffers) /\ Len(front) = i - 1
      /\ \A k \in 1 .. i - 1 : front[k] = queue[k]
    <2>1. \A k \in 1 .. i - 1 : queue[k] \in Buffers
        BY <1>1
    <2> HIDE DEF n
    <2> QED BY <1>1, <2>1, SubSeqProperties, SMT
<1>3. /\ back \in Seq(Buffers) /\ Len(back) = n - i
      /\ \A k \in 1 .. n - i : back[k] = queue[i + k]
    <2>1. \A k \in i + 1 .. n : queue[k] \in Buffers
        BY <1>1
    <2> HIDE DEF n
    <2>2. /\ back \in Seq(Buffers) /\ Len(back) = (IF i + 1 <= n THEN n - (i + 1) + 1 ELSE 0)
          /\ \A k \in 1 .. n - (i + 1) + 1 : back[k] = queue[(i + 1) + k - 1]
        <3>1. i + 1 \in Int /\ n \in Int
            BY <1>1
        <3> QED BY <2>1, <3>1, SubSeqProperties
    <2> QED BY <1>1, <2>2, SMT
<1>4. /\ queue' \in Seq(Buffers) /\ Len(queue') = n - 1
      /\ \A k \in 1 .. n - 1 : queue'[k] = IF k < i THEN queue[k] ELSE queue[k + 1]
    <2> HIDE DEF n, front, back
    <2>1. queue' = front \o back
        BY DEF Without, front, back, n
    <2>2. /\ queue' \in Seq(Buffers) /\ Len(queue') = (i - 1) + (n - i)
          /\ \A k \in 1 .. (i - 1) + (n - i) :
                queue'[k] = IF k <= i - 1 THEN front[k] ELSE back[k - (i - 1)]
        BY <2>1, <1>2, <1>3, ConcatProperties
    <2>3. i \in 1 .. n /\ (i - 1) + (n - i) = n - 1
        BY <1>1, SMT
    <2>4. ASSUME NEW k \in 1 .. n - 1
          PROVE  queue'[k] = IF k < i THEN queue[k] ELSE queue[k + 1]
        <3>1. CASE k < i
            <4>1. k \in 1 .. i - 1
                BY <1>1, <2>3, <3>1, SMT
            <4> QED BY <1>2, <2>2, <2>3, <3>1, <4>1
        <3>2. CASE ~(k < i)
            <4>1. /\ k - (i - 1) \in 1 .. n - i /\ i + (k - (i - 1)) = k + 1
                  /\ ~(k <= i - 1)
                BY <1>1, <2>3, <3>2, SMT
            <4> QED BY <1>3, <2>2, <2>3, <3>2, <4>1
        <3> QED BY <3>1, <3>2
    <2> QED BY <2>2, <2>3, <2>4
<1> HIDE DEF n, front, back
<1>5. DOMAIN queue' = 1 .. n - 1
    BY <1>1, <1>4, LenProperties
<1>6. Cached' = Cached \ {queue[i]}
    <2>1. ASSUME NEW x \in Cached' PROVE x \in Cached /\ x # queue[i]
        <3>1. PICK k \in 1 .. n - 1 : x = queue'[k]
            BY <2>1, <1>5 DEF Cached
        <3>2. \E j \in 1 .. n : x = queue[j] /\ j # i
            BY <1>1, <1>4, <3>1, SMT
        <3> QED BY <3>2, <1>1 DEF Cached, QueueDistinct
    <2>2. ASSUME NEW x \in Cached, x # queue[i] PROVE x \in Cached'
        <3>1. PICK j \in 1 .. n : x = queue[j]
            BY <2>2, <1>1 DEF Cached
        <3>2. j # i
            BY <2>2, <3>1
        <3>3. \E k \in 1 .. n - 1 : queue'[k] = queue[j]
            <4>1. CASE j < i
                BY <1>1, <1>4, <4>1, SMT
            <4>2. CASE j > i
                <5>1. j - 1 \in 1 .. n - 1 /\ ~(j - 1 < i) /\ (j - 1) + 1 = j
                    BY <1>1, <4>2, SMT
                <5> QED BY <1>4, <5>1
            <4> QED BY <1>1, <3>2, <4>1, <4>2, SMT
        <3> QED BY <1>5, <3>1, <3>3 DEF Cached
    <2> QED BY <2>1, <2>2
<1>7. QueueDistinct'
    <2> SUFFICES ASSUME NEW j \in 1 .. n - 1, NEW k \in 1 .. n - 1, queue'[j] = queue'[k]
                 PROVE  j = k
        BY <1>5 DEF QueueDistinct
    <2> DEFINE up(m) == IF m < i THEN m ELSE m + 1
    <2>1. up(j) \in DOMAIN queue /\ up(k) \in DOMAIN queue
        BY <1>1, SMT
    <2>2. queue[up(j)] = queue[up(k)]
        BY <1>4
    <2>3. up(j) = up(k)
        <3> HIDE DEF up
        <3> QED BY <2>1, <2>2 DEF QueueDistinct
    <2> QED BY <1>1, <2>3, SMT
<1> QED BY <1>4, <1>6, <1>7 DEF n

\* push_back adds a buffer the queue did not have.
LEMMA Appended ==
    ASSUME queue \in Seq(Buffers), QueueDistinct,
           NEW x \in Buffers, x \notin Cached, queue' = Append(queue, x)
    PROVE  /\ queue' \in Seq(Buffers) /\ Len(queue') = Len(queue) + 1
           /\ Cached' = Cached \cup {x}
           /\ QueueDistinct'
<1>1. /\ queue' \in Seq(Buffers) /\ Len(queue') = Len(queue) + 1
      /\ \A i \in 1 .. Len(queue) : queue'[i] = queue[i]
      /\ queue'[Len(queue) + 1] = x
    BY AppendProperties
<1>2. /\ Len(queue) \in Nat /\ DOMAIN queue = 1 .. Len(queue)
      /\ DOMAIN queue' = 1 .. Len(queue) + 1
    BY <1>1, LenProperties
<1>3. DOMAIN queue' = DOMAIN queue \cup {Len(queue) + 1}
    BY <1>2, SMT
<1>4. Cached' = Cached \cup {x}
    BY <1>1, <1>2, <1>3 DEF Cached
<1>5. QueueDistinct'
    BY <1>1, <1>2, <1>3 DEF QueueDistinct, Cached
<1> QED BY <1>1, <1>4, <1>5

-----------------------------------------------------------------------------
(* Parts of actions.                                                       *)

\* Two contents of a block that agree in every sector are the same.
LEMMA SameContents ==
    ASSUME NEW c \in Contents, NEW d \in Contents, \A p \in Parts : c[p] = d[p]
    PROVE  c = d
    BY DEF Contents

\* A block that is loaded holds what the device holds, and nobody else has it.
LEMMA LoadKeeps ==
    ASSUME Types, QueueDistinct, HeldIsCached,
           NEW bufs \in Bufs, LiveOf(bufs) = Cached, Distinct(bufs),
           Clean(bufs, disk, LiveOf(bufs)), Tells(bufs, disk, mem),
           NEW h \in Handles, NEW b \in Blocks, Len(queue) < CacheSize,
           \A x \in LiveOf(bufs) : bufs[x].block # b,
           Load(h, b, bufs), UNCHANGED <<disk, mem>>
    PROVE  /\ buf' \in Bufs
           /\ queue' \in Seq(Buffers) /\ Len(queue') <= CacheSize
           /\ held' \in [Handles -> Buffers \cup {NoBuffer}]
           /\ QueueDistinct' /\ HeldIsCached'
           /\ LiveOf(buf') = Cached' /\ Distinct(buf')
           /\ Clean(buf', disk', LiveOf(buf')) /\ Tells(buf', disk', mem')
<1> DEFINE fresh == [block |-> b, data |-> disk[b], modified |-> FALSE]
<1>1. PICK x \in Buffers :
        /\ bufs[x] = NoBuffer
        /\ buf' = [bufs EXCEPT ![x] = fresh]
        /\ queue' = Append(queue, x)
        /\ held' = [held EXCEPT ![h] = x]
    BY DEF Load
<1>2. fresh \in BufferStates /\ fresh # NoBuffer
    BY StateIsLive DEF Types, BufferStates
<1>3. x \notin LiveOf(bufs) /\ x \notin Cached
    BY <1>1 DEF LiveOf
<1>4. /\ queue' \in Seq(Buffers) /\ Len(queue') = Len(queue) + 1
      /\ Cached' = Cached \cup {x} /\ QueueDistinct'
    BY <1>1, <1>3, Appended DEF Types
<1>5. Len(queue') <= CacheSize
    BY <1>4, CacheSizeAssumption, LenProperties, SMT DEF CacheSizeAssumption, Types
<1>6. /\ buf' \in Bufs /\ buf'[x] = fresh
      /\ \A y \in Buffers \ {x} : buf'[y] = bufs[y]
    BY <1>1, <1>2 DEF Bufs
<1>7. LiveOf(buf') = LiveOf(bufs) \cup {x}
    BY <1>2, <1>6 DEF LiveOf
<1>8. \A y \in LiveOf(bufs) : buf'[y] = bufs[y]
    BY <1>3, <1>6 DEF LiveOf
<1>9. buf'[x].block = b /\ buf'[x].data = disk[b] /\ buf'[x].modified = FALSE
    BY <1>6
<1> HIDE DEF fresh
<1>10. Distinct(buf')
    BY <1>7, <1>8, <1>9 DEF Distinct
<1>11. Clean(buf', disk', LiveOf(buf'))
    BY <1>7, <1>8, <1>9 DEF Clean
<1>12. Tells(buf', disk', mem')
    <2>1. mem[b] = disk[b]
        BY DEF Tells
    <2> QED BY <2>1, <1>7, <1>8, <1>9 DEF Tells
<1>13. held' \in [Handles -> Buffers \cup {NoBuffer}] /\ HeldIsCached'
    BY <1>1, <1>4 DEF Types, HeldIsCached
<1> QED BY <1>4, <1>5, <1>6, <1>7, <1>10, <1>11, <1>12, <1>13

\* The table without the buffer that is dropped.
LEMMA Gone ==
    ASSUME IInv, dropping # NoBuffer
    PROVE  LET b == Dead(dropping) IN
           /\ b \in Bufs /\ LiveOf(b) = Cached /\ Distinct(b)
           /\ Clean(b, disk, LiveOf(b))
           /\ LiveOf(b) = LiveOf(buf) \ {dropping}
           /\ \A x \in LiveOf(b) : b[x] = buf[x]
           /\ dropping \in LiveOf(buf)
<1> DEFINE b == Dead(dropping)
<1>1. dropping \in Buffers /\ dropping \in LiveOf(buf)
    BY DEF IInv, Types, LiveIsCached
<1>2. /\ b \in Bufs /\ b[dropping] = NoBuffer
      /\ \A x \in Buffers \ {dropping} : b[x] = buf[x]
    BY <1>1 DEF IInv, Types, Bufs, Dead
<1> HIDE DEF b
<1>3. LiveOf(b) = LiveOf(buf) \ {dropping} /\ \A x \in LiveOf(b) : b[x] = buf[x]
    BY <1>2 DEF LiveOf
<1>4. LiveOf(b) = Cached
    BY <1>3 DEF IInv, LiveIsCached
<1>5. Distinct(b) /\ Clean(b, disk, LiveOf(b))
    BY <1>3 DEF IInv, Distinct, Clean
<1> QED BY <1>1, <1>2, <1>3, <1>4, <1>5 DEF b

\* Once its sync has come to the end, the buffer that is dropped can go: the
\* device holds what it holds.
LEMMA Forgotten ==
    ASSUME IInv, dropping # NoBuffer, part = NumParts + 1
    PROVE  Tells(Dead(dropping), disk, mem)
<1> DEFINE b == Dead(dropping)
<1>1. /\ LiveOf(b) = LiveOf(buf) \ {dropping} /\ dropping \in LiveOf(buf)
      /\ \A x \in LiveOf(b) : b[x] = buf[x]
    BY Gone
<1> HIDE DEF b
<1>2. buf[dropping].data = disk[buf[dropping].block]
    <2>1. \A p \in Parts : p < part
        BY NumPartsAssumption, SMT DEF Parts, NumPartsAssumption
    <2>2. \A p \in Parts : buf[dropping].data[p] = disk[buf[dropping].block][p]
        BY <2>1 DEF IInv, Syncing
    <2>3. buf[dropping].data \in Contents /\ disk[buf[dropping].block] \in Contents
        BY <1>1, LiveHasState DEF IInv, Types
    <2> QED BY <2>2, <2>3, SameContents
<1>3. ASSUME NEW k \in Blocks, \A x \in LiveOf(b) : b[x].block # k
      PROVE  mem[k] = disk[k]
    <2>1. CASE k = buf[dropping].block
        BY <1>1, <1>2, <2>1 DEF IInv, Tells
    <2>2. CASE k # buf[dropping].block
        <3>1. \A x \in LiveOf(buf) : buf[x].block # k
            BY <1>1, <1>3, <2>2
        <3> QED BY <3>1 DEF IInv, Tells
    <2> QED BY <2>1, <2>2
<1>4. Tells(b, disk, mem)
    BY <1>1, <1>3 DEF IInv, Tells
<1> QED BY <1>4 DEF b

\* A buffer nobody else refers to leaves the queue and begins its sync.
LEMMA DropBegins ==
    ASSUME IInv, dropping = NoBuffer, NEW i \in DOMAIN queue, ~Pinned(queue[i]),
           queue' = Without(i), BeginDrop(queue[i]), UNCHANGED <<disk, held, mem>>
    PROVE  /\ buf' \in Bufs
           /\ queue' \in Seq(Buffers) /\ Len(queue') = Len(queue) - 1
           /\ part' \in 1 .. NumParts + 1
           /\ dropping' \in Buffers /\ dropping' = queue[i]
           /\ QueueDistinct' /\ LiveIsCached' /\ HeldIsCached' /\ Distinct(buf')
           /\ Clean(buf', disk', LiveOf(buf') \ {dropping'})
           /\ Tells(buf', disk', mem')
           /\ ~buf'[dropping'].modified
           /\ \A p \in Parts : p < part' =>
                  buf'[dropping'].data[p] = disk'[buf'[dropping'].block][p]
           /\ LiveOf(buf') = LiveOf(buf)
           /\ \A x \in LiveOf(buf) : buf'[x].block = buf[x].block
<1> DEFINE x == queue[i]
<1>1. x \in Cached /\ x \in Buffers /\ x # NoBuffer /\ x \in LiveOf(buf)
    <2>1. x \in Cached /\ x \in LiveOf(buf)
        BY DEF Cached, IInv, LiveIsCached
    <2> QED BY <2>1, NoBufferAssumption DEF LiveOf, NoBufferAssumption
<1>2. /\ queue' \in Seq(Buffers) /\ Len(queue') = Len(queue) - 1
      /\ Cached' = Cached \ {x} /\ QueueDistinct'
    BY Removed DEF IInv, Types
<1>3. /\ dropping' = x
      /\ part' = IF buf[x].modified THEN 1 ELSE NumParts + 1
      /\ buf' = [buf EXCEPT ![x].modified = FALSE]
    BY DEF BeginDrop
<1>4. ~Pinned(x)
    OBVIOUS
<1> HIDE DEF x
<1>5. buf[x] \in BufferStates /\ buf \in Bufs
    BY <1>1, LiveHasState DEF IInv, Types
<1>6. /\ buf' \in Bufs
      /\ buf'[x] \in BufferStates
      /\ buf'[x].block = buf[x].block /\ buf'[x].data = buf[x].data
      /\ buf'[x].modified = FALSE
      /\ \A y \in Buffers \ {x} : buf'[y] = buf[y]
    BY <1>1, <1>3, <1>5 DEF Bufs, BufferStates
<1>7. LiveOf(buf') = LiveOf(buf)
    BY <1>1, <1>6, StateIsLive DEF LiveOf
<1>8. \A y \in LiveOf(buf) : /\ buf'[y].block = buf[y].block
                             /\ buf'[y].data = buf[y].data
    BY <1>6 DEF LiveOf
<1>9. LiveOf(buf) = Cached
    BY <1>1 DEF IInv, LiveIsCached
<1>10. LiveIsCached' /\ HeldIsCached'
    <2>1. LiveIsCached'
        BY <1>1, <1>2, <1>3, <1>7, <1>9 DEF LiveIsCached
    <2>2. HeldIsCached'
        BY <1>2, <1>4 DEF HeldIsCached, IInv, Pinned
    <2> QED BY <2>1, <2>2
<1>11. Distinct(buf')
    BY <1>7, <1>8 DEF IInv, Distinct
<1>12. Tells(buf', disk', mem')
    BY <1>7, <1>8 DEF IInv, Tells
<1>13. Clean(buf', disk', LiveOf(buf') \ {dropping'})
    <2>1. \A y \in LiveOf(buf) \ {x} : buf'[y] = buf[y] /\ y # dropping
        BY <1>6, <1>9, NoBufferAssumption DEF LiveOf, NoBufferAssumption
    <2> QED BY <2>1, <1>3, <1>7 DEF IInv, Clean
<1>14. \A p \in Parts : p < part' => buf'[x].data[p] = disk[buf'[x].block][p]
    <2>1. CASE buf[x].modified
        BY <2>1, <1>3, NumPartsAssumption, SMT DEF Parts, NumPartsAssumption
    <2>2. CASE ~buf[x].modified
        <3>1. buf[x].data = disk[buf[x].block]
            BY <2>2, <1>1, NoBufferAssumption DEF IInv, Clean, NoBufferAssumption
        <3> QED BY <3>1, <1>6
    <2> QED BY <2>1, <2>2
<1>15. part' \in 1 .. NumParts + 1
    BY <1>3, NumPartsAssumption, SMT DEF NumPartsAssumption
<1> QED BY <1>1, <1>2, <1>3, <1>6, <1>7, <1>8, <1>10, <1>11, <1>12, <1>13, <1>14, <1>15 DEF x

-----------------------------------------------------------------------------
(* The actions keep the invariant.                                         *)

\* Without a drop under way every live buffer is in the queue.
LEMMA NoDrop ==
    ASSUME IInv, dropping = NoBuffer
    PROVE  /\ LiveOf(buf) = Cached /\ LiveOf(buf) \ {dropping} = LiveOf(buf)
           /\ Clean(buf, disk, LiveOf(buf))
<1>1. LiveOf(buf) \ {dropping} = LiveOf(buf)
    BY NoBufferAssumption DEF LiveOf, NoBufferAssumption
<1> QED BY <1>1 DEF IInv, LiveIsCached

\* A buffer is being dropped only during an eviction or a shutdown.
LEMMA UpIsIdle ==
    ASSUME IInv, pc \notin {"evict", "closing"}
    PROVE  dropping = NoBuffer /\ part = 1
    BY DEF IInv, Syncing

LEMMA InvInit == Init => IInv
<1> SUFFICES ASSUME Init PROVE IInv
    OBVIOUS
<1> USE DEF Init
<1>1. Types
    <2>1. <<>> \in Seq(Buffers) /\ Len(<<>>) <= CacheSize
        BY EmptySeq, CacheSizeAssumption, SMT DEF CacheSizeAssumption
    <2>2. 1 \in 1 .. NumParts + 1
        BY NumPartsAssumption, SMT DEF NumPartsAssumption
    <2> QED BY <2>1, <2>2 DEF Types, Bufs
<1>2. LiveOf(buf) = {}
    BY DEF LiveOf
<1>3. DOMAIN queue = {}
    OBVIOUS
<1>4. Cached = {} /\ QueueDistinct
    BY <1>3 DEF Cached, QueueDistinct
<1>5. LiveIsCached /\ HeldIsCached
    BY <1>2, <1>4 DEF LiveIsCached, HeldIsCached
<1>6. Distinct(buf) /\ Clean(buf, disk, LiveOf(buf) \ {dropping}) /\ Tells(buf, disk, mem)
    BY <1>2 DEF Distinct, Clean, Tells
<1>7. Syncing /\ Phases
    BY DEF Syncing, Phases
<1> QED BY <1>1, <1>4, <1>5, <1>6, <1>7 DEF IInv

LEMMA InvGetHit ==
    ASSUME IInv, NEW h \in Handles, NEW b \in Blocks, GetHit(h, b) PROVE IInv'
<1>1. PICK x \in Hits(b) : held' = [held EXCEPT ![h] = x]
    BY DEF GetHit
<1>2. x \in Cached /\ x \in Buffers
    BY <1>1, LenProperties, ElementOfSeq DEF Hits, Cached, IInv, Types
<1> USE DEF GetHit
<1>3. Types' /\ HeldIsCached'
    BY <1>1, <1>2 DEF IInv, Types, HeldIsCached, Cached
<1>4. QueueDistinct' /\ LiveIsCached' /\ Syncing'
    BY DEF IInv, QueueDistinct, LiveIsCached, Cached, Syncing
<1>5. Phases'
    BY DEF IInv, Phases
<1> QED BY <1>3, <1>4, <1>5 DEF IInv

LEMMA InvGetMiss ==
    ASSUME IInv, NEW h \in Handles, NEW b \in Blocks, GetMiss(h, b) PROVE IInv'
<1> USE DEF GetMiss
<1>1. dropping = NoBuffer
    BY UpIsIdle
<1>2. Len(queue) < CacheSize
    BY LenProperties, CacheSizeAssumption, SMT DEF IInv, Types, CacheSizeAssumption
<1>3. \A x \in LiveOf(buf) : buf[x].block # b
    BY <1>1, NoDrop DEF Hits
<1>4. /\ buf' \in Bufs
      /\ queue' \in Seq(Buffers) /\ Len(queue') <= CacheSize
      /\ held' \in [Handles -> Buffers \cup {NoBuffer}]
      /\ QueueDistinct' /\ HeldIsCached'
      /\ LiveOf(buf') = Cached' /\ Distinct(buf')
      /\ Clean(buf', disk', LiveOf(buf')) /\ Tells(buf', disk', mem')
    BY <1>1, <1>2, <1>3, NoDrop, LoadKeeps DEF IInv, Types
<1>5. Types'
    BY <1>4 DEF IInv, Types
<1>6. LiveIsCached' /\ Clean(buf', disk', LiveOf(buf') \ {dropping'})
    BY <1>1, <1>4, NoBufferAssumption
       DEF LiveIsCached, LiveOf, Clean, NoBufferAssumption
<1>7. Syncing' /\ Phases'
    BY <1>1 DEF IInv, Syncing, Phases
<1> QED BY <1>4, <1>5, <1>6, <1>7 DEF IInv

LEMMA InvGetEvict ==
    ASSUME IInv, NEW h \in Handles, NEW b \in Blocks, GetEvict(h, b) PROVE IInv'
<1>1. dropping = NoBuffer
    BY UpIsIdle DEF GetEvict
<1>2. PICK i \in Evictable : queue' = Without(i) /\ BeginDrop(queue[i])
    BY DEF GetEvict
<1>3. i \in DOMAIN queue /\ ~Pinned(queue[i])
    BY <1>2 DEF Evictable
<1>4. UNCHANGED <<disk, held, mem>> /\ pc' = "evict" /\ req' = <<h, b>>
      /\ held[h] = NoBuffer /\ Hits(b) = {} /\ Len(queue) = CacheSize
    BY DEF GetEvict
<1>5. /\ buf' \in Bufs
      /\ queue' \in Seq(Buffers) /\ Len(queue') = Len(queue) - 1
      /\ part' \in 1 .. NumParts + 1
      /\ dropping' \in Buffers
      /\ QueueDistinct' /\ LiveIsCached' /\ HeldIsCached' /\ Distinct(buf')
      /\ Clean(buf', disk', LiveOf(buf') \ {dropping'})
      /\ Tells(buf', disk', mem')
      /\ ~buf'[dropping'].modified
      /\ \A p \in Parts : p < part' =>
             buf'[dropping'].data[p] = disk'[buf'[dropping'].block][p]
      /\ LiveOf(buf') = LiveOf(buf)
      /\ \A x \in LiveOf(buf) : buf'[x].block = buf[x].block
    BY <1>1, <1>2, <1>3, <1>4, DropBegins
<1>6. Len(queue') < CacheSize
    BY <1>4, <1>5, CacheSizeAssumption, SMT DEF CacheSizeAssumption
<1>7. Types'
    BY <1>4, <1>5, <1>6, CacheSizeAssumption, LenProperties, SMT
       DEF IInv, Types, CacheSizeAssumption
<1>8. Syncing'
    BY <1>4, <1>5, NoBufferAssumption DEF Syncing, NoBufferAssumption
<1>9. Phases'
    <2>1. \A x \in LiveOf(buf') : buf'[x].block # b
        BY <1>1, <1>4, <1>5, NoDrop DEF Hits
    <2> QED BY <2>1, <1>4, <1>6 DEF Phases
<1> QED BY <1>5, <1>7, <1>8, <1>9 DEF IInv

LEMMA InvGetPanic ==
    ASSUME IInv, NEW h \in Handles, NEW b \in Blocks, GetPanic(h, b) PROVE IInv'
<1> USE DEF GetPanic
<1>1. dropping = NoBuffer
    BY UpIsIdle
<1>2. Types' /\ QueueDistinct' /\ LiveIsCached' /\ HeldIsCached'
    BY DEF IInv, Types, QueueDistinct, LiveIsCached, HeldIsCached, Cached
<1>3. Syncing'
    BY <1>1 DEF IInv, Syncing
<1>4. Phases'
    BY DEF Phases, Evictable, Cached, Pinned
<1> QED BY <1>2, <1>3, <1>4 DEF IInv

LEMMA InvSyncPart == ASSUME IInv, SyncPart PROVE IInv'
<1> DEFINE k == buf[dropping].block
<1>1. /\ dropping # NoBuffer /\ part <= NumParts
      /\ disk' = [disk EXCEPT ![k] = [disk[k] EXCEPT ![part] = buf[dropping].data[part]]]
      /\ part' = part + 1
      /\ UNCHANGED <<buf, queue, held, pc, dropping, req, mem>>
    BY DEF SyncPart
<1>2. dropping \in LiveOf(buf) /\ dropping \in Buffers
    BY <1>1 DEF IInv, LiveIsCached, LiveOf
<1>3. k \in Blocks /\ buf[dropping].data \in Contents
    BY <1>2, LiveHasState DEF IInv, Types
<1> HIDE DEF k
<1>4. part \in Parts /\ part' \in 1 .. NumParts + 1
    BY <1>1, NumPartsAssumption, SMT DEF IInv, Types, Parts, NumPartsAssumption
<1>5. /\ disk' \in [Blocks -> Contents]
      /\ disk'[k][part] = buf[dropping].data[part]
      /\ \A p \in Parts \ {part} : disk'[k][p] = disk[k][p]
      /\ \A b \in Blocks \ {k} : disk'[b] = disk[b]
    BY <1>1, <1>3, <1>4 DEF IInv, Types, Contents
<1>6. Types'
    BY <1>1, <1>4, <1>5 DEF IInv, Types
<1>7. QueueDistinct' /\ LiveIsCached' /\ HeldIsCached' /\ Phases'
    BY <1>1 DEF IInv, QueueDistinct, LiveIsCached, HeldIsCached, Cached, Phases, Pinned
<1>8. Clean(buf', disk', LiveOf(buf') \ {dropping'})
    <2>1. ASSUME NEW x \in LiveOf(buf) \ {dropping} PROVE disk'[buf[x].block] = disk[buf[x].block]
        <3>1. buf[x].block \in Blocks /\ buf[x].block # k
            BY <1>2, LiveHasState DEF IInv, Types, Distinct, k
        <3> QED BY <3>1, <1>5
    <2> QED BY <2>1, <1>1 DEF IInv, Clean
<1>9. Tells(buf', disk', mem')
    <2>1. ASSUME NEW b \in Blocks, \A x \in LiveOf(buf) : buf[x].block # b
          PROVE  disk'[b] = disk[b]
        BY <2>1, <1>2, <1>5 DEF k
    <2> QED BY <2>1, <1>1 DEF IInv, Tells
<1>10. Syncing'
    <2>1. ASSUME NEW p \in Parts, p < part'
          PROVE  buf[dropping].data[p] = disk'[k][p]
        <3>1. p = part \/ p < part
            BY <2>1, <1>1, <1>4, SMT DEF Parts
        <3> QED BY <3>1, <1>1, <1>5 DEF IInv, Syncing, k
    <2> QED BY <2>1, <1>1 DEF IInv, Syncing, k
<1> QED BY <1>1, <1>6, <1>7, <1>8, <1>9, <1>10 DEF IInv

LEMMA InvEndEvict == ASSUME IInv, EndEvict PROVE IInv'
<1>1. /\ pc = "evict" /\ part = NumParts + 1
      /\ Load(req[1], req[2], Dead(dropping))
      /\ pc' = "up" /\ dropping' = NoBuffer /\ part' = 1 /\ req' = NoRequest
      /\ UNCHANGED <<disk, mem>>
    BY DEF EndEvict
<1>2. dropping # NoBuffer
    BY <1>1 DEF IInv, Syncing
<1>3. /\ req[1] \in Handles /\ req[2] \in Blocks /\ Len(queue) < CacheSize
      /\ \A x \in LiveOf(buf) : buf[x].block # req[2]
    BY <1>1 DEF IInv, Phases
<1> DEFINE b == Dead(dropping)
<1>4. /\ b \in Bufs /\ LiveOf(b) = Cached /\ Distinct(b)
      /\ Clean(b, disk, LiveOf(b)) /\ Tells(b, disk, mem)
      /\ \A x \in LiveOf(b) : b[x].block # req[2]
    BY <1>1, <1>2, <1>3, Gone, Forgotten
<1>5. Load(req[1], req[2], b)
    BY <1>1
<1> HIDE DEF b
<1>6. /\ buf' \in Bufs
      /\ queue' \in Seq(Buffers) /\ Len(queue') <= CacheSize
      /\ held' \in [Handles -> Buffers \cup {NoBuffer}]
      /\ QueueDistinct' /\ HeldIsCached'
      /\ LiveOf(buf') = Cached' /\ Distinct(buf')
      /\ Clean(buf', disk', LiveOf(buf')) /\ Tells(buf', disk', mem')
    BY <1>1, <1>3, <1>4, <1>5, LoadKeeps DEF IInv
<1>7. Types'
    BY <1>1, <1>6, NumPartsAssumption, SMT DEF IInv, Types, NumPartsAssumption
<1>8. LiveIsCached' /\ Clean(buf', disk', LiveOf(buf') \ {dropping'})
    BY <1>1, <1>6, NoBufferAssumption DEF LiveIsCached, LiveOf, Clean, NoBufferAssumption
<1>9. Syncing' /\ Phases'
    BY <1>1 DEF Syncing, Phases
<1> QED BY <1>6, <1>7, <1>8, <1>9 DEF IInv

\* A call that panics, without or with a buffer it was dropping, leaves the
\* invariant behind if what callers know tells the same as the table and the device.
LEMMA Unwinds ==
    ASSUME IInv, UNCHANGED <<disk, queue>>, mem' \in [Blocks -> Contents],
           held' = Unwound, dropping' = NoBuffer, part' = 1, req' = NoRequest,
           pc' \in {"up", "closing"},
           buf' \in Bufs, LiveOf(buf') = Cached, Distinct(buf'),
           Clean(buf', disk, LiveOf(buf')), Tells(buf', disk, mem')
    PROVE  IInv'
<1>1. Types'
    BY NumPartsAssumption, SMT DEF IInv, Types, Unwound, NumPartsAssumption
<1>2. QueueDistinct' /\ Cached' = Cached
    BY DEF IInv, QueueDistinct, Cached
<1>3. LiveIsCached'
    BY <1>2, NoBufferAssumption DEF LiveIsCached, LiveOf, NoBufferAssumption
<1>4. HeldIsCached'
    BY DEF HeldIsCached, Unwound
<1>5. Clean(buf', disk', LiveOf(buf') \ {dropping'})
    BY DEF Clean
<1>6. Syncing' /\ Phases'
    BY DEF Syncing, Phases, Unwound
<1> QED BY <1>1, <1>2, <1>3, <1>4, <1>5, <1>6 DEF IInv

LEMMA InvReadFails == ASSUME IInv, ReadFails PROVE IInv'
<1>1. /\ held' = Unwound
      /\ pc' = "up" /\ dropping' = NoBuffer /\ part' = 1 /\ req' = NoRequest
      /\ UNCHANGED <<disk, queue, mem>>
    BY DEF ReadFails
<1>2. CASE pc = "up" /\ UNCHANGED buf
    <2>1. dropping = NoBuffer
        BY <1>2, UpIsIdle
    <2> QED BY <2>1, <1>1, <1>2, NoDrop, Unwinds DEF IInv, Types
<1>3. CASE pc = "evict" /\ part = NumParts + 1 /\ buf' = Dead(dropping)
    <2>1. dropping # NoBuffer
        BY <1>3 DEF IInv, Syncing
    <2> QED BY <2>1, <1>1, <1>3, Gone, Forgotten, Unwinds DEF IInv, Types
<1> QED BY <1>2, <1>3 DEF ReadFails

LEMMA InvSyncFails == ASSUME IInv, SyncFails PROVE IInv'
<1> DEFINE k == buf[dropping].block
<1>1. /\ dropping # NoBuffer
      /\ mem' = [mem EXCEPT ![k] = disk[k]]
      /\ buf' = Dead(dropping) /\ held' = Unwound
      /\ dropping' = NoBuffer /\ part' = 1 /\ req' = NoRequest
      /\ UNCHANGED <<disk, queue>>
    BY DEF SyncFails
<1>2. pc' \in {"up", "closing"}
    BY <1>1 DEF SyncFails, IInv, Syncing
<1>3. /\ buf' \in Bufs /\ LiveOf(buf') = Cached /\ Distinct(buf')
      /\ Clean(buf', disk, LiveOf(buf'))
      /\ LiveOf(buf') = LiveOf(buf) \ {dropping}
      /\ \A x \in LiveOf(buf') : buf'[x] = buf[x]
      /\ dropping \in LiveOf(buf)
    BY <1>1, Gone
<1>4. k \in Blocks
    BY <1>3, LiveHasState DEF IInv, Types
<1>5. \A x \in LiveOf(buf') : buf[x].block # k /\ buf[x].block \in Blocks
    BY <1>3, LiveHasState DEF IInv, Types, Distinct
<1> HIDE DEF k
<1>6. /\ mem' \in [Blocks -> Contents] /\ mem'[k] = disk[k]
      /\ \A b \in Blocks \ {k} : mem'[b] = mem[b]
    BY <1>1, <1>4 DEF IInv, Types
<1>7. Tells(buf', disk, mem')
    <2>1. ASSUME NEW b \in Blocks, \A x \in LiveOf(buf') : buf'[x].block # b
          PROVE  mem'[b] = disk[b]
        <3>1. CASE b = k
            BY <3>1, <1>6
        <3>2. CASE b # k
            <4>1. \A x \in LiveOf(buf) : buf[x].block # b
                BY <1>3, <2>1, <3>2 DEF k
            <4> QED BY <4>1, <3>2, <1>6 DEF IInv, Tells
        <3> QED BY <3>1, <3>2
    <2>2. ASSUME NEW x \in LiveOf(buf') PROVE mem'[buf'[x].block] = buf'[x].data
        BY <1>3, <1>5, <1>6 DEF IInv, Tells
    <2> QED BY <2>1, <2>2 DEF Tells
<1> QED BY <1>1, <1>2, <1>3, <1>6, <1>7, Unwinds

LEMMA InvModify ==
    ASSUME IInv, NEW h \in Handles, NEW p \in Parts, NEW v \in Values, Modify(h, p, v)
    PROVE  IInv'
<1> DEFINE x == held[h]
           k == buf[x].block
<1>1. /\ pc = "up" /\ x # NoBuffer
      /\ buf' = [buf EXCEPT ![x] = [block |-> k, data |-> [buf[x].data EXCEPT ![p] = v],
                                    modified |-> TRUE]]
      /\ mem' = [mem EXCEPT ![k] = [@ EXCEPT ![p] = v]]
      /\ UNCHANGED <<disk, queue, held, pc, dropping, part, req>>
    BY DEF Modify
<1>2. dropping = NoBuffer
    BY <1>1, UpIsIdle
<1>3. x \in LiveOf(buf) /\ x \in Buffers
    BY <1>1, <1>2, NoDrop DEF IInv, HeldIsCached, LiveOf
<1> HIDE DEF x
<1>4. buf[x] \in BufferStates /\ k \in Blocks /\ buf[x].data \in Contents
    BY <1>3, LiveHasState DEF IInv, Types
<1>5. buf[x].data = mem[k]
    BY <1>3 DEF IInv, Tells
<1>6. [buf[x].data EXCEPT ![p] = v] \in Contents
    BY <1>4 DEF Contents
<1> DEFINE new == [buf[x].data EXCEPT ![p] = v]
<1>7. /\ buf' \in Bufs /\ buf'[x] \in BufferStates
      /\ buf'[x].block = k /\ buf'[x].data = new /\ buf'[x].modified = TRUE
      /\ \A y \in Buffers \ {x} : buf'[y] = buf[y]
    <2> DEFINE state == [block |-> k, data |-> new, modified |-> TRUE]
    <2>1. state \in BufferStates
        BY <1>4, <1>6 DEF BufferStates
    <2>2. buf' = [buf EXCEPT ![x] = state]
        BY <1>1
    <2> HIDE DEF state
    <2>3. /\ buf' \in Bufs /\ buf'[x] = state
          /\ \A y \in Buffers \ {x} : buf'[y] = buf[y]
        BY <1>3, <2>1, <2>2 DEF IInv, Types, Bufs
    <2> QED BY <2>1, <2>3 DEF state
<1>8. /\ mem' \in [Blocks -> Contents] /\ mem'[k] = new
      /\ \A b \in Blocks \ {k} : mem'[b] = mem[b]
    BY <1>1, <1>4, <1>5, <1>6 DEF IInv, Types
<1> HIDE DEF new
<1>9. LiveOf(buf') = LiveOf(buf)
    BY <1>3, <1>7, StateIsLive DEF LiveOf
<1>10. Types'
    BY <1>1, <1>7, <1>8 DEF IInv, Types
<1>11. QueueDistinct' /\ LiveIsCached' /\ HeldIsCached' /\ Syncing' /\ Phases'
    <2>1. QueueDistinct' /\ LiveIsCached' /\ HeldIsCached'
        BY <1>1, <1>9 DEF IInv, QueueDistinct, LiveIsCached, HeldIsCached, Cached
    <2>2. Syncing' /\ Phases'
        BY <1>1, <1>2 DEF IInv, Syncing, Phases
    <2> QED BY <2>1, <2>2
<1>12. \A y \in LiveOf(buf) : y \in Buffers /\ buf'[y].block = buf[y].block
    BY <1>7 DEF LiveOf, k
<1>13. Distinct(buf')
    BY <1>9, <1>12 DEF IInv, Distinct
<1>14. Clean(buf', disk', LiveOf(buf') \ {dropping'})
    BY <1>1, <1>7, <1>9, <1>12 DEF IInv, Clean
<1>15. Tells(buf', disk', mem')
    <2>1. ASSUME NEW y \in LiveOf(buf), y # x PROVE mem'[buf'[y].block] = buf'[y].data
        <3>1. buf[y].block # k /\ buf[y].block \in Blocks
            BY <2>1, <1>3, LiveHasState DEF IInv, Types, Distinct, k
        <3> QED BY <3>1, <2>1, <1>7, <1>8, <1>12 DEF IInv, Tells
    <2>2. ASSUME NEW b \in Blocks, \A y \in LiveOf(buf) : buf[y].block # b
          PROVE  mem'[b] = disk[b]
        <3>1. b # k
            BY <2>2, <1>3 DEF k
        <3> QED BY <3>1, <2>2, <1>8 DEF IInv, Tells
    <2>3. mem'[buf'[x].block] = buf'[x].data
        BY <1>7, <1>8
    <2>4. \A y \in LiveOf(buf') : mem'[buf'[y].block] = buf'[y].data
        BY <2>1, <2>3, <1>9
    <2>5. \A b \in Blocks : (\A y \in LiveOf(buf') : buf'[y].block # b) => mem'[b] = disk'[b]
        BY <2>2, <1>1, <1>9, <1>12
    <2> QED BY <2>4, <2>5 DEF Tells
<1> QED BY <1>10, <1>11, <1>13, <1>14, <1>15 DEF IInv

LEMMA InvRelease == ASSUME IInv, NEW h \in Handles, Release(h) PROVE IInv'
<1> USE DEF Release
<1>1. Types' /\ HeldIsCached'
    BY DEF IInv, Types, HeldIsCached, Cached
<1>2. QueueDistinct' /\ LiveIsCached' /\ Syncing' /\ Phases'
    BY DEF IInv, QueueDistinct, LiveIsCached, Cached, Syncing, Phases
<1> QED BY <1>1, <1>2 DEF IInv

LEMMA InvClose == ASSUME IInv, Close \/ Closed \/ Reopen PROVE IInv'
<1>1. dropping = NoBuffer
    BY UpIsIdle DEF Close, Closed, Reopen
<1>2. UNCHANGED <<disk, buf, queue, held, dropping, part, req, mem>>
    BY DEF Close, Closed, Reopen
<1>3. Types'
    BY <1>2 DEF IInv, Types, Close, Closed, Reopen
<1>4. QueueDistinct' /\ LiveIsCached' /\ HeldIsCached'
    BY <1>2 DEF IInv, QueueDistinct, LiveIsCached, HeldIsCached, Cached
<1>5. Syncing' /\ Phases'
    BY <1>1, <1>2 DEF IInv, Syncing, Phases, Close, Closed, Reopen
<1> QED BY <1>2, <1>3, <1>4, <1>5 DEF IInv

LEMMA InvCloseNext == ASSUME IInv, CloseNext PROVE IInv'
<1>1. /\ pc = "closing" /\ dropping = NoBuffer /\ queue # <<>>
      /\ BeginDrop(queue[1]) /\ queue' = Without(1)
      /\ UNCHANGED <<disk, held, pc, req, mem>>
    BY DEF CloseNext
<1>2. 1 \in DOMAIN queue
    BY <1>1, LenProperties, EmptySeq, SMT DEF IInv, Types
<1>3. \A h \in Handles : held[h] = NoBuffer
    BY <1>1 DEF IInv, Phases
<1>4. ~Pinned(queue[1])
    <2>1. queue[1] \in Buffers
        BY <1>2, LenProperties DEF IInv, Types
    <2> QED BY <2>1, <1>3, NoBufferAssumption DEF Pinned, NoBufferAssumption
<1>5. /\ buf' \in Bufs
      /\ queue' \in Seq(Buffers) /\ Len(queue') = Len(queue) - 1
      /\ part' \in 1 .. NumParts + 1
      /\ dropping' \in Buffers
      /\ QueueDistinct' /\ LiveIsCached' /\ HeldIsCached' /\ Distinct(buf')
      /\ Clean(buf', disk', LiveOf(buf') \ {dropping'})
      /\ Tells(buf', disk', mem')
      /\ ~buf'[dropping'].modified
      /\ \A p \in Parts : p < part' =>
             buf'[dropping'].data[p] = disk'[buf'[dropping'].block][p]
    BY <1>1, <1>2, <1>4, DropBegins
<1>6. Len(queue') <= CacheSize
    BY <1>5, CacheSizeAssumption, LenProperties, SMT DEF IInv, Types, CacheSizeAssumption
<1>7. Types'
    BY <1>1, <1>5, <1>6 DEF IInv, Types
<1>8. Syncing'
    BY <1>1, <1>5, NoBufferAssumption DEF Syncing, NoBufferAssumption
<1>9. Phases'
    BY <1>1, <1>3 DEF Phases
<1> QED BY <1>5, <1>7, <1>8, <1>9 DEF IInv

LEMMA InvCloseDropped == ASSUME IInv, CloseDropped PROVE IInv'
<1>1. /\ pc = "closing" /\ dropping # NoBuffer /\ part = NumParts + 1
      /\ buf' = Dead(dropping) /\ dropping' = NoBuffer /\ part' = 1
      /\ UNCHANGED <<disk, queue, held, pc, req, mem>>
    BY DEF CloseDropped
<1>2. /\ buf' \in Bufs /\ LiveOf(buf') = Cached /\ Distinct(buf')
      /\ Clean(buf', disk, LiveOf(buf')) /\ Tells(buf', disk, mem)
    BY <1>1, Gone, Forgotten
<1>3. Types'
    BY <1>1, <1>2, NumPartsAssumption, SMT DEF IInv, Types, NumPartsAssumption
<1>4. QueueDistinct' /\ HeldIsCached' /\ Cached' = Cached
    BY <1>1 DEF IInv, QueueDistinct, HeldIsCached, Cached
<1>5. LiveIsCached' /\ Clean(buf', disk', LiveOf(buf') \ {dropping'})
    BY <1>1, <1>2, <1>4, NoBufferAssumption
       DEF LiveIsCached, LiveOf, Clean, NoBufferAssumption
<1>6. Syncing' /\ Phases'
    BY <1>1 DEF IInv, Syncing, Phases
<1> QED BY <1>1, <1>2, <1>3, <1>4, <1>5, <1>6 DEF IInv

LEMMA InvCrash == ASSUME IInv, Crash PROVE IInv'
<1> USE DEF Crash
<1>1. Types'
    <2>1. <<>> \in Seq(Buffers) /\ Len(<<>>) <= CacheSize
        BY EmptySeq, CacheSizeAssumption, SMT DEF CacheSizeAssumption
    <2>2. 1 \in 1 .. NumParts + 1
        BY NumPartsAssumption, SMT DEF NumPartsAssumption
    <2> QED BY <2>1, <2>2 DEF IInv, Types, Bufs
<1>2. LiveOf(buf') = {}
    BY DEF LiveOf
<1>3. DOMAIN queue' = {}
    OBVIOUS
<1>4. Cached' = {} /\ QueueDistinct'
    BY <1>3 DEF Cached, QueueDistinct
<1>5. LiveIsCached' /\ HeldIsCached'
    BY <1>2, <1>4 DEF LiveIsCached, HeldIsCached
<1>6. Distinct(buf') /\ Clean(buf', disk', LiveOf(buf') \ {dropping'}) /\ Tells(buf', disk', mem')
    BY <1>2 DEF Distinct, Clean, Tells
<1>7. Syncing' /\ Phases'
    BY DEF Syncing, Phases
<1> QED BY <1>1, <1>4, <1>5, <1>6, <1>7 DEF IInv

LEMMA InvNext == IInv /\ [Next]_vars => IInv'
<1> SUFFICES ASSUME IInv, [Next]_vars PROVE IInv'
    OBVIOUS
<1>1. ASSUME NEW h \in Handles, NEW b \in Blocks,
             GetHit(h, b) \/ GetMiss(h, b) \/ GetEvict(h, b) \/ GetPanic(h, b)
      PROVE  IInv'
    BY <1>1, InvGetHit, InvGetMiss, InvGetEvict, InvGetPanic
<1>2. CASE SyncPart \/ EndEvict \/ ReadFails \/ SyncFails
    BY <1>2, InvSyncPart, InvEndEvict, InvReadFails, InvSyncFails
<1>3. ASSUME NEW h \in Handles, NEW p \in Parts, NEW v \in Values, Modify(h, p, v)
      PROVE  IInv'
    BY <1>3, InvModify
<1>4. ASSUME NEW h \in Handles, Release(h) PROVE IInv'
    BY <1>4, InvRelease
<1>5. CASE Close \/ CloseNext \/ CloseDropped \/ Closed \/ Reopen \/ Crash
    BY <1>5, InvClose, InvCloseNext, InvCloseDropped, InvCrash
<1>6. CASE UNCHANGED vars
    <2> USE <1>6 DEF vars
    <2>1. Types' /\ QueueDistinct' /\ LiveIsCached' /\ HeldIsCached'
        BY DEF IInv, Types, QueueDistinct, LiveIsCached, HeldIsCached, Cached
    <2>2. Syncing' /\ Phases'
        BY DEF IInv, Syncing, Phases, Cached, Pinned
    <2> QED BY <2>1, <2>2 DEF IInv
<1> QED BY <1>1, <1>2, <1>3, <1>4, <1>5, <1>6 DEF Next

-----------------------------------------------------------------------------
(* The theorems.                                                           *)

\* What every reachable state of the cache satisfies: the live buffers are the
\* queue's and the one being dropped, each of a block of its own, and together
\* with the device they hold what callers last wrote (sector_cache.rs:84-147,
\* cluster_cache.rs:105-170).
THEOREM Invariance == Spec => []IInv
    BY InvInit, InvNext, PTL DEF Spec

\* Among the references is none to a dead buffer.
LEMMA LiveBuffers == ASSUME IInv PROVE Live = LiveOf(buf)
<1>1. \A h \in Handles : held[h] \in Cached \cup {NoBuffer}
    BY DEF IInv, HeldIsCached
<1>2. NoBuffer \notin Cached
    BY NoBufferAssumption DEF IInv, LiveIsCached, LiveOf, NoBufferAssumption
<1> QED BY <1>1, <1>2 DEF Live, IInv, LiveIsCached

\* Every variable of the cache stays in its type, and the buffers that are
\* referred to are those that have a state (sector_cache.rs:11-17, 106-110).
THEOREM TypeCorrect == Spec => []TypeOK
<1>1. IInv => TypeOK
    BY LiveBuffers DEF IInv, Types, Bufs, LiveOf, TypeOK
<1> QED BY <1>1, Invariance, PTL

\* No two live buffers stand for one block, whatever is evicted while it is
\* being asked for (sector_cache.rs:121-145).
THEOREM OneBufferEach == Spec => []OneBufferPerBlock
<1>1. IInv => OneBufferPerBlock
    BY LiveBuffers DEF IInv, Distinct, OneBufferPerBlock
<1> QED BY <1>1, Invariance, PTL

\* Eviction passes over every buffer a call still uses (sector_cache.rs:127-134).
THEOREM HandlesStayCached == Spec => []HeldIsCached
<1>1. IInv => HeldIsCached
    BY DEF IInv
<1> QED BY <1>1, Invariance, PTL

\* What is not marked modified is on the device, and the buffer being dropped is
\* out of everyone's reach (sector_cache.rs:84-94, 133-145).
THEOREM WritesBackWhatIsModified == Spec => []WriteBackInv
<1>1. IInv => WriteBackInv
    <2> SUFFICES ASSUME IInv PROVE WriteBackInv
        OBVIOUS
    <2>1. CleanIsOnDisk
        BY LiveBuffers DEF CleanIsOnDisk, IInv, Clean, Syncing
    <2>2. pc = "evict" => req # NoRequest
        <3>1. ASSUME NEW h \in Handles, NEW b \in Blocks PROVE <<h, b>> # <<>>
            OBVIOUS
        <3> QED BY <3>1 DEF IInv, Phases, NoRequest
    <2>3. dropping = NoBuffer => part = 1 /\ pc # "evict"
        BY DEF IInv, Syncing
    <2>4. dropping # NoBuffer => ~buf[dropping].modified /\ pc \in {"evict", "closing"}
        BY DEF IInv, Syncing
    <2> QED BY <2>1, <2>2, <2>3, <2>4, LiveBuffers
            DEF WriteBackInv, IInv, QueueDistinct, LiveIsCached, Phases
<1> QED BY <1>1, Invariance, PTL

\* No write of a caller is lost by a hit, a miss, an eviction or a shutdown, and
\* none comes back (sector_cache.rs:120-147, cluster_cache.rs:142-170).
THEOREM NothingIsLost == Spec => []NoLostWrite
<1>1. IInv => NoLostWrite
    <2> SUFFICES ASSUME IInv PROVE View = mem
        BY DEF NoLostWrite
    <2>1. ASSUME NEW b \in Blocks PROVE View[b] = mem[b]
        <3>1. CASE \E x \in LiveOf(buf) : buf[x].block = b
            <4> DEFINE y == CHOOSE x \in LiveOf(buf) : buf[x].block = b
            <4>1. y \in LiveOf(buf) /\ buf[y].block = b
                BY <3>1
            <4>2. View[b] = buf[y].data
                BY <3>1, LiveBuffers DEF View
            <4> HIDE DEF y
            <4> QED BY <4>1, <4>2 DEF IInv, Tells
        <3>2. CASE ~\E x \in LiveOf(buf) : buf[x].block = b
            <4>1. View[b] = disk[b]
                BY <3>2, LiveBuffers DEF View
            <4> QED BY <4>1, <3>2 DEF IInv, Tells
        <3> QED BY <3>1, <3>2
    <2>2. View = [b \in Blocks |-> View[b]]
        BY DEF View
    <2>3. mem = [b \in Blocks |-> mem[b]]
        BY DEF IInv, Types
    <2> HIDE DEF View
    <2> QED BY <2>1, <2>2, <2>3
<1> QED BY <1>1, Invariance, PTL

\* get_cache runs out of entries only when as many calls as there are entries
\* each keep one of their own (sector_cache.rs:127-137).
THEOREM RunsOutWhenAllInUse == Spec => []RunsOutOnlyWhenPinned
<1>1. IInv => RunsOutOnlyWhenPinned
    <2> SUFFICES ASSUME IInv, pc = "panicked"
                 PROVE  Cardinality({h \in Handles : held[h] # NoBuffer}) >= CacheSize
        BY DEF RunsOutOnlyWhenPinned
    <2> DEFINE users == {h \in Handles : held[h] # NoBuffer}
               user  == [i \in 1 .. CacheSize |-> CHOOSE h \in Handles : held[h] = queue[i]]
    <2>1. DOMAIN queue = 1 .. CacheSize /\ \A x \in Cached : Pinned(x)
        BY LenProperties DEF IInv, Types, Phases
    <2>2. ASSUME NEW i \in 1 .. CacheSize
          PROVE  user[i] \in users /\ held[user[i]] = queue[i]
        <3>1. queue[i] \in Cached
            BY <2>1 DEF Cached
        <3>2. \E h \in Handles : held[h] = queue[i]
            BY <2>1, <3>1 DEF Pinned
        <3>3. user[i] \in Handles /\ held[user[i]] = queue[i]
            BY <3>2
        <3>4. queue[i] # NoBuffer
            BY <3>1, NoBufferAssumption DEF IInv, LiveIsCached, LiveOf, NoBufferAssumption
        <3> HIDE DEF user
        <3> QED BY <3>3, <3>4
    <2>3. user \in Injection(1 .. CacheSize, users)
        <3>1. user = [i \in 1 .. CacheSize |-> user[i]]
            OBVIOUS
        <3> HIDE DEF user, users
        <3>2. user \in [1 .. CacheSize -> users]
            BY <2>2, <3>1
        <3>3. ASSUME NEW i \in 1 .. CacheSize, NEW j \in 1 .. CacheSize, user[i] = user[j]
              PROVE  i = j
            BY <2>1, <2>2, <3>3 DEF IInv, QueueDistinct
        <3> QED BY <3>2, <3>3 DEF Injection, IsInjective
    <2>4. IsFiniteSet(users)
        BY HandlesAssumption, FS_Subset DEF HandlesAssumption
    <2> HIDE DEF users, user
    <2>5. Cardinality(1 .. CacheSize) <= Cardinality(users)
        BY <2>3, <2>4, FS_Injection
    <2>6. Cardinality(1 .. CacheSize) = CacheSize
        BY CacheSizeAssumption, FS_Interval, SMT DEF CacheSizeAssumption
    <2>7. Cardinality(users) \in Nat
        BY <2>4, FS_CardinalityType
    <2> QED BY <2>5, <2>6, <2>7, CacheSizeAssumption, SMT DEF CacheSizeAssumption, users
<1> QED BY <1>1, Invariance, PTL

-----------------------------------------------------------------------------
(* The cache implements BlockStore.                                        *)

LEMMA StoreInit == Init => Store!Init
    BY DEF Init, Store!Init, Contents, Store!Contents

\* A step that is none of the store's leaves it as it is.
LEMMA StoreStep == ASSUME IInv, [Next]_vars PROVE [Store!Next]_Store!svars
<1> DEFINE open == pc # "closed"
<1>1. ASSUME NEW h \in Handles, NEW b \in Blocks,
             GetHit(h, b) \/ GetMiss(h, b) \/ GetEvict(h, b) \/ GetPanic(h, b)
      PROVE  UNCHANGED Store!svars
    BY <1>1 DEF GetHit, GetMiss, GetEvict, GetPanic, Store!svars
<1>2. CASE SyncPart
    <2> DEFINE k == buf[dropping].block
    <2>1. /\ dropping # NoBuffer /\ part <= NumParts
          /\ disk' = [disk EXCEPT ![k] = [disk[k] EXCEPT ![part] = buf[dropping].data[part]]]
          /\ UNCHANGED <<pc, mem>>
        BY <1>2 DEF SyncPart
    <2>2. dropping \in LiveOf(buf) /\ pc # "closed" /\ part \in Parts
        BY <2>1, SMT DEF IInv, LiveIsCached, Syncing, Types, Parts
    <2>3. k \in Blocks /\ mem[k] = buf[dropping].data
        BY <2>2, LiveHasState DEF IInv, Types, Tells
    <2> HIDE DEF k
    <2>4. Store!Persist(k, part)
        BY <2>1, <2>2, <2>3 DEF Store!Persist
    <2> QED BY <2>2, <2>3, <2>4 DEF Store!Next
<1>3. CASE EndEvict \/ ReadFails
    BY <1>3 DEF EndEvict, ReadFails, Store!svars
<1>4. CASE SyncFails
    <2> DEFINE k == buf[dropping].block
    <2>1. /\ dropping # NoBuffer /\ mem' = [mem EXCEPT ![k] = disk[k]]
          /\ UNCHANGED disk
        BY <1>4 DEF SyncFails
    <2>2. dropping \in LiveOf(buf) /\ pc # "closed" /\ pc' # "closed"
        BY <2>1, <1>4 DEF IInv, LiveIsCached, Syncing, SyncFails
    <2>3. k \in Blocks
        BY <2>2, LiveHasState DEF IInv, Types
    <2> HIDE DEF k
    <2>4. Store!Lose(k)
        BY <2>1, <2>2 DEF Store!Lose
    <2> QED BY <2>3, <2>4 DEF Store!Next
<1>5. ASSUME NEW h \in Handles, NEW p \in Parts, NEW v \in Values, Modify(h, p, v)
      PROVE  Store!Next
    <2> DEFINE k == buf[held[h]].block
    <2>1. /\ pc = "up" /\ held[h] # NoBuffer
          /\ mem' = [mem EXCEPT ![k] = [@ EXCEPT ![p] = v]]
          /\ UNCHANGED <<disk, pc>>
        BY <1>5 DEF Modify
    <2>2. k \in Blocks
        <3>1. held[h] \in LiveOf(buf)
            BY <2>1 DEF IInv, HeldIsCached, LiveIsCached
        <3> QED BY <3>1, LiveHasState DEF IInv, Types
    <2> HIDE DEF k
    <2>3. Store!Write(k, p, v)
        BY <2>1 DEF Store!Write
    <2> QED BY <2>2, <2>3 DEF Store!Next
<1>6. ASSUME NEW h \in Handles, Release(h) PROVE UNCHANGED Store!svars
    BY <1>6 DEF Release, Store!svars
<1>7. CASE Close \/ CloseNext \/ CloseDropped
    BY <1>7 DEF Close, CloseNext, CloseDropped, Store!svars
<1>8. CASE Closed
    <2>1. /\ pc = "closing" /\ dropping = NoBuffer /\ queue = <<>> /\ pc' = "closed"
          /\ UNCHANGED <<disk, mem>>
        BY <1>8 DEF Closed
    <2>2. LiveOf(buf) = {}
        <3>1. DOMAIN queue = {}
            BY <2>1
        <3> QED BY <2>1, <3>1, NoDrop DEF Cached
    <2>3. disk = mem
        <3>1. \A b \in Blocks : disk[b] = mem[b]
            BY <2>2 DEF IInv, Tells
        <3> QED BY <3>1 DEF IInv, Types
    <2> QED BY <2>1, <2>3 DEF Store!Shutdown, Store!Next
<1>9. CASE Reopen
    BY <1>9 DEF Reopen, Store!Open, Store!Next
<1>10. CASE Crash
    BY <1>10 DEF Crash, Store!Crash, Store!Next
<1>11. CASE UNCHANGED vars
    BY <1>11 DEF vars, Store!svars
<1> QED BY <1>1, <1>2, <1>3, <1>4, <1>5, <1>6, <1>7, <1>8, <1>9, <1>10, <1>11 DEF Next

\* The cache promises what BlockStore says: the device takes over, sector by
\* sector, only what callers last wrote, and a manager that has been dropped has
\* written everything back (sector_cache.rs:87-101, cluster_cache.rs:105-126).
THEOREM CacheImplementsStore == Spec => ImplementsStore
<1>1. IInv /\ [Next]_vars => [Store!Next]_Store!svars
    BY StoreStep
<1> QED BY <1>1, StoreInit, Invariance, PTL DEF Spec, ImplementsStore, Store!Spec
=============================================================================
