------------------------------- MODULE FileIO -------------------------------
(***************************************************************************)
(* Reading and writing a VFile: VFile::read_at, write_at, capacity and     *)
(* adjust_capacity (src/vfs.rs) over ShortDirectoryEntry::read_at and      *)
(* write_at (src/dir_entry.rs) and RunFileSystem::alloc_clusters           *)
(* (src/runfs.rs).                                                         *)
(*                                                                         *)
(* A call takes and drops the guards of fs, fat and data many times.  An   *)
(* action is what happens under one set of guards, so that the calls of    *)
(* several threads interleave where the code lets them.  Threads may have  *)
(* the same file open: the code does not keep them apart, and growth and   *)
(* writes of such a file may be lost, but those of other files may not.    *)
(*                                                                         *)
(* Below it stand the promises of the other modules: an allocator that     *)
(* links free clusters to the end of a chain (FAT, ClusterPool), walks     *)
(* that agree with the chain (FATWalk), and a cache with one current       *)
(* content per cluster (WriteBackCache, BlockStore).                       *)
(***************************************************************************)
EXTENDS Integers, Sequences, FiniteSets, SequencesExt

CONSTANTS
    Clusters,        \* data clusters
    FREE, END,       \* table entries that are not links
    ClusterSize,     \* bytes per cluster
    Bytes,           \* what a byte may be, 0 among them
    Files, Dirs,     \* files, and those of them that are directories
    Threads,         \* threads
    Assignments,     \* which file each thread may use: functions from Threads to Files
    Offsets,         \* offsets the callers ask for
    Writes,          \* buffers they write
    Lengths,         \* lengths they read
    UsizeMax,        \* the largest usize
    OverflowChecks,  \* TRUE in debug and test builds
    CountKnown       \* whether FSInfo holds the free-cluster count

ASSUME FilesAssumption == Dirs \subseteq Files /\ Assignments \subseteq [Threads -> Files]
ASSUME SizesAssumption ==
    /\ ClusterSize \in Nat \ {0}
    /\ Offsets \subseteq Nat /\ Lengths \subseteq Nat
    /\ UsizeMax \in Nat
ASSUME BytesAssumption == 0 \in Bytes /\ Writes \subseteq Seq(Bytes)
ASSUME FlagsAssumption == OverflowChecks \in BOOLEAN /\ CountKnown \in BOOLEAN
ASSUME EntriesAssumption == FREE \notin Clusters /\ END \notin Clusters /\ FREE # END
ASSUME VolumeAssumption == IsFiniteSet(Clusters)

VARIABLES
    next,      \* the table
    data,      \* bytes of each cluster, as the cache shows them
    first,     \* first_cluster of each directory entry
    fileOf,    \* the file each thread has open
    size,      \* size of each directory entry
    op,        \* by thread: the call it is in and its locals
    content    \* history: by file no threads share and position, the byte last written

vars == <<next, data, first, fileOf, size, op, content>>

Min2(a, b) == IF a <= b THEN a ELSE b
FreeClusters == {c \in Clusters : next[c] = FREE}
Linked(c) == next[c] \in Clusters

\* all_clusters, from the first cluster on; the other walks are its length and
\* its elements (FATWalk).
ChainFrom(table, start) ==
    LET walk[n \in 0 .. Cardinality(Clusters)] ==
            IF n = 0 THEN <<start>>
            ELSE LET seen == walk[n - 1] IN
                 IF table[Last(seen)] \in Clusters THEN Append(seen, table[Last(seen)]) ELSE seen
    IN  walk[Cardinality(Clusters)]

Chain(f) == ChainFrom(next, first[f])

\* capacity
Capacity(f) == ClusterSize * Len(Chain(f))

\* The locals of read_at, write_at and adjust_capacity.
Idle == [at |-> "idle"]
Call(fn, off, buf) ==
    [at |-> "begun", fn |-> fn, off |-> off, buf |-> buf, num |-> 0,
     last |-> END, size |-> 0, stop |-> 0, cur |-> END, done |-> 0]

\* Files more than one thread has open, and threads with a file of their own.
Shared(f) == \E t, u \in Threads : t # u /\ fileOf[t] = f /\ fileOf[u] = f
Alone     == {t \in Threads : ~Shared(fileOf[t])}

Waiting(t) == op[t].at = "idle"
At(t, fn, label) == op[t].at = label /\ op[t].fn \in fn
Pos(t)      == op[t].off + op[t].done

-----------------------------------------------------------------------------
Tables == {n \in [Clusters -> Clusters \cup {FREE, END}] :
              \A c \in Clusters : n[c] \in Clusters => n[n[c]] # FREE}

\* Every file has a chain of its own and nothing else is in use; clusters in
\* use hold zeros, and free ones what an earlier owner left.
Init ==
    /\ next \in Tables
    /\ first \in [Files -> Clusters]
    /\ \A f \in Files : IsInjective(Chain(f)) /\ next[Last(Chain(f))] = END
    /\ \A f, g \in Files : f # g => Range(Chain(f)) \cap Range(Chain(g)) = {}
    /\ \A c \in Clusters : next[c] # FREE => \E f \in Files : c \in Range(Chain(f))
    /\ \E stale \in Bytes \ {0} :
           data = [c \in Clusters |-> [i \in 0 .. ClusterSize - 1 |->
                                          IF next[c] = FREE THEN stale ELSE 0]]
    /\ size \in [Files -> 0 .. ClusterSize * Cardinality(Clusters)]
    /\ \A f \in Files : size[f] <= (IF f \in Dirs THEN 0 ELSE Capacity(f))
    /\ fileOf \in Assignments
    /\ op = [t \in Threads |-> Idle]
    /\ content = [f \in Files |-> [i \in 0 .. ClusterSize * Cardinality(Clusters) - 1 |-> 0]]

-----------------------------------------------------------------------------
(* adjust_capacity, the first half of write_at.                            *)

BeginWrite(t, off, buf) ==
    /\ Waiting(t)
    /\ op' = [op EXCEPT ![t] = Call("write_at", off, buf)]
    /\ UNCHANGED <<next, data, first, fileOf, size, content>>

\* The clusters adjust_capacity asks for, before the width of usize counts.
Wanted(need, capacity) == need + ClusterSize - capacity

\* Mutant: a signed subtraction.
ReadCapacitySigned(t) ==
    LET want == Wanted(op[t].off + Len(op[t].buf), Capacity(fileOf[t])) IN
    /\ At(t, {"write_at"}, "begun")
    /\ op' = [op EXCEPT ![t].at = "sized", ![t].num = want \div ClusterSize]
    /\ UNCHANGED <<next, data, first, fileOf, size, content>>

\* capacity(), and num from it: a panic in debug builds when it is negative.
ReadCapacity(t) ==
    LET want == Wanted(op[t].off + Len(op[t].buf), Capacity(fileOf[t])) IN
    /\ At(t, {"write_at"}, "begun")
    /\ op' = [op EXCEPT ![t] =
                 IF want < 0 /\ OverflowChecks THEN [@ EXCEPT !.at = "panicked"]
                 ELSE [@ EXCEPT !.at = "sized",
                                !.num = (want % (UsizeMax + 1)) \div ClusterSize]]
    /\ UNCHANGED <<next, data, first, fileOf, size, content>>

LastCluster(t) ==
    /\ At(t, {"write_at"}, "sized")
    /\ op' = [op EXCEPT ![t].at = "found", ![t].last = Last(Chain(fileOf[t]))]
    /\ UNCHANGED <<next, data, first, fileOf, size, content>>

\* RunFileSystem::alloc_clusters under fs.write(): nothing when num is 0, the
\* count is unknown or too small; else num clusters in a row after last, all
\* cleared.  adjust_capacity drops the result.
Refused(num) == ~CountKnown \/ num > Cardinality(FreeClusters)
Fits(num) == num > 0 /\ ~Refused(num)

\* Mutant: the first new cluster is not linked to the chain.
LinkedToNothing(last, new) ==
    [c \in Clusters |->
        IF c \in Range(new)
        THEN LET i == CHOOSE j \in DOMAIN new : new[j] = c IN
             IF i = Len(new) THEN END ELSE new[i + 1]
        ELSE next[c]]

\* new, a sequence of clusters, linked behind last.
LinkedBehind(last, new) ==
    [c \in Clusters |->
        IF c \in Range(new)
        THEN LET i == CHOOSE j \in DOMAIN new : new[j] = c IN
             IF i = Len(new) THEN END ELSE new[i + 1]
        ELSE IF c = last THEN new[1] ELSE next[c]]

\* Mutant: new clusters keep what an earlier owner left.
NotCleared(cs) == data

Cleared(cs) ==
    [c \in Clusters |-> IF c \in cs THEN [i \in 0 .. ClusterSize - 1 |-> 0] ELSE data[c]]

AllocClusters(t) ==
    /\ At(t, {"write_at"}, "found")
    /\ IF Fits(op[t].num)
       THEN \E new \in [1 .. op[t].num -> FreeClusters] :
                /\ IsInjective(new)
                /\ next' = LinkedBehind(op[t].last, new)
                /\ data' = Cleared(Range(new))
       ELSE UNCHANGED <<next, data>>
    /\ op' = [op EXCEPT ![t].at = "grown"]
    /\ UNCHANGED <<first, fileOf, size, content>>

-----------------------------------------------------------------------------
(* ShortDirectoryEntry::write_at and read_at, on a copy of the entry.      *)

BeginRead(t, off, len) ==
    /\ Waiting(t)
    /\ op' = [op EXCEPT ![t] =
                 [Call("read_at", off, [i \in 1 .. len |-> 0]) EXCEPT !.at = "grown"]]
    /\ UNCHANGED <<next, data, first, fileOf, size, content>>

CopyEntry(t) ==
    /\ At(t, {"write_at", "read_at"}, "grown")
    /\ op' = [op EXCEPT ![t].at = "copied", ![t].size = size[fileOf[t]]]
    /\ UNCHANGED <<next, data, first, fileOf, size, content>>

\* Mutant: a write to a file stops at its size, as a read does.
LimitedBySize(t) == IF fileOf[t] \in Dirs THEN Capacity(fileOf[t]) ELSE op[t].size

\* How far a call may go: a write and a directory to the end of the clusters,
\* a read of a file to its size.
Limit(t) == IF op[t].fn = "write_at" \/ fileOf[t] \in Dirs
            THEN Capacity(fileOf[t]) ELSE op[t].size

SetBounds(t) ==
    LET stop == Min2(op[t].off + Len(op[t].buf), Limit(t)) IN
    /\ At(t, {"write_at", "read_at"}, "copied")
    /\ op' = [op EXCEPT ![t].at = IF op[t].off >= stop THEN "done" ELSE "bounded",
                        ![t].stop = stop]
    /\ UNCHANGED <<next, data, first, fileOf, size, content>>

\* Mutant: the cluster index of the offset is ignored.
FindFirstCluster(t) ==
    /\ At(t, {"write_at", "read_at"}, "bounded")
    /\ op' = [op EXCEPT ![t].at = "copying", ![t].cur = first[fileOf[t]]]
    /\ UNCHANGED <<next, data, first, fileOf, size, content>>

\* pos and search_cluster
FindCluster(t) ==
    LET index == op[t].off \div ClusterSize
        chain == Chain(fileOf[t])
    IN
    /\ At(t, {"write_at", "read_at"}, "bounded")
    /\ op' = [op EXCEPT ![t] =
                 IF index < Len(chain) THEN [@ EXCEPT !.at = "copying", !.cur = chain[index + 1]]
                 ELSE [@ EXCEPT !.at = "done"]]
    /\ UNCHANGED <<next, data, first, fileOf, size, content>>

\* Where a call is after one more byte.
Advanced(o) ==
    LET pos == o.off + o.done + 1 IN
    [o EXCEPT !.done = @ + 1,
              !.at = IF pos = o.stop THEN "done"
                     ELSE IF pos % ClusterSize = 0 THEN "crossing" ELSE "copying"]

WriteByte(t) ==
    LET byte == op[t].buf[op[t].done + 1] IN
    /\ At(t, {"write_at"}, "copying")
    /\ data' = [data EXCEPT ![op[t].cur] = [@ EXCEPT ![Pos(t) % ClusterSize] = byte]]
    /\ content' = IF Shared(fileOf[t]) THEN content
                  ELSE [content EXCEPT ![fileOf[t]] = [@ EXCEPT ![Pos(t)] = byte]]
    /\ op' = [op EXCEPT ![t] = Advanced(@)]
    /\ UNCHANGED <<next, first, fileOf, size>>

ReadByte(t) ==
    /\ At(t, {"read_at"}, "copying")
    /\ op' = [op EXCEPT ![t] =
                 Advanced([@ EXCEPT !.buf[op[t].done + 1] =
                              data[op[t].cur][Pos(t) % ClusterSize]])]
    /\ UNCHANGED <<next, data, first, fileOf, size, content>>

\* next_cluster
NextCluster(t) ==
    /\ At(t, {"write_at", "read_at"}, "crossing")
    /\ op' = [op EXCEPT ![t] =
                 IF Linked(op[t].cur)
                 THEN [@ EXCEPT !.at = "copying", !.cur = next[op[t].cur]]
                 ELSE [@ EXCEPT !.at = "done"]]
    /\ UNCHANGED <<next, data, first, fileOf, size, content>>

\* Mutant: the size is set from the request, not from what was written.
FinishWriteAsked(t) ==
    /\ At(t, {"write_at"}, "done")
    /\ size' = IF fileOf[t] \in Dirs THEN size
               ELSE [size EXCEPT ![fileOf[t]] = op[t].off + Len(op[t].buf)]
    /\ op' = [op EXCEPT ![t] = Idle]
    /\ UNCHANGED <<next, data, first, fileOf, content>>

\* set_size(bytes written), for a file.
FinishWrite(t) ==
    /\ At(t, {"write_at"}, "done")
    /\ size' = IF fileOf[t] \in Dirs THEN size ELSE [size EXCEPT ![fileOf[t]] = op[t].done]
    /\ op' = [op EXCEPT ![t] = Idle]
    /\ UNCHANGED <<next, data, first, fileOf, content>>

FinishRead(t) ==
    /\ At(t, {"read_at"}, "done")
    /\ op' = [op EXCEPT ![t] = Idle]
    /\ UNCHANGED <<next, data, first, fileOf, size, content>>

Next == \E t \in Threads :
    \/ \E off \in Offsets, buf \in Writes : BeginWrite(t, off, buf)
    \/ ReadCapacity(t) \/ LastCluster(t) \/ AllocClusters(t)
    \/ \E off \in Offsets, len \in Lengths : BeginRead(t, off, len)
    \/ CopyEntry(t) \/ SetBounds(t) \/ FindCluster(t)
    \/ WriteByte(t) \/ ReadByte(t) \/ NextCluster(t)
    \/ FinishWrite(t) \/ FinishRead(t)

Spec == Init /\ [][Next]_vars

-----------------------------------------------------------------------------
(* Properties.                                                             *)

Labels == {"begun", "sized", "found", "grown", "copied", "bounded", "copying",
           "crossing", "done", "panicked"}

\* Every variable stays in its type (vfs.rs:88-95, dir_entry.rs:238-374).
TypeOK ==
    /\ next \in [Clusters -> Clusters \cup {FREE, END}]
    /\ data \in [Clusters -> [0 .. ClusterSize - 1 -> Bytes]]
    /\ first \in [Files -> Clusters] /\ fileOf \in Assignments
    /\ size \in [Files -> Nat]
    /\ \A t \in Threads :
           \/ op[t] = Idle
           \/ /\ op[t].at \in Labels /\ op[t].fn \in {"write_at", "read_at"}
              /\ op[t].off \in Nat /\ op[t].buf \in Seq(Bytes)
              /\ op[t].num \in 0 .. UsizeMax /\ op[t].size \in Nat
              /\ op[t].last \in Clusters \cup {END} /\ op[t].cur \in Clusters \cup {END}
              /\ op[t].done \in 0 .. Len(op[t].buf)

\* Files that grow at the same time get clusters of their own, and every chain
\* ends: the last cluster a thread read before it got fs.write() is still one
\* of its own file, also when another thread has grown the same file since
\* (vfs.rs:430-437).  No cluster is in use outside a file's chain, unless
\* threads share a file: then the second link takes the place of the first.
ChainsPrivate ==
    /\ \A f, g \in Files : f # g => Range(Chain(f)) \cap Range(Chain(g)) = {}
    /\ \A f \in Files : IsInjective(Chain(f)) /\ next[Last(Chain(f))] = END
    /\ (\A f \in Files : ~Shared(f)) =>
           \A c \in Clusters : next[c] # FREE => \E f \in Files : c \in Range(Chain(f))

\* Each position of a file that no two threads share holds the byte last written
\* to it, and zero where nothing was ever written, wherever its cluster is and
\* whatever the other threads do, to files they share as well: the arithmetic of pos and of the loop (dir_entry.rs:227-236,
\* 340-372) and the clearing of new clusters (runfs.rs:107-110).
HoldsWhatWasWritten ==
    \A f \in Files : ~Shared(f) => \A i \in 0 .. Capacity(f) - 1 :
        data[Chain(f)[i \div ClusterSize + 1]][i % ClusterSize] = content[f][i]

\* What read_at has put into the buffer is what was last written at those
\* positions, at every byte of its loop (dir_entry.rs:274-309).
ReadsLatest ==
    \A t \in Alone : op[t].at # "idle" /\ op[t].fn = "read_at" =>
        \A i \in 1 .. op[t].done : op[t].buf[i] = content[fileOf[t]][op[t].off + i - 1]

\* read_at returns all there is up to the size or, for a directory, the
\* capacity: the breaks for a missing cluster (dir_entry.rs:269, 306) are
\* never what ends it, because a size never exceeds its capacity.
ReadsToTheEnd ==
    /\ \A f \in Files : ~Shared(f) => size[f] <= Capacity(f)
    /\ \A t \in Alone : At(t, {"read_at"}, "done") =>
           LET o    == op[t]
               stop == Min2(o.off + Len(o.buf), Limit(t))
           IN  o.done = (IF o.off < stop THEN stop - o.off ELSE 0)

\* write_at writes less than it was given only when fewer clusters are free
\* than its adjust_capacity asked for, or their number is not known
\* (vfs.rs:424-439, dir_entry.rs:319-328).
ShortOnlyWhenFull ==
    \A t \in Alone : At(t, {"write_at"}, "done") /\ op[t].done < Len(op[t].buf) =>
        Refused(op[t].num) /\ Capacity(fileOf[t]) < op[t].off + Len(op[t].buf)

\* adjust_capacity returns (vfs.rs:421 "成功返回 Ok, 失败返回 GG"): it does not
\* panic on a capacity that is already there.
AdjustReturns == \A t \in Threads : op[t].at # "panicked"
=============================================================================
