----------------------------- MODULE Directory ------------------------------
(***************************************************************************)
(* One directory: VFile::create, delete, find_vfile_byname, ls and what    *)
(* they call (src/vfs.rs) on the entries of src/dir_entry.rs.              *)
(*                                                                         *)
(* An action is a whole call: one thread uses the directory at a time.     *)
(* Positions count entries, from 1.  On disk a name is its pieces, the     *)
(* last one first, and its short name (Names).  Files have one cluster     *)
(* (FileIO is about longer ones); the build is one without overflow checks *)
(* (with them see AdjustReturns of FileIO).  A caller keeps one VFile per  *)
(* name and drops it when it deletes the file.                             *)
(***************************************************************************)
EXTENDS Names, FiniteSets

CONSTANTS
    Names,            \* what callers ask for
    Kinds,            \* <<name, kind>> pairs that callers create
    Clusters,         \* clusters for the directory and its files
    SlotsPerCluster,  \* cluster_size / DIRENT_SZ
    CountDrift,       \* how far the free count of FSInfo may be from the truth
    U32Max,           \* the largest value of that count
    NONE, MANGLED,    \* no result; a piece that was overwritten
    CLEAR, OLD,       \* what a cluster may hold, besides what its owner wrote:
    DOTS, ENTRIES     \* zeros, something old, . and .., this directory

ASSUME NamesAssumption ==
    /\ Names \subseteq Seq(STRING) \ {<<>>}
    /\ Kinds \subseteq Names \X {"file", "dir"}
\* delete counts the bytes of one entry for the pieces of a name (LongDeleted):
\* longer names than these the code takes, but they are not here.
DIRENT_SZ == 32
ASSUME PiecesAssumption == \A n \in Names : NumPieces(n) <= DIRENT_SZ
ASSUME ClustersAssumption == IsFiniteSet(Clusters)
ASSUME CountAssumption == U32Max \in Nat /\ CountDrift \subseteq Int
\* Room for . and .. in the first cluster; the smallest real value is 16.
ASSUME SlotsAssumption == SlotsPerCluster \in Nat /\ SlotsPerCluster > 2

VARIABLES
    slots,      \* the entries of the directory
    free,       \* free clusters
    count,      \* how many there are, as FSInfo says; NONE if it does not
    content,    \* by cluster: what it holds
    held,       \* by name: the VFile a caller has, or NONE
    ret,        \* kind and first cluster of what the last call returned
    panicked    \* whether a call panicked

vars == <<slots, free, count, content, held, ret, panicked>>

-----------------------------------------------------------------------------
(* Names and entries.                                                      *)

DotDot == <<Dot, Dot>>

\* By name: its pieces as they lie on disk, and its short name.
Pieces  == [n \in Names \cup {DotDot} |-> Reverse(LongNameSplit(n))]
ShortOf == [n \in Names |-> GenerateShortName(n)]

Empty == [type |-> "empty", del |-> FALSE]
Long(text, order, last, sum) ==
    [type |-> "long", del |-> FALSE, text |-> text, order |-> order,
     last |-> last, sum |-> sum]
Short(name, kind, first) ==
    [type |-> "short", del |-> FALSE, name |-> name, kind |-> kind, first |-> first]

IsFree(e) == e.type = "empty" \/ e.del
IsLong(e) == e.type = "long"
IsLast(e) == IsLong(e) /\ e.last

\* checksum: of the short name; other bytes read as a short entry differ.
Checksum(e) == IF e.type = "short" THEN e.name ELSE NONE

\* What create writes: the long entries, then the short one.
Entries(n, kind, first) ==
    LET num == Len(Pieces[n]) IN
    [i \in 1 .. num |-> Long(Pieces[n][i], num + 1 - i, i = 1, ShortOf[n])]
        \o <<Short(ShortOf[n], kind, first)>>

\* What create puts into a new directory for . and ..
Dots == <<Short(GenerateShortName(<<Dot>>), "dir", NONE),
          Short(GenerateShortName(DotDot), "dir", NONE)>>

\* The same as other systems make them.
ForeignDots == <<Short([base |-> <<Dot>>, ext |-> <<>>], "dir", NONE),
                 Short([base |-> DotDot, ext |-> <<>>], "dir", NONE)>>

Least(S) == CHOOSE x \in S : \A y \in S : x <= y

-----------------------------------------------------------------------------
(* Searching.                                                              *)

\* Mutant: neither is_last nor the order is looked at.
StartsAnywhere(n, o, d) ==
    ~IsFree(d[o]) /\ IsLong(d[o]) /\ d[o].text = Pieces[n][1]

\* Mutant: the order is compared with the number of all entries.
StartsAfterOrder(n, o, d) ==
    /\ ~IsFree(d[o]) /\ IsLast(d[o])
    /\ d[o].text = Pieces[n][1] /\ d[o].order = Len(Pieces[n]) + 1

\* The first long entry of name n is at o.
StartsAt(n, o, d) ==
    /\ ~IsFree(d[o]) /\ IsLast(d[o])
    /\ d[o].text = Pieces[n][1] /\ d[o].order = Len(Pieces[n])

\* The search of find_long_name ends at the first o where the name starts and
\* no further piece differs; a deleted entry still counts as a piece.
SearchEndsAt(n, o, d) ==
    /\ StartsAt(n, o, d)
    /\ \A i \in 2 .. Len(Pieces[n]) :
           o + i - 1 <= Len(d) =>
               IsLong(d[o + i - 1]) /\ d[o + i - 1].text = Pieces[n][i]

\* A VFile: the position of its short entry, and of its long entries as the
\* code computes it: `num` bytes, not entries, from the first one on.
VFile(short, long, num) == [short |-> short, long |-> long, num |-> num]

FindLongName(n, d) ==
    LET ends == {o \in DOMAIN d : SearchEndsAt(n, o, d)}
        o    == Least(ends)
        s    == o + Len(Pieces[n])
    IN  IF ends # {} /\ s <= Len(d) /\ ~IsFree(d[s]) /\ Checksum(d[s]) = d[o].sum
        THEN VFile(s, o, Len(Pieces[n])) ELSE NONE

\* find_short_name gives up at the first free entry.
FindShortName(n, d) ==
    LET ends == {o \in DOMAIN d : IsFree(d[o]) \/ (d[o].type = "short" /\ ShortName(d[o].name) = n)}
    IN  IF ends # {} /\ ~IsFree(d[Least(ends)]) THEN VFile(Least(ends), 0, 0) ELSE NONE

FindByName(n, d) ==
    IF FindLongName(n, d) # NONE THEN FindLongName(n, d) ELSE FindShortName(n, d)

\* Mutant: nothing exists already.
NothingExists(n, kind, d) == FALSE

IsAlreadyExist(n, kind, d) ==
    FindByName(n, d) # NONE /\ d[FindByName(n, d).short].kind = kind

-----------------------------------------------------------------------------
(* Space for entries.                                                      *)

\* Mutant: one entry less than needed.
FirstFitSmaller(num, d) ==
    Least({o \in 1 .. Len(d) + 1 :
              \A i \in o .. o + num - 2 : i <= Len(d) => IsFree(d[i])})

\* find_free_dirents: the first place where num entries are free, counting
\* what is behind the end, which it tries to add.
FirstFit(num, d) ==
    Least({o \in 1 .. Len(d) + 1 :
              \A i \in o .. o + num - 1 : i <= Len(d) => IsFree(d[i])})

\* The count of FSInfo after an allocation, and after one cluster was given back.
OneLess(n) == IF n = NONE THEN NONE ELSE IF n = 0 THEN U32Max ELSE n - 1
OneMore(n) == IF n = NONE THEN NONE ELSE IF n = U32Max THEN 0 ELSE n + 1

\* The same after num allocations that FSInfo did not refuse.
Fewer(n, num) == IF n = NONE THEN NONE ELSE n - num

\* Clusters adjust_capacity(size) adds when avail are free and FSInfo says there
\* are known: none if that is not enough, else as many as there are.  A negative
\* number is a huge usize.
Added(size, capacity, avail, known) ==
    LET num == (size + SlotsPerCluster - capacity) \div SlotsPerCluster
    IN  IF known = NONE \/ num \notin 1 .. known THEN 0
        ELSE IF num <= avail THEN num ELSE avail

Extended(d, num) == d \o [i \in 1 .. num * SlotsPerCluster |-> Empty]

\* Mutant: a write past the end appends.
PutPastEnd(d, o, e) == IF o <= Len(d) THEN [d EXCEPT ![o] = e] ELSE Append(d, e)

Put(d, o, e) == IF o <= Len(d) THEN [d EXCEPT ![o] = e] ELSE d

\* write_at of one entry, in st: the entries, the place, the number of free
\* clusters and the one FSInfo has; ok is what assert_eq saw.
WriteEntry(st, e) ==
    IF ~st.ok THEN st
    ELSE LET num == Added(st.at, Len(st.d), st.avail, st.known)
             d   == Extended(st.d, num)
         IN  [d |-> Put(d, st.at, e), at |-> st.at + 1, avail |-> st.avail - num,
              known |-> Fewer(st.known, num), ok |-> st.at <= Len(d)]

WriteEntries(st, entries) == FoldLeft(WriteEntry, st, entries)

-----------------------------------------------------------------------------
(* Calls.                                                                  *)

\* Mutant: a new cluster is not cleared.
AllocatedDirty(c) == content

\* RunFileSystem::alloc_cluster clears what it returns.
Allocated(c) == [content EXCEPT ![c] = CLEAR]

Found(v, d) == [kind |-> d[v.short].kind, first |-> d[v.short].first]

\* A new directory gets its . and .. through the VFile the search returned.
WithDots(v, kind, d, data) ==
    IF kind = "dir" THEN [data EXCEPT ![d[v.short].first] = DOTS] ELSE data

CreateExisting(n, kind) ==
    /\ ~panicked /\ IsAlreadyExist(n, kind, slots)
    /\ ret' = NONE
    /\ UNCHANGED <<slots, free, count, content, held, panicked>>

\* create, when the name is new: find a place, allocate a cluster, write the
\* entries, search for the file.  Each step that fails panics.
CreateNew(n, kind) ==
    LET num   == Len(Pieces[n]) + 1
        at    == FirstFit(num, slots)
        grown == IF at + num - 1 <= Len(slots) THEN 0
                 ELSE Added(Len(slots) + num, Len(slots), Cardinality(free), count)
        left  == Cardinality(free) - grown
        known == Fewer(count, grown)
        begun == [d |-> Extended(slots, grown), at |-> at, avail |-> left - 1,
                  known |-> OneLess(known), ok |-> TRUE]
    IN
    /\ ~panicked /\ ~IsAlreadyExist(n, kind, slots)
    /\ IF left = 0
       THEN /\ slots' = begun.d /\ free' = {} /\ count' = known /\ panicked' = TRUE
            /\ content' = [c \in Clusters |-> IF c \in free THEN ENTRIES ELSE content[c]]
            /\ UNCHANGED <<held, ret>>
       ELSE \E c \in free :
            LET st == WriteEntries(begun, Entries(n, kind, c))
                v  == FindByName(n, st.d)
                ok == st.ok /\ v # NONE
            IN
            \E own \in SUBSET (free \ {c}) :
                LET data == [x \in Clusters |-> IF x \in own THEN ENTRIES ELSE Allocated(c)[x]]
                IN
                /\ Cardinality(own) = Cardinality(free) - 1 - st.avail
                /\ free' = free \ ({c} \cup own)
                /\ count' = st.known
                /\ slots' = st.d
                /\ content' = IF ok THEN WithDots(v, kind, st.d, data) ELSE data
                /\ IF ok THEN held' = [held EXCEPT ![n] = v] /\ ret' = Found(v, st.d)
                         ELSE UNCHANGED <<held, ret>>
                /\ panicked' = ~ok

\* find_vfile_byname, by a caller that keeps the VFile.
Open(n) ==
    LET v == FindByName(n, slots) IN
    /\ ~panicked
    /\ held' = [held EXCEPT ![n] = v]
    /\ ret' = IF v = NONE THEN NONE ELSE Found(v, slots)
    /\ UNCHANGED <<slots, free, count, content, panicked>>

\* A caller writes to the file it holds.
WriteFile(n) ==
    /\ ~panicked /\ held[n] # NONE
    /\ Found(held[n], slots).kind = "file"
    /\ content' = [content EXCEPT ![Found(held[n], slots).first] = n]
    /\ UNCHANGED <<slots, free, count, held, ret, panicked>>

\* get_mut fails its assertion for the second long entry: at its position, one
\* byte behind that of the first one, no entry fits into the cluster.
RunsOver(v) == v.num > 1 /\ v.long % SlotsPerCluster = 0

\* The set_deleted calls of delete for the long entries: each changes a byte
\* of the first one, its order and then letters of its piece, or panics.
LongDeleted(v, d) ==
    LET e == d[v.long] IN
    IF v.num = 0 THEN d
    ELSE [d EXCEPT ![v.long] =
             [e EXCEPT !.del = TRUE,
                       !.text = IF v.num > 1 /\ ~RunsOver(v) THEN MANGLED ELSE e.text]]

ShortDeleted(v, d) == [d EXCEPT ![v.short] = [@ EXCEPT !.del = TRUE]]

Delete(n) ==
    LET v     == held[n]
        first == Found(v, slots).first
    IN
    /\ ~panicked /\ v # NONE
    /\ IF RunsOver(v)
       THEN /\ slots' = LongDeleted(v, slots)
            /\ panicked' = TRUE
            /\ UNCHANGED <<free, count, held, ret>>
       ELSE /\ slots' = ShortDeleted(v, LongDeleted(v, slots))
            /\ free' = free \cup {first}
            /\ count' = IF first \in free THEN count ELSE OneMore(count)
            /\ held' = [held EXCEPT ![n] = NONE]
            /\ ret' = NONE
            /\ UNCHANGED panicked
    /\ UNCHANGED content

-----------------------------------------------------------------------------
\* The root directory, or one with its . and .., and no other entry.  FSInfo
\* is as the mount found it: nothing counts the free clusters again.
Init ==
    /\ \E dots \in {<<>>, Dots, ForeignDots} :
           slots = dots \o [i \in 1 .. SlotsPerCluster - Len(dots) |-> Empty]
    /\ \E own \in Clusters :
           /\ free = Clusters \ {own}
           /\ content = [c \in Clusters |-> IF c = own THEN ENTRIES ELSE OLD]
    /\ count \in {NONE} \cup ({Cardinality(free) + k : k \in CountDrift} \cap 0 .. U32Max)
    /\ held = [n \in Names |-> NONE]
    /\ ret = NONE
    /\ panicked = FALSE

Next ==
    \/ \E k \in Kinds : CreateExisting(k[1], k[2])
    \/ \E k \in Kinds : CreateNew(k[1], k[2])
    \/ \E n \in Names : Open(n) \/ WriteFile(n) \/ Delete(n)

Spec == Init /\ [][Next]_vars

-----------------------------------------------------------------------------
(* ls and dirent_info.                                                     *)

\* dirent_info returns an entry for o: k long ones and a short one, all live.
\* The orders and the checksum are not looked at.
HasInfo(o) ==
    LET k == slots[o].order IN
    /\ ~IsFree(slots[o]) /\ IsLast(slots[o]) /\ o + k <= Len(slots)
    /\ \A i \in o + 1 .. o + k - 1 : IsLong(slots[i]) /\ ~slots[i].del
    /\ slots[o + k].type = "short" /\ ~slots[o + k].del

Info(o) ==
    LET k == slots[o].order IN
    [name |-> Joined([i \in 1 .. k |-> slots[o + i - 1].text]), at |-> o + k,
     file |-> [kind |-> slots[o + k].kind, first |-> slots[o + k].first]]

\* ls
Ls ==
    LET from[o \in 1 .. Len(slots) + 1] ==
            IF o > Len(slots) THEN <<>>
            ELSE IF HasInfo(o) THEN <<Info(o)>> \o from[Info(o).at + 1]
            ELSE from[o + 1]
    IN  from[1]

\* By name: what ls returns for it, or NONE.
Listing ==
    LET ls == Ls
        items(n) == {i \in DOMAIN ls : ls[i].name = n}
    IN  [n \in Names |-> IF items(n) = {} THEN NONE ELSE ls[Least(items(n))]]

\* NONE is no VFile, no file and no entry of ls.
File == [kind : {"file", "dir"}, first : Clusters]
ASSUME NoneAssumption ==
    /\ NONE \notin Clusters \cup File \cup Nat
    /\ NONE \notin [short : Nat, long : Nat, num : Nat]
    /\ NONE \notin [name : Names, at : Nat, file : File]

-----------------------------------------------------------------------------
(* Properties.                                                             *)

\* What these properties rest on: no name is the short name of another one, or
\* one of . and .., and nobody asks for one name in two kinds.  The code checks
\* neither; the runs dir_short and dir_twice show what happens without.
NamesApart ==
    /\ \A n \in Names : \A i \in 1 .. Len(n) : n[i] # Nul
    /\ <<Dot>> \notin Names /\ DotDot \notin Names
    /\ \A m \in Names \cup {<<Dot>>, DotDot} : \A n \in Names :
           m # n => ShortName(GenerateShortName(m)) # n
    /\ \A k, l \in Kinds : k[1] = l[1] => k = l

Contents == {CLEAR, DOTS, ENTRIES, OLD} \cup Names

\* Every variable stays in its type, and the directory has whole clusters
\* (vfs.rs:88-95, dir_entry.rs:47-61, 382-391).
TypeOK ==
    /\ Len(slots) % SlotsPerCluster = 0
    /\ \A i \in DOMAIN slots :
           /\ slots[i].type \in {"empty", "long", "short"} /\ slots[i].del \in BOOLEAN
           /\ slots[i].type = "short" => slots[i].kind \in {"file", "dir"}
    /\ free \subseteq Clusters
    /\ count \in {NONE} \cup 0 .. U32Max
    /\ content \in [Clusters -> Contents]
    /\ \A n \in Names : held[n] # NONE => held[n].short \in DOMAIN slots
    /\ ret = NONE \/ ret \in File
    /\ panicked \in BOOLEAN

\* The two ways to look at a directory agree: find_vfile_byname finds a name
\* exactly when ls lists it, and the same file, whatever was created and
\* deleted before and whatever long entries delete left behind
\* (vfs.rs:206-293, 637-715); and it finds the entry .. of another system by
\* its short name (vfs.rs:341).  One made by create has a blank name.
FindsWhatIsListed ==
    LET listing == Listing IN
    /\ \A n \in Names :
           LET v == FindByName(n, slots) IN
           IF listing[n] = NONE THEN v = NONE ELSE v # NONE /\ v.short = listing[n].at
    /\ (\A i \in 1 .. 2 : slots[i] = ForeignDots[i])
           => FindByName(DotDot, slots) = VFile(2, 0, 0)

\* No name is listed twice and nothing is listed that nobody created: create
\* returns None for a name that exists (vfs.rs:503), and places of entries do
\* not overlap (vfs.rs:441-491).
ListedOnce ==
    LET ls == Ls IN
    /\ \A i, j \in DOMAIN ls : ls[i].name = ls[j].name => i = j
    /\ \A i \in DOMAIN ls : ls[i].name \in Names

\* The delete of VFile v panicked when it had marked the first long entry: ls
\* and the searches do not see the file any more, and its cluster is not free.
HalfDeleted(v) == panicked /\ v # NONE /\ RunsOver(v) /\ slots[v.long].del

\* A VFile stays good while other files come and go: its short entry is that
\* of the file listed under its name, unless its own delete panicked (vfs.rs:90-92).
HeldStaysGood ==
    LET listing == Listing IN
    \A n \in Names : held[n] # NONE =>
        \/ HalfDeleted(held[n])
        \/ listing[n] # NONE /\ held[n].short = listing[n].at

\* Every file has a cluster to itself, which holds what its owner put there:
\* nothing in a new file, . and .. in a directory, never another file's or
\* the directory's bytes (vfs.rs:527, 574-575, 612-633, runfs.rs:93-99).
FilesKeepTheirOwn ==
    LET listing == Listing IN
    \A n \in Names : listing[n] # NONE =>
        LET file == listing[n].file IN
        /\ file.first \notin free
        /\ content[file.first] \in (IF file.kind = "dir" THEN {DOTS} ELSE {CLEAR, n})

\* What may panic: a create when the volume has no free cluster left, or FSInfo
\* says so or says nothing, never because the search at its end misses the file
\* (vfs.rs:527, 539-552); and a delete that stops half-way.
PanicsOnlyWhenFull ==
    panicked =>
        \/ free = {} \/ count \in {NONE, 0}
        \/ \E n \in Names : HalfDeleted(held[n])

\* set_deleted is asked for entries of the directory, which lie in a cluster
\* (vfs.rs:267, cluster_cache.rs:84-89).
DeleteStaysInCluster == \A n \in Names : ~HalfDeleted(held[n])

ListedFiles ==
    LET listing == Listing IN
    [n \in Names |-> IF listing[n] = NONE THEN NONE ELSE listing[n].file]
Map == INSTANCE NameSpace WITH map <- ListedFiles

\* Seen through ls, the directory is a map from names to files that create and
\* delete change as NameSpace says, each only at its own name, also when
\* entries are reused or left behind (vfs.rs:500-634).
ImplementsNameSpace == Map!Spec
=============================================================================
