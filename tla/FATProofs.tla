----------------------------- MODULE FATProofs -----------------------------
(***************************************************************************)
(* Proofs about FAT, for every number of clusters, every well-formed table *)
(* and every FSInfo sector whose hint is one validate_and_fix means to     *)
(* accept (EndCluster is the one it lets pass by mistake).                 *)
(*                                                                         *)
(* The argument: IInv adds to the properties what the locals of the two    *)
(* loops mean.  A cluster the search returns is free (HintIsFree), so no   *)
(* entry leads to it and linking it at an End keeps chains apart; a        *)
(* cluster that is freed is either unlinked or linked only by the prev     *)
(* that is set to End in the same step.                                    *)
(***************************************************************************)
EXTENDS FAT, TLAPS, WellFoundedInduction, FiniteSetTheorems

\* A nonempty set of naturals contains its minimum.
LEMMA MinIsMember == ASSUME NEW S \in SUBSET Nat, S # {} PROVE Min(S) \in S
<1> DEFINE R == {p \in Nat \X Nat : p[1] < p[2]}
<1>1. IsWellFoundedOn(R, Nat)
  <2>1. OpToRel(<, Nat) = R
    BY DEF OpToRel
  <2> QED BY <2>1, NatLessThanWellFounded
<1>2. PICK x \in S : \A y \in S : <<y, x>> \notin R
  <2> HIDE DEF R
  <2> QED BY <1>1, WFMin
<1>3. ASSUME NEW y \in S PROVE x <= y
  <2>1. <<y, x>> \in Nat \X Nat
    OBVIOUS
  <2>2. <<y, x>>[1] = y /\ <<y, x>>[2] = x
    OBVIOUS
  <2>3. ~(y < x)
    BY <1>2, <2>1, <2>2
  <2> QED BY <2>3
<1> QED BY <1>3 DEF Min

\* What the tables of Init and of every reachable state have in common.
TableOK(f) ==
    /\ f \in [EntryIds -> FATEntries]
    /\ f[0] = END /\ f[1] = END
    /\ NoDangling(f) /\ NoCrossLink(f) /\ Acyclic(f)

\* The special entries are no cluster ids, and differ.
LEMMA Entries ==
  /\ BAD \in Nat /\ END \in Nat /\ BAD # END
  /\ \A c \in EntryIds : c # BAD /\ c # END
  /\ \A c \in DataClusters : c \notin {FREE, BAD, END, NONE}
  /\ FREE \notin {BAD, END} /\ NONE \notin {BAD, END}
  BY TotalClustersAssumption, SMT
     DEF BAD, END, FREE, NONE, EntryIds, DataClusters, EndCluster, START_CLUS_ID

USE DEF START_CLUS_ID, FREE, NONE

-----------------------------------------------------------------------------
(* The search.                                                             *)

\* A scan returns a free cluster of its range, or None when it has none.
LEMMA FirstFreeFinds ==
  ASSUME NEW f, NEW from \in Nat, NEW to \in Int
  PROVE  \/ /\ FirstFree(f, from, to) = NONE
            /\ \A c \in from .. to : f[c] # FREE
         \/ /\ FirstFree(f, from, to) \in from .. to
            /\ f[FirstFree(f, from, to)] = FREE
<1> DEFINE free == {c \in from .. to : f[c] = FREE}
<1>1. CASE free = {}
  BY <1>1 DEF FirstFree
<1>2. CASE free # {}
  <2>1. free \in SUBSET Nat
    OBVIOUS
  <2>2. Min(free) \in free
    <3> HIDE DEF free
    <3> QED BY <1>2, <2>1, MinIsMember
  <2>3. FirstFree(f, from, to) = Min(free)
    BY <1>2 DEF FirstFree
  <2> QED BY <2>2, <2>3
<1> QED BY <1>1, <1>2

\* search_free_cluster returns a free data cluster, or None when there is
\* none, provided a hint it trusts is free.
LEMMA SearchFinds ==
  ASSUME NEW f, f[0] # FREE, f[1] # FREE,
         NEW hint \in Int, NEW start \in 0 .. EndCluster - 1,
         hint > start => hint \in DataClusters /\ f[hint] = FREE
  PROVE  LET r == SearchFreeCluster(f, hint, start) IN
         /\ r \in {NONE} \cup DataClusters
         /\ r # NONE => f[r] = FREE
         /\ r = NONE => FreeClusters(f) = {}
<1> USE TotalClustersAssumption DEF EndCluster, DataClusters
<1> DEFINE r  == SearchFreeCluster(f, hint, start)
           up == FirstFree(f, start, EndCluster - 1)
           lo == FirstFree(f, START_CLUS_ID, start - 1)
<1>1. CASE hint > start
  BY <1>1 DEF SearchFreeCluster
<1>2. CASE ~(hint > start) /\ up # NONE
  <2>1. r = up
    BY <1>2 DEF SearchFreeCluster
  <2>2. up \in start .. EndCluster - 1 /\ f[up] = FREE
    BY <1>2, FirstFreeFinds
  <2>3. up # 0 /\ up # 1
    BY <2>2
  <2> HIDE DEF r, up
  <2> QED BY <2>1, <2>2, <2>3, <1>2 DEF r
<1>3. CASE ~(hint > start) /\ up = NONE
  <2>1. r = lo
    BY <1>3 DEF SearchFreeCluster
  <2>2. \A c \in start .. EndCluster - 1 : f[c] # FREE
    <3>1. NONE \notin start .. EndCluster - 1
      OBVIOUS
    <3> QED BY <1>3, <3>1, FirstFreeFinds
  <2>3. \/ lo = NONE /\ \A c \in START_CLUS_ID .. start - 1 : f[c] # FREE
        \/ lo \in START_CLUS_ID .. start - 1 /\ f[lo] = FREE
    BY FirstFreeFinds
  <2> HIDE DEF r, lo
  <2>4. CASE lo = NONE
    <3>1. \A c \in START_CLUS_ID .. start - 1 : f[c] # FREE
      BY <2>3, <2>4
    <3>2. FreeClusters(f) = {}
      BY <2>2, <3>1 DEF FreeClusters
    <3> QED BY <2>1, <2>4, <3>2 DEF r
  <2>5. CASE lo # NONE
    <3>1. lo \in START_CLUS_ID .. start - 1 /\ f[lo] = FREE
      BY <2>3, <2>5
    <3> QED BY <2>1, <2>5, <3>1 DEF r
  <2> QED BY <2>4, <2>5
<1> QED BY <1>1, <1>2, <1>3

-----------------------------------------------------------------------------
(* The two ways the calls change the table.                                *)

\* Linking a free cluster at the end of a chain, or as a chain of its own.
LEMMA LinkNewKeeps ==
  ASSUME NEW f, TableOK(f), NEW id \in DataClusters, f[id] = FREE,
         NEW p \in {NONE} \cup Tails(f)
  PROVE  LET g == LinkNew(f, id, p) IN
         /\ TableOK(g)
         /\ ~IsLinked(f, id)
         /\ \A c \in DataClusters :
               /\ IsUsed(g, c) <=> IsUsed(f, c) \/ c = id
               /\ IsLinked(g, c) <=> IsLinked(f, c) \/ (c = id /\ p # NONE)
         /\ FreeClusters(g) = FreeClusters(f) \ {id}
         /\ g[id] = END
<1> DEFINE g == LinkNew(f, id, p)
<1>1. /\ f \in [EntryIds -> FATEntries] /\ id \in EntryIds /\ id # 0 /\ id # 1
      /\ p # NONE => p \in DataClusters /\ p \in EntryIds /\ f[p] = END /\ p # id
      /\ DataClusters \subseteq EntryIds /\ NONE \notin DataClusters
      /\ FREE \notin DataClusters /\ BAD \notin DataClusters /\ END \notin DataClusters
      /\ FREE # END /\ FREE # BAD /\ BAD # END
  BY Entries, TotalClustersAssumption
     DEF TableOK, Tails, DataClusters, EntryIds, EndCluster
<1>2. /\ DOMAIN g = EntryIds
      /\ \A c \in EntryIds : g[c] = IF c = p THEN id ELSE IF c = id THEN END ELSE f[c]
  <2>1. CASE p = NONE
    <3>1. g = [f EXCEPT ![id] = END]
      BY <2>1 DEF LinkNew
    <3>2. NONE \notin EntryIds
      BY DEF EntryIds
    <3> QED BY <1>1, <2>1, <3>1, <3>2
  <2>2. CASE p # NONE
    <3>1. g = [f EXCEPT ![id] = END, ![p] = id]
      BY <2>2 DEF LinkNew
    <3> HIDE DEF g
    <3> QED BY <1>1, <2>2, <3>1
  <2> QED BY <2>1, <2>2
<1>3. g \in [EntryIds -> FATEntries]
  <2>1. \A c \in EntryIds : g[c] \in FATEntries
    BY <1>1, <1>2 DEF FATEntries
  <2>2. g = [c \in EntryIds |-> g[c]]
    BY <1>1 DEF LinkNew
  <2> QED BY <2>1, <2>2
<1>4. g[0] = END /\ g[1] = END
  BY <1>1, <1>2, TotalClustersAssumption DEF TableOK, EntryIds, EndCluster, DataClusters
<1>5. ~IsLinked(f, id)
  BY <1>1 DEF TableOK, NoDangling, IsLinked, IsNext, IsUsed
<1>6. \A c \in DataClusters : IsUsed(g, c) <=> IsUsed(f, c) \/ c = id
  BY <1>1, <1>2 DEF IsUsed
<1>7. \A c \in DataClusters :
         IsLinked(g, c) <=> IsLinked(f, c) \/ (c = id /\ p # NONE)
  <2> SUFFICES ASSUME NEW c \in DataClusters
               PROVE  IsLinked(g, c) <=> IsLinked(f, c) \/ (c = id /\ p # NONE)
    OBVIOUS
  <2>1. ASSUME IsLinked(g, c) PROVE IsLinked(f, c) \/ (c = id /\ p # NONE)
    BY <1>1, <1>2, <2>1 DEF IsLinked
  <2>2. ASSUME IsLinked(f, c) PROVE IsLinked(g, c)
    BY <1>1, <1>2, <2>2 DEF IsLinked
  <2>3. ASSUME c = id, p # NONE PROVE IsLinked(g, c)
    BY <1>1, <1>2, <2>3 DEF IsLinked
  <2> QED BY <2>1, <2>2, <2>3
<1>8. NoDangling(g)
  <2> SUFFICES ASSUME NEW c \in DataClusters, IsNext(g[c])
               PROVE  IsUsed(g, g[c])
    BY DEF NoDangling
  <2>1. CASE c = p
    BY <1>1, <1>2, <2>1 DEF IsUsed
  <2>2. CASE c # p
    <3>1. g[c] = f[c] /\ IsUsed(f, f[c]) /\ f[c] \in DataClusters
      BY <1>1, <1>2, <2>2 DEF TableOK, NoDangling, IsNext, FATEntries
    <3> QED BY <3>1, <1>6
  <2> QED BY <2>1, <2>2
<1>9. NoCrossLink(g)
  <2> SUFFICES ASSUME NEW c \in DataClusters, NEW d \in DataClusters,
                      IsNext(g[c]), g[c] = g[d]
               PROVE  c = d
    BY DEF NoCrossLink
  <2>1. \A e \in DataClusters : f[e] # id
    BY <1>5 DEF IsLinked
  <2> QED BY <1>1, <1>2, <2>1 DEF TableOK, NoCrossLink, IsNext
<1>10. Acyclic(g)
  <2> SUFFICES ASSUME NEW S \in SUBSET DataClusters, S # {}
               PROVE  \E c \in S : g[c] \notin S
    BY DEF Acyclic
  <2>1. CASE id \in S
    BY <1>1, <1>2, <2>1
  <2>2. CASE id \notin S
    <3>1. PICK c \in S : f[c] \notin S
      BY DEF TableOK, Acyclic
    <3> QED BY <1>1, <1>2, <2>2, <3>1
  <2> QED BY <2>1, <2>2
<1>11. FreeClusters(g) = FreeClusters(f) \ {id}
  BY <1>1, <1>2 DEF FreeClusters
<1>12. g[id] = END
  BY <1>1, <1>2
<1> HIDE DEF g
<1>13. TableOK(g)
  BY <1>3, <1>4, <1>8, <1>9, <1>10 DEF TableOK
<1> QED BY <1>5, <1>6, <1>7, <1>11, <1>12, <1>13 DEF g

\* Freeing a cluster that nothing leads to, or that prev alone leads to.
LEMMA UnlinkKeeps ==
  ASSUME NEW f, TableOK(f), NEW c \in DataClusters, IsUsed(f, c),
         NEW p \in {NONE} \cup DataClusters,
         IF p = NONE THEN ~IsLinked(f, c) ELSE f[p] = c
  PROVE  LET g == Unlink(f, c, p) IN
         /\ TableOK(g)
         /\ IsNext(f[c]) => f[c] \in DataClusters \ {c} /\ IsUsed(g, f[c])
         /\ \A d \in DataClusters :
               /\ IsUsed(g, d) <=> IsUsed(f, d) /\ d # c
               /\ IsLinked(g, d) <=> IsLinked(f, d) /\ d # c /\ d # f[c]
         /\ FreeClusters(g) = FreeClusters(f) \cup {c}
<1> DEFINE g == Unlink(f, c, p)
<1>1. /\ f \in [EntryIds -> FATEntries] /\ c \in EntryIds /\ c # 0 /\ c # 1
      /\ p # NONE => p \in DataClusters /\ p \in EntryIds
      /\ DataClusters \subseteq EntryIds
      /\ NONE \notin EntryIds /\ NONE \notin DataClusters
      /\ FREE \notin DataClusters /\ BAD \notin DataClusters /\ END \notin DataClusters
      /\ FREE # END /\ FREE # BAD /\ BAD # END
  BY Entries, TotalClustersAssumption
     DEF TableOK, DataClusters, EntryIds, EndCluster
<1>2. f[c] # c /\ p # c
  <2>1. \E e \in {c} : f[e] \notin {c}
    BY DEF TableOK, Acyclic
  <2> QED BY <1>1, <2>1
<1>3. \A d \in DataClusters : f[d] = c => d = p
  <2>1. CASE p = NONE
    BY <2>1 DEF IsLinked
  <2>2. CASE p # NONE
    <3>1. IsNext(f[p])
      BY <1>1, <2>2 DEF IsNext
    <3> QED BY <1>1, <2>2, <3>1 DEF TableOK, NoCrossLink, IsNext
  <2> QED BY <2>1, <2>2
<1>4. /\ DOMAIN g = EntryIds
      /\ \A d \in EntryIds : g[d] = IF d = p THEN END ELSE IF d = c THEN FREE ELSE f[d]
  <2>1. CASE p = NONE
    <3>1. g = [f EXCEPT ![c] = FREE]
      BY <2>1 DEF Unlink
    <3> HIDE DEF g
    <3> QED BY <1>1, <2>1, <3>1
  <2>2. CASE p # NONE
    <3>1. g = [f EXCEPT ![c] = FREE, ![p] = END]
      BY <2>2 DEF Unlink
    <3> HIDE DEF g
    <3> QED BY <1>1, <1>2, <2>2, <3>1
  <2> QED BY <2>1, <2>2
<1>5. g \in [EntryIds -> FATEntries]
  <2>1. \A d \in EntryIds : g[d] \in FATEntries
    BY <1>1, <1>4 DEF FATEntries
  <2>2. g = [d \in EntryIds |-> g[d]]
    BY <1>1 DEF Unlink
  <2> QED BY <2>1, <2>2
<1>6. g[0] = END /\ g[1] = END
  BY <1>1, <1>4, TotalClustersAssumption DEF TableOK, EntryIds, EndCluster, DataClusters
<1>7. \A d \in DataClusters : IsUsed(g, d) <=> IsUsed(f, d) /\ d # c
  <2>1. p # NONE => IsUsed(f, p)
    BY <1>1 DEF IsUsed
  <2> QED BY <1>1, <1>2, <1>4, <2>1 DEF IsUsed
<1>8. \A d \in DataClusters :
         IsLinked(g, d) <=> IsLinked(f, d) /\ d # c /\ d # f[c]
  <2> SUFFICES ASSUME NEW d \in DataClusters
               PROVE  IsLinked(g, d) <=> IsLinked(f, d) /\ d # c /\ d # f[c]
    OBVIOUS
  <2>1. ASSUME IsLinked(g, d) PROVE IsLinked(f, d) /\ d # c /\ d # f[c]
    <3>1. PICK e \in DataClusters : g[e] = d
      BY <2>1 DEF IsLinked
    <3>2. e # p /\ e # c /\ f[e] = d
      BY <1>1, <1>4, <3>1
    <3>3. d # c
      BY <1>3, <3>2
    <3>4. d # f[c]
      BY <1>1, <3>2 DEF TableOK, NoCrossLink, IsNext
    <3> QED BY <3>2, <3>3, <3>4 DEF IsLinked
  <2>2. ASSUME IsLinked(f, d), d # c, d # f[c] PROVE IsLinked(g, d)
    <3>1. PICK e \in DataClusters : f[e] = d
      BY <2>2 DEF IsLinked
    <3>2. e # p /\ e # c
      BY <1>1, <2>2, <3>1
    <3> QED BY <1>1, <1>4, <3>1, <3>2 DEF IsLinked
  <2> QED BY <2>1, <2>2
<1>9. NoDangling(g)
  <2> SUFFICES ASSUME NEW d \in DataClusters, IsNext(g[d])
               PROVE  IsUsed(g, g[d])
    BY DEF NoDangling
  <2>1. d # p /\ d # c /\ g[d] = f[d]
    BY <1>1, <1>4 DEF IsNext
  <2>2. f[d] \in DataClusters /\ IsUsed(f, f[d])
    BY <1>1, <2>1 DEF TableOK, NoDangling, IsNext, FATEntries
  <2>3. f[d] # c
    BY <1>3, <2>1
  <2> QED BY <1>7, <2>1, <2>2, <2>3
<1>10. NoCrossLink(g)
  BY <1>1, <1>4 DEF TableOK, NoCrossLink, IsNext
<1>11. Acyclic(g)
  <2> SUFFICES ASSUME NEW S \in SUBSET DataClusters, S # {}
               PROVE  \E d \in S : g[d] \notin S
    BY DEF Acyclic
  <2>1. PICK d \in S : f[d] \notin S
    BY DEF TableOK, Acyclic
  <2> QED BY <1>1, <1>4, <2>1
<1>12. ASSUME IsNext(f[c])
       PROVE  f[c] \in DataClusters \ {c} /\ IsUsed(g, f[c])
  <2>1. f[c] \in DataClusters /\ IsUsed(f, f[c])
    BY <1>1, <1>12 DEF TableOK, NoDangling, IsNext, FATEntries
  <2> QED BY <1>2, <1>7, <2>1
<1>13. FreeClusters(g) = FreeClusters(f) \cup {c}
  <2>1. p # NONE => f[p] # FREE
    BY <1>1
  <2> QED BY <1>1, <1>2, <1>4, <2>1 DEF FreeClusters
<1> HIDE DEF g
<1>14. TableOK(g)
  BY <1>5, <1>6, <1>9, <1>10, <1>11 DEF TableOK
<1> QED BY <1>7, <1>8, <1>12, <1>13, <1>14 DEF g

\* A manager made of such a table and an FSInfo sector whose hint is not
\* EndCluster is ready and has a free cluster for a hint, if any.
LEMMA MountFinds ==
  ASSUME NEW f, TableOK(f), NEW count \in Int, NEW next \in Nat, next # EndCluster,
         NEW q, NEW n, NEW m, Mounted(f, count, next, q, n, m)
  PROVE  /\ q = "ready"
         /\ n \in {NONE} \cup DataClusters
         /\ n # NONE => f[n] = FREE
         /\ m = ValidateAndFix(FSInfoNew(count, next)).count
<1> USE TotalClustersAssumption DEF EndCluster, DataClusters, EntryIds
<1> DEFINE fi == ValidateAndFix(FSInfoNew(count, next))
<1>1. /\ fi.next \in {NONE} \cup 0 .. EndCluster - 1
      /\ fi.next # NONE => fi.next = next
  BY U32Assumption DEF FSInfoNew, ValidateAndFix
<1>2. f[0] # FREE /\ f[1] # FREE
  BY Entries DEF TableOK
<1>3. ~RecalculateAsserts(f, fi.next)
  <2> HIDE DEF fi
  <2> QED BY <1>1 DEF RecalculateAsserts, SearchAsserts
<1>4. m = fi.count /\ q = "ready" /\ n = RecalculateFsinfo(f, fi.next)
  <2> HIDE DEF fi
  <2>1. /\ m = fi.count
        /\ IF RecalculateAsserts(f, fi.next)
           THEN q = "panicked" /\ n = fi.next
           ELSE q = "ready" /\ n = RecalculateFsinfo(f, fi.next)
    BY DEF Mounted, fi
  <2> QED BY <1>3, <2>1
<1> HIDE DEF fi
<1>5. CASE fi.next = NONE
  <2>1. n = FirstFree(f, START_CLUS_ID, EndCluster - 1)
    BY <1>4, <1>5 DEF RecalculateFsinfo
  <2>2. \/ n = NONE
        \/ n \in START_CLUS_ID .. EndCluster - 1 /\ f[n] = FREE
    BY <2>1, FirstFreeFinds
  <2> QED BY <1>4, <2>2 DEF fi
<1>6. CASE fi.next # NONE /\ f[fi.next] = FREE
  <2>1. n = fi.next
    BY <1>4, <1>6 DEF RecalculateFsinfo
  <2>2. n \in DataClusters
    BY <1>1, <1>2, <1>6, <2>1
  <2> QED BY <1>4, <1>6, <2>1, <2>2 DEF fi
<1>7. CASE fi.next # NONE /\ f[fi.next] # FREE
  <2>1. n = SearchFreeCluster(f, fi.next, fi.next)
    BY <1>4, <1>7 DEF RecalculateFsinfo
  <2>2. /\ n \in {NONE} \cup DataClusters
        /\ n # NONE => f[n] = FREE
    BY <1>1, <1>2, <1>7, <2>1, SearchFinds
  <2> QED BY <1>4, <2>2 DEF fi
<1> QED BY <1>5, <1>6, <1>7

-----------------------------------------------------------------------------
(* The invariant.                                                          *)

IInv == TypeOK /\ ChainsDisjoint /\ ChainsEnd /\ NoLeak /\ HintIsFree /\ LoopInv

LEMMA InvTable == IInv => TableOK(fat) /\ fat[0] # FREE /\ fat[1] # FREE
  BY Entries DEF IInv, TypeOK, ChainsDisjoint, ChainsEnd, LoopInv, TableOK

\* The search every allocation starts with.
LEMMA AllocSearch ==
  ASSUME IInv, NEW id, id = SearchFreeCluster(fat, nextFree, START_CLUS_ID)
  PROVE  /\ id \in {NONE} \cup DataClusters
         /\ id # NONE => fat[id] = FREE
         /\ id = NONE => FreeClusters(fat) = {}
         /\ nextFree > START_CLUS_ID => id = nextFree
<1>1. nextFree \in Int /\ START_CLUS_ID \in 0 .. EndCluster - 1
  BY TotalClustersAssumption DEF IInv, TypeOK, EndCluster, DataClusters
<1>2. nextFree > START_CLUS_ID => nextFree \in DataClusters /\ fat[nextFree] = FREE
  BY DEF IInv, HintIsFree
<1>3. nextFree > START_CLUS_ID => id = nextFree
  BY DEF SearchFreeCluster
<1> QED BY <1>1, <1>2, <1>3, InvTable, SearchFinds

\* What one alloc_cluster does to the table and FSInfo.
LEMMA AllocKeeps ==
  ASSUME IInv, NEW id, id = SearchFreeCluster(fat, nextFree, START_CLUS_ID),
         id # NONE, NEW p \in {NONE} \cup Tails(fat), NEW resume,
         AllocCluster(id, p, resume)
  PROVE  /\ id \in DataClusters /\ fat[id] = FREE
         /\ TableOK(fat') /\ fat'[id] = END
         /\ \A c \in DataClusters :
               /\ IsUsed(fat', c) <=> IsUsed(fat, c) \/ c = id
               /\ IsLinked(fat', c) <=> IsLinked(fat, c) \/ (c = id /\ p # NONE)
         /\ ~IsLinked(fat, id)
         /\ FreeClusters(fat') = FreeClusters(fat) \ {id}
         /\ nextFree' \in {NONE} \cup DataClusters
         /\ nextFree' # NONE => fat'[nextFree'] = FREE
         /\ freeCount' \in Counts
         /\ pc' \in {resume, "panicked"}
         /\ IF freeCount = 0 /\ OverflowChecks
            THEN pc' = "panicked"
            ELSE pc' = resume /\ freeCount' = Decremented(freeCount)
<1>1. /\ id \in DataClusters /\ fat[id] = FREE
      /\ nextFree > START_CLUS_ID => id = nextFree
  BY AllocSearch
<1>2. id \in 2 .. EndCluster - 1 /\ id \in 0 .. EndCluster - 1 /\ ~SearchAsserts(id)
  BY <1>1, TotalClustersAssumption DEF SearchAsserts, DataClusters, EndCluster
<1>3. fat' = LinkNew(fat, id, p)
  BY DEF AllocCluster
<1>4. /\ TableOK(fat') /\ fat'[id] = END
      /\ \A c \in DataClusters :
            /\ IsUsed(fat', c) <=> IsUsed(fat, c) \/ c = id
            /\ IsLinked(fat', c) <=> IsLinked(fat, c) \/ (c = id /\ p # NONE)
      /\ ~IsLinked(fat, id)
      /\ FreeClusters(fat') = FreeClusters(fat) \ {id}
  BY <1>1, <1>3, InvTable, LinkNewKeeps
<1>5. nextFree' = SearchFreeCluster(fat', nextFree, id)
  BY <1>2 DEF AllocCluster
<1>6. /\ nextFree' \in {NONE} \cup DataClusters
      /\ nextFree' # NONE => fat'[nextFree'] = FREE
  <2>1. nextFree \in Int /\ ~(nextFree > id)
    BY <1>1, <1>2 DEF IInv, TypeOK, DataClusters
  <2>2. fat'[0] # FREE /\ fat'[1] # FREE
    BY <1>4, Entries DEF TableOK
  <2> QED BY <1>2, <1>5, <2>1, <2>2, SearchFinds
<1>7. IF freeCount = 0 /\ OverflowChecks
      THEN pc' = "panicked" /\ freeCount' = freeCount
      ELSE pc' = resume /\ freeCount' = Decremented(freeCount)
  BY <1>2 DEF AllocCluster
<1>8. freeCount' \in Counts /\ pc' \in {resume, "panicked"}
  <2>1. freeCount \in Counts
    BY DEF IInv, TypeOK
  <2>2. Decremented(freeCount) \in Counts
    BY <2>1, U32Assumption DEF Decremented, Counts
  <2> QED BY <1>7, <2>1, <2>2
<1> QED BY <1>1, <1>4, <1>6, <1>7, <1>8

\* What one dealloc_cluster that frees a cluster does.
LEMMA DeallocKeeps ==
  ASSUME IInv, NEW c \in DataClusters, IsUsed(fat, c),
         NEW p \in {NONE} \cup DataClusters,
         IF p = NONE THEN ~IsLinked(fat, c) ELSE fat[p] = c,
         NEW resume, DeallocCluster(c, p, resume)
  PROVE  /\ TableOK(fat')
         /\ IsNext(fat[c]) => fat[c] \in DataClusters \ {c} /\ IsUsed(fat', fat[c])
         /\ \A d \in DataClusters :
               /\ IsUsed(fat', d) <=> IsUsed(fat, d) /\ d # c
               /\ IsLinked(fat', d) <=> IsLinked(fat, d) /\ d # c /\ d # fat[c]
         /\ FreeClusters(fat') = FreeClusters(fat) \cup {c}
         /\ nextFree' = nextFree
         /\ nextFree # NONE => fat'[nextFree] = FREE
         /\ freeCount' \in Counts
         /\ pc' \in {resume, "panicked"}
         /\ IF freeCount = U32Max /\ OverflowChecks
            THEN pc' = "panicked"
            ELSE pc' = resume /\ freeCount' = Incremented(freeCount)
<1>1. fat' = Unlink(fat, c, p) /\ nextFree' = nextFree
  BY DEF DeallocCluster
<1>2. /\ TableOK(fat')
      /\ IsNext(fat[c]) => fat[c] \in DataClusters \ {c} /\ IsUsed(fat', fat[c])
      /\ \A d \in DataClusters :
            /\ IsUsed(fat', d) <=> IsUsed(fat, d) /\ d # c
            /\ IsLinked(fat', d) <=> IsLinked(fat, d) /\ d # c /\ d # fat[c]
      /\ FreeClusters(fat') = FreeClusters(fat) \cup {c}
  BY <1>1, InvTable, UnlinkKeeps
<1>3. nextFree # NONE => fat'[nextFree] = FREE
  BY <1>2 DEF IInv, HintIsFree, FreeClusters
<1>4. IF freeCount = U32Max /\ OverflowChecks
      THEN pc' = "panicked" /\ freeCount' = freeCount
      ELSE pc' = resume /\ freeCount' = Incremented(freeCount)
  BY DEF DeallocCluster
<1>5. freeCount' \in Counts /\ pc' \in {resume, "panicked"}
  <2>1. freeCount \in Counts
    BY DEF IInv, TypeOK
  <2>2. Incremented(freeCount) \in Counts
    BY <2>1, U32Assumption DEF Incremented, Counts
  <2> QED BY <1>4, <2>1, <2>2
<1> QED BY <1>1, <1>2, <1>3, <1>4, <1>5

\* The count a manager starts with is a u32 or missing.
LEMMA MountCount ==
  ASSUME NEW count \in 0 .. U32Max, NEW next
  PROVE  ValidateAndFix(FSInfoNew(count, next)).count \in Counts
  BY TotalClustersAssumption, U32Assumption DEF ValidateAndFix, FSInfoNew, Counts

LEMMA InitTable == ASSUME Init PROVE TableOK(fat)
<1>1. PICK d \in [DataClusters -> FATEntries], slack \in {FREE, END} :
         fat = Table(d, slack)
  BY DEF Init, WellFormedTables
<1>2. \A c \in EntryIds : Table(d, slack)[c] \in FATEntries
  BY DEF Table, FATEntries
<1>3. fat \in [EntryIds -> FATEntries]
  BY <1>1, <1>2 DEF Table
<1>4. fat[0] = END /\ fat[1] = END
  BY <1>1, TotalClustersAssumption DEF Table, EntryIds, DataClusters, EndCluster
<1>5. NoDangling(fat) /\ NoCrossLink(fat) /\ Acyclic(fat)
  BY DEF Init, WellFormedTables
<1> QED BY <1>3, <1>4, <1>5 DEF TableOK

LEMMA InvInit == ASSUME EndCluster \notin DiskHints PROVE Init => IInv
<1> SUFFICES ASSUME Init PROVE IInv
  OBVIOUS
<1>1. TableOK(fat)
  BY InitTable
<1>2. PICK count \in DiskCounts(fat), next \in DiskHints :
         Mounted(fat, count, next, pc, nextFree, freeCount)
  BY DEF Init
<1>3. count \in 0 .. U32Max /\ next \in Nat /\ next # EndCluster
  BY <1>2, DiskHintsAssumption, U32Assumption DEF DiskCounts
<1>4. /\ pc = "ready" /\ nextFree \in {NONE} \cup DataClusters
      /\ nextFree # NONE => fat[nextFree] = FREE
      /\ freeCount = ValidateAndFix(FSInfoNew(count, next)).count
  BY <1>1, <1>2, <1>3, MountFinds
<1>5. freeCount \in Counts
  BY <1>3, <1>4, MountCount
<1>6. TypeOK
  BY <1>1, <1>4, <1>5, MaxRequestAssumption
     DEF TypeOK, Init, TableOK, Roots, NoResult
<1>7. ChainsDisjoint /\ ChainsEnd
  BY <1>1 DEF TableOK, ChainsDisjoint, ChainsEnd, Init, Roots
<1>8. NoLeak
  BY DEF NoLeak, Init, Roots
<1>9. HintIsFree
  BY <1>4 DEF HintIsFree
<1>10. LoopInv
  BY <1>1, <1>4 DEF LoopInv, TableOK
<1> QED BY <1>6, <1>7, <1>8, <1>9, <1>10 DEF IInv

-----------------------------------------------------------------------------
(* One lemma per action.                                                   *)

LEMMA InvAllocOne ==
  ASSUME IInv, NEW p \in {NONE} \cup Tails(fat), AllocOne(p) PROVE IInv'
<1> DEFINE id == SearchFreeCluster(fat, nextFree, START_CLUS_ID)
<1>1. CASE id = NONE
  <2>1. UNCHANGED <<fat, info, heads, pc, locals>>
    BY <1>1 DEF AllocOne
  <2>2. ret' \in [fn : {"none", "alloc_cluster", "alloc_clusters", "dealloc_clusters"},
                  val : Int, asked : Nat, got : Nat]
    BY <1>1 DEF AllocOne, Result, NoResult
  <2>3. pc = "ready"
    BY DEF AllocOne
  <2> QED
    BY <2>1, <2>2, <2>3
       DEF IInv, TypeOK, ChainsDisjoint, ChainsEnd, NoLeak, InFlight, HintIsFree,
           LoopInv, info, locals, IsUsed, IsLinked, NoDangling, NoCrossLink, Acyclic,
           Tails, FreeClusters
<1>2. CASE id # NONE
  <2>1. /\ pc = "ready" /\ AllocCluster(id, p, "ready") /\ UNCHANGED locals
        /\ heads' = IF p = NONE /\ pc' = "ready" THEN heads \cup {id} ELSE heads
        /\ ret' = IF pc' = "ready" THEN Result("alloc_cluster", id, 1, 1) ELSE NoResult
    BY <1>2 DEF AllocOne
  <2> HIDE DEF id
  <2>2. /\ id \in DataClusters /\ fat[id] = FREE
        /\ TableOK(fat') /\ fat'[id] = END
        /\ \A c \in DataClusters :
              /\ IsUsed(fat', c) <=> IsUsed(fat, c) \/ c = id
              /\ IsLinked(fat', c) <=> IsLinked(fat, c) \/ (c = id /\ p # NONE)
        /\ ~IsLinked(fat, id)
        /\ nextFree' \in {NONE} \cup DataClusters
        /\ nextFree' # NONE => fat'[nextFree'] = FREE
        /\ freeCount' \in Counts
        /\ pc' \in {"ready", "panicked"}
    BY <1>2, <2>1, AllocKeeps DEF id
  <2>3. TypeOK'
    <3>1. id \in Int
      BY <2>2 DEF DataClusters
    <3>2. ret' \in [fn : {"none", "alloc_cluster", "alloc_clusters", "dealloc_clusters"},
                    val : Int, asked : Nat, got : Nat]
      BY <2>1, <3>1 DEF Result, NoResult
    <3> QED BY <2>1, <2>2, <3>2 DEF IInv, TypeOK, TableOK, locals
  <2>4. ChainsDisjoint' /\ ChainsEnd'
    <3>1. \A h \in heads : IsUsed(fat', h) /\ ~IsLinked(fat', h)
      BY <2>2 DEF IInv, ChainsDisjoint, TypeOK, IsUsed
    <3>2. p = NONE => IsUsed(fat', id) /\ ~IsLinked(fat', id)
      BY <2>2
    <3> QED BY <2>1, <2>2, <3>1, <3>2 DEF TableOK, ChainsDisjoint, ChainsEnd
  <2>5. NoLeak'
    BY <2>1, <2>2 DEF IInv, NoLeak, InFlight, locals
  <2>6. HintIsFree'
    BY <2>2 DEF HintIsFree
  <2>7. LoopInv'
    BY <2>2 DEF LoopInv, TableOK
  <2> QED BY <2>3, <2>4, <2>5, <2>6, <2>7 DEF IInv
<1> QED BY <1>1, <1>2

LEMMA InvBeginAllocClusters ==
  ASSUME IInv, NEW num \in 0 .. MaxRequest, NEW p \in {NONE} \cup Tails(fat),
         BeginAllocClusters(num, p)
  PROVE  IInv'
<1>1. /\ pc = "ready" /\ UNCHANGED <<fat, info, heads, cur>>
      /\ pc' \in {"ready", "alloc"}
      /\ pc' = "alloc" => /\ asked' = num /\ base' = p /\ prev' = p /\ iter' = 0
                          /\ first' = NONE /\ got' = 0 /\ ret' = NoResult
      /\ pc' = "ready" => /\ UNCHANGED <<asked, base, prev, iter, first, got>>
                          /\ ret' = Result("alloc_clusters", NONE, num, 0)
  BY DEF BeginAllocClusters
<1>2. p \in {NONE} \cup DataClusters
  BY DEF Tails
<1>3. TypeOK'
  <2>1. ret' \in [fn : {"none", "alloc_cluster", "alloc_clusters", "dealloc_clusters"},
                  val : Int, asked : Nat, got : Nat]
    BY <1>1 DEF Result, NoResult
  <2> QED BY <1>1, <1>2, <2>1 DEF IInv, TypeOK, info
<1>4. ChainsDisjoint' /\ ChainsEnd' /\ HintIsFree'
  BY <1>1 DEF IInv, ChainsDisjoint, ChainsEnd, HintIsFree, info, IsUsed, IsLinked,
              NoDangling, NoCrossLink, Acyclic
<1>5. NoLeak'
  BY <1>1 DEF IInv, NoLeak, InFlight, IsUsed, IsLinked
<1>6. LoopInv'
  BY <1>1, MaxRequestAssumption DEF IInv, LoopInv, Tails
<1> QED BY <1>3, <1>4, <1>5, <1>6 DEF IInv

LEMMA InvAllocStep == ASSUME IInv, AllocStep PROVE IInv'
<1> DEFINE id == SearchFreeCluster(fat, nextFree, START_CLUS_ID)
<1>1. /\ pc = "alloc" /\ iter < asked /\ ret = NoResult
      /\ prev' = id /\ iter' = iter + 1
      /\ first' = IF iter = 0 THEN id ELSE first
      /\ UNCHANGED <<heads, asked, base, cur, ret>>
  BY DEF AllocStep, IInv, LoopInv
<1>2. /\ prev \in {NONE} \cup Tails(fat)
      /\ iter = 0 => prev = base /\ first = NONE
      /\ iter > 0 /\ (prev = NONE \/ first = NONE) => FreeClusters(fat) = {}
      /\ first # NONE => IsUsed(fat, first)
      /\ first # NONE /\ base = NONE => ~IsLinked(fat, first)
      /\ iter \in Nat /\ asked \in Nat
  BY <1>1, MaxRequestAssumption DEF IInv, LoopInv, TypeOK
<1>3. CASE id = NONE
  <2>1. UNCHANGED <<fat, info, pc, got>>
    BY <1>3 DEF AllocStep
  <2>2. FreeClusters(fat) = {}
    BY <1>3, AllocSearch
  <2> HIDE DEF id
  <2>3. TypeOK'
    BY <1>1, <1>2, <1>3, <2>1 DEF IInv, TypeOK, info
  <2>4. ChainsDisjoint' /\ ChainsEnd' /\ HintIsFree'
    BY <1>1, <2>1 DEF IInv, ChainsDisjoint, ChainsEnd, HintIsFree, info,
                      IsUsed, IsLinked, NoDangling, NoCrossLink, Acyclic
  <2>5. NoLeak'
    BY <1>1, <1>2, <1>3, <2>1 DEF IInv, NoLeak, InFlight, IsUsed, IsLinked, DataClusters
  <2>6. LoopInv'
    BY <1>1, <1>2, <1>3, <2>1, <2>2
       DEF IInv, LoopInv, IsUsed, IsLinked, FreeClusters
  <2> QED BY <2>3, <2>4, <2>5, <2>6 DEF IInv
<1>4. CASE id # NONE
  <2>1. AllocCluster(id, prev, "alloc") /\ got' = got + 1
    BY <1>4 DEF AllocStep
  <2> HIDE DEF id
  <2>2. /\ id \in DataClusters /\ fat[id] = FREE
        /\ TableOK(fat') /\ fat'[id] = END
        /\ \A c \in DataClusters :
              /\ IsUsed(fat', c) <=> IsUsed(fat, c) \/ c = id
              /\ IsLinked(fat', c) <=> IsLinked(fat, c) \/ (c = id /\ prev # NONE)
        /\ ~IsLinked(fat, id)
        /\ nextFree' \in {NONE} \cup DataClusters
        /\ nextFree' # NONE => fat'[nextFree'] = FREE
        /\ freeCount' \in Counts
        /\ pc' \in {"alloc", "panicked"}
    BY <1>2, <1>4, <2>1, AllocKeeps DEF id
  \* Something was free, so no earlier iteration can have failed.
  <2>3. iter > 0 => prev # NONE /\ first # NONE
    BY <1>2, <2>2 DEF FreeClusters
  <2>4. id # NONE /\ id \in Int /\ id \in Tails(fat')
    BY <1>4, <2>2 DEF DataClusters, Tails
  <2>5. TypeOK'
    BY <1>1, <1>2, <2>1, <2>2 DEF IInv, TypeOK, TableOK
  <2>6. ChainsDisjoint' /\ ChainsEnd'
    <3>1. \A h \in heads : IsUsed(fat', h) /\ ~IsLinked(fat', h)
      BY <2>2 DEF IInv, ChainsDisjoint, TypeOK, IsUsed
    <3> QED BY <1>1, <2>2, <3>1 DEF TableOK, ChainsDisjoint, ChainsEnd
  <2>7. NoLeak'
    <3> SUFFICES ASSUME pc' # "panicked", NEW c \in DataClusters, IsUsed(fat', c)
                 PROVE  c \in heads' \cup InFlight' \/ IsLinked(fat', c)
      BY DEF NoLeak
    <3>1. pc' = "alloc"
      BY <2>2
    <3>2. CASE c = id
      <4>1. CASE prev # NONE
        BY <2>2, <3>2, <4>1
      <4>2. CASE prev = NONE
        <5>1. iter = 0 /\ base = NONE
          BY <1>2, <2>3, <4>2
        <5> QED BY <1>1, <3>1, <3>2, <5>1 DEF InFlight
      <4> QED BY <4>1, <4>2
    <3>3. CASE c # id
      <4>1. c \in heads \/ IsLinked(fat, c) \/ c \in InFlight
        BY <1>1, <2>2, <3>3 DEF IInv, NoLeak
      <4>2. c \in InFlight => c = first /\ base = NONE /\ first # NONE
        BY <1>1 DEF InFlight, DataClusters
      <4>3. first # NONE => first' = first
        BY <1>1, <1>2
      <4> QED BY <1>1, <2>2, <3>1, <4>1, <4>2, <4>3 DEF InFlight
    <3> QED BY <3>2, <3>3
  <2>8. HintIsFree'
    BY <2>2 DEF HintIsFree
  <2>9. LoopInv'
    <3>1. first' # NONE => IsUsed(fat', first')
      BY <1>1, <1>2, <2>2, <2>4 DEF IInv, TypeOK
    <3>2. first' # NONE /\ base' = NONE => ~IsLinked(fat', first')
      <4> SUFFICES ASSUME first' # NONE, base = NONE PROVE ~IsLinked(fat', first')
        BY <1>1
      <4>1. CASE iter = 0
        BY <1>1, <1>2, <2>2, <4>1
      <4>2. CASE iter # 0
        <5>1. first' = first /\ first # id
          BY <1>1, <1>2, <2>2, <4>2 DEF IsUsed
        <5> QED BY <1>2, <2>2, <5>1 DEF IInv, TypeOK
      <4> QED BY <4>1, <4>2
    <3>3. iter' > 0 => prev' # NONE /\ first' # NONE
      BY <1>1, <1>2, <2>3, <2>4
    <3>4. iter' <= asked' /\ iter' # 0 /\ prev' \in Tails(fat')
      BY <1>1, <1>2, <2>4
    <3>5. fat'[0] = END /\ fat'[1] = END
      BY <2>2 DEF TableOK
    <3> QED BY <1>1, <2>2, <3>1, <3>2, <3>3, <3>4, <3>5 DEF LoopInv
  <2> QED BY <2>5, <2>6, <2>7, <2>8, <2>9 DEF IInv
<1> QED BY <1>3, <1>4

LEMMA InvEndAllocClusters == ASSUME IInv, EndAllocClusters PROVE IInv'
<1>1. /\ pc = "alloc" /\ pc' = "ready" /\ UNCHANGED <<fat, info, cur>>
      /\ heads' = IF base = NONE /\ first # NONE THEN heads \cup {first} ELSE heads
      /\ ret' = Result("alloc_clusters", first, asked, got)
      /\ asked' = 0 /\ base' = NONE /\ prev' = NONE /\ iter' = 0
      /\ first' = NONE /\ got' = 0
  BY DEF EndAllocClusters
<1>2. /\ first # NONE => IsUsed(fat, first) /\ first \in DataClusters
      /\ first # NONE /\ base = NONE => ~IsLinked(fat, first)
  BY <1>1 DEF IInv, LoopInv, TypeOK
<1>3. TypeOK'
  <2>1. first \in Int /\ asked \in Nat /\ got \in Nat
    BY MaxRequestAssumption DEF IInv, TypeOK, DataClusters
  <2>2. ret' \in [fn : {"none", "alloc_cluster", "alloc_clusters", "dealloc_clusters"},
                  val : Int, asked : Nat, got : Nat]
    BY <1>1, <2>1 DEF Result
  <2> QED BY <1>1, <1>2, <2>2, MaxRequestAssumption DEF IInv, TypeOK, info
<1>4. ChainsDisjoint' /\ ChainsEnd' /\ HintIsFree'
  BY <1>1, <1>2 DEF IInv, ChainsDisjoint, ChainsEnd, HintIsFree, info, IsUsed,
                    IsLinked, NoDangling, NoCrossLink, Acyclic
<1>5. NoLeak'
  BY <1>1, <1>2 DEF IInv, NoLeak, InFlight, IsUsed, IsLinked, DataClusters
<1>6. LoopInv'
  BY <1>1 DEF IInv, LoopInv
<1> QED BY <1>3, <1>4, <1>5, <1>6 DEF IInv

\* Whoever may free a cluster names what leads to it.
LEMMA MayDeallocNamesPrev ==
  ASSUME IInv, NEW c \in DataClusters, NEW p \in {NONE} \cup DataClusters,
         MayDealloc(c, p), IsUsed(fat, c)
  PROVE  IF p = NONE THEN c \in heads /\ ~IsLinked(fat, c)
                     ELSE c \notin heads /\ fat[p] = c
<1>1. NONE \notin DataClusters
  BY DEF DataClusters
<1> QED BY <1>1 DEF MayDealloc, IInv, ChainsDisjoint, IsLinked, IsUsed, FreeClusters

LEMMA InvDeallocOne ==
  ASSUME IInv, NEW c \in DataClusters, NEW p \in {NONE} \cup DataClusters,
         DeallocOne(c, p)
  PROVE  IInv'
<1>1. pc = "ready" /\ MayDealloc(c, p) /\ ret' = NoResult /\ UNCHANGED locals
  BY DEF DeallocOne
<1>2. ret' \in [fn : {"none", "alloc_cluster", "alloc_clusters", "dealloc_clusters"},
                val : Int, asked : Nat, got : Nat]
  BY <1>1 DEF NoResult
<1>3. CASE ~IsUsed(fat, c)
  <2>1. UNCHANGED <<fat, info, heads, pc>>
    BY <1>3 DEF DeallocOne
  <2> QED
    BY <1>1, <1>2, <2>1
       DEF IInv, TypeOK, ChainsDisjoint, ChainsEnd, NoLeak, InFlight, HintIsFree,
           LoopInv, info, locals, IsUsed, IsLinked, NoDangling, NoCrossLink, Acyclic
<1>4. CASE IsUsed(fat, c)
  <2>1. /\ DeallocCluster(c, p, "ready")
        /\ heads' = (heads \ {c}) \cup ({fat[c]} \ {END})
    BY <1>4 DEF DeallocOne
  <2>2. IF p = NONE THEN ~IsLinked(fat, c) ELSE fat[p] = c
    BY <1>1, <1>4, MayDeallocNamesPrev
  <2>3. /\ TableOK(fat')
        /\ IsNext(fat[c]) => fat[c] \in DataClusters \ {c} /\ IsUsed(fat', fat[c])
        /\ \A d \in DataClusters :
              /\ IsUsed(fat', d) <=> IsUsed(fat, d) /\ d # c
              /\ IsLinked(fat', d) <=> IsLinked(fat, d) /\ d # c /\ d # fat[c]
        /\ nextFree' = nextFree
        /\ nextFree # NONE => fat'[nextFree] = FREE
        /\ freeCount' \in Counts
        /\ pc' \in {"ready", "panicked"}
    BY <1>4, <2>1, <2>2, DeallocKeeps
  <2>4. fat[c] # END => IsNext(fat[c])
    BY <1>4 DEF IsUsed, IsNext
  <2>5. TypeOK'
    BY <1>1, <1>2, <2>1, <2>3, <2>4 DEF IInv, TypeOK, TableOK, locals
  <2>6. ChainsDisjoint' /\ ChainsEnd'
    <3> SUFFICES ASSUME NEW h \in heads' PROVE IsUsed(fat', h) /\ ~IsLinked(fat', h)
      BY <2>3 DEF TableOK, ChainsDisjoint, ChainsEnd
    <3>1. CASE h \in heads \ {c}
      BY <2>3, <3>1 DEF IInv, ChainsDisjoint, TypeOK
    <3>2. CASE h = fat[c] /\ fat[c] # END
      BY <2>3, <2>4, <3>2
    <3> QED BY <2>1, <3>1, <3>2
  <2>7. NoLeak'
    <3> SUFFICES ASSUME NEW d \in DataClusters, IsUsed(fat', d)
                 PROVE  d \in heads' \/ IsLinked(fat', d)
      BY DEF NoLeak
    <3>1. d \in heads \/ IsLinked(fat, d)
      BY <1>1, <2>3 DEF IInv, NoLeak, InFlight
    <3>2. d # c /\ d # END
      BY <2>3, Entries
    <3> QED BY <2>1, <2>3, <3>1, <3>2
  <2>8. HintIsFree'
    BY <2>3 DEF IInv, HintIsFree
  <2>9. LoopInv'
    BY <2>3 DEF LoopInv, TableOK
  <2> QED BY <2>5, <2>6, <2>7, <2>8, <2>9 DEF IInv
<1> QED BY <1>3, <1>4

LEMMA InvBeginDeallocClusters ==
  ASSUME IInv, NEW c \in DataClusters, NEW p \in {NONE} \cup DataClusters,
         BeginDeallocClusters(c, p)
  PROVE  IInv'
<1>1. /\ pc = "ready" /\ MayDealloc(c, p) /\ pc' = "dealloc"
      /\ cur' = c /\ base' = p /\ prev' = p /\ iter' = 0 /\ got' = 0
      /\ heads' = heads \ {c} /\ ret' = NoResult
      /\ UNCHANGED <<fat, info, asked, first>>
  BY DEF BeginDeallocClusters
<1>2. TypeOK'
  BY <1>1 DEF IInv, TypeOK, info, NoResult
<1>3. ChainsDisjoint' /\ ChainsEnd' /\ HintIsFree'
  BY <1>1 DEF IInv, ChainsDisjoint, ChainsEnd, HintIsFree, info, IsUsed,
              IsLinked, NoDangling, NoCrossLink, Acyclic
<1>4. NoLeak'
  BY <1>1 DEF IInv, NoLeak, InFlight, IsUsed, IsLinked
<1>5. LoopInv'
  <2>1. IsUsed(fat, c) => IF p = NONE THEN ~IsLinked(fat, c) ELSE fat[p] = c
    BY <1>1, MayDeallocNamesPrev
  <2> QED BY <1>1, <2>1 DEF IInv, LoopInv, IsUsed, IsLinked
<1> QED BY <1>2, <1>3, <1>4, <1>5 DEF IInv

\* The locals of dealloc_clusters when cur is still in use.
LEMMA DeallocLocals ==
  ASSUME IInv, pc = "dealloc", cur # NONE, IsUsed(fat, cur)
  PROVE  /\ cur \in DataClusters /\ cur \notin heads
         /\ prev \in {NONE} \cup DataClusters
         /\ IF prev = NONE THEN ~IsLinked(fat, cur) ELSE fat[prev] = cur
  BY DEF IInv, LoopInv, TypeOK

LEMMA InvDeallocNext == ASSUME IInv, DeallocNext PROVE IInv'
<1>1. /\ pc = "dealloc" /\ cur # NONE /\ IsNext(fat[cur])
      /\ DeallocCluster(cur, prev, "dealloc")
      /\ cur' = fat[cur] /\ prev' = NONE /\ iter' = iter + 1 /\ got' = got + 1
      /\ UNCHANGED <<heads, asked, base, first, ret>>
  BY DEF DeallocNext
<1>2. IsUsed(fat, cur)
  BY <1>1 DEF IsNext, IsUsed
<1>3. /\ TableOK(fat')
      /\ fat[cur] \in DataClusters \ {cur} /\ IsUsed(fat', fat[cur])
      /\ \A d \in DataClusters :
            /\ IsUsed(fat', d) <=> IsUsed(fat, d) /\ d # cur
            /\ IsLinked(fat', d) <=> IsLinked(fat, d) /\ d # cur /\ d # fat[cur]
      /\ nextFree' = nextFree
      /\ nextFree # NONE => fat'[nextFree] = FREE
      /\ freeCount' \in Counts
      /\ pc' \in {"dealloc", "panicked"}
  BY <1>1, <1>2, DeallocLocals, DeallocKeeps
<1>4. cur \in DataClusters /\ cur \notin heads /\ IsLinked(fat, fat[cur])
  BY <1>1, <1>2, DeallocLocals DEF IsLinked
<1>5. TypeOK'
  BY <1>1, <1>3 DEF IInv, TypeOK, TableOK
<1>6. ChainsDisjoint' /\ ChainsEnd'
  <2>1. \A h \in heads : IsUsed(fat', h) /\ ~IsLinked(fat', h)
    BY <1>3, <1>4 DEF IInv, ChainsDisjoint, TypeOK
  <2> QED BY <1>1, <1>3, <2>1 DEF TableOK, ChainsDisjoint, ChainsEnd
<1>7. NoLeak'
  <2> SUFFICES ASSUME pc' # "panicked", NEW d \in DataClusters, IsUsed(fat', d)
               PROVE  d \in heads \/ d = fat[cur] \/ IsLinked(fat', d)
    BY <1>1, <1>3 DEF NoLeak, InFlight
  <2>1. d \in heads \/ IsLinked(fat, d)
    BY <1>1, <1>3 DEF IInv, NoLeak, InFlight
  <2> QED BY <1>3, <2>1
<1>8. HintIsFree'
  BY <1>3 DEF IInv, HintIsFree
<1>9. LoopInv'
  <2>1. fat[cur] \notin heads /\ ~IsLinked(fat', fat[cur])
    BY <1>3, <1>4 DEF IInv, ChainsDisjoint
  <2> QED BY <1>1, <1>3, <2>1 DEF IInv, LoopInv, TableOK
<1> QED BY <1>5, <1>6, <1>7, <1>8, <1>9 DEF IInv

LEMMA InvDeallocLast == ASSUME IInv, DeallocLast PROVE IInv'
<1>1. /\ pc = "dealloc" /\ cur # NONE /\ ~IsNext(fat[cur]) /\ cur' = NONE
      /\ UNCHANGED <<heads, asked, base, prev, iter, first, ret>>
  BY DEF DeallocLast
<1>2. CASE fat[cur] # END
  <2>1. UNCHANGED <<fat, info, pc, got>> /\ ~IsUsed(fat, cur)
    BY <1>1, <1>2 DEF DeallocLast, IsNext, IsUsed
  <2> QED
    BY <1>1, <2>1
       DEF IInv, TypeOK, ChainsDisjoint, ChainsEnd, NoLeak, InFlight, HintIsFree,
           LoopInv, info, IsUsed, IsLinked, NoDangling, NoCrossLink, Acyclic
<1>3. CASE fat[cur] = END
  <2>1. DeallocCluster(cur, prev, "dealloc") /\ got' = got + 1
    BY <1>3 DEF DeallocLast
  <2>2. IsUsed(fat, cur)
    BY <1>3, Entries DEF IsUsed
  <2>3. /\ TableOK(fat')
        /\ \A d \in DataClusters :
              /\ IsUsed(fat', d) <=> IsUsed(fat, d) /\ d # cur
              /\ IsLinked(fat', d) <=> IsLinked(fat, d) /\ d # cur /\ d # END
        /\ nextFree' = nextFree
        /\ nextFree # NONE => fat'[nextFree] = FREE
        /\ freeCount' \in Counts
        /\ pc' \in {"dealloc", "panicked"}
    BY <1>1, <1>3, <2>1, <2>2, DeallocLocals, DeallocKeeps
  <2>4. cur \in DataClusters /\ cur \notin heads
    BY <1>1, <2>2, DeallocLocals
  <2>5. TypeOK'
    BY <1>1, <2>1, <2>3 DEF IInv, TypeOK, TableOK
  <2>6. ChainsDisjoint' /\ ChainsEnd'
    <3>1. \A h \in heads : IsUsed(fat', h) /\ ~IsLinked(fat', h)
      BY <2>3, <2>4 DEF IInv, ChainsDisjoint, TypeOK
    <3> QED BY <1>1, <2>3, <3>1 DEF TableOK, ChainsDisjoint, ChainsEnd
  <2>7. NoLeak'
    <3> SUFFICES ASSUME pc' # "panicked", NEW d \in DataClusters, IsUsed(fat', d)
                 PROVE  d \in heads \/ IsLinked(fat', d)
      BY <1>1 DEF NoLeak
    <3>1. d \in heads \/ IsLinked(fat, d)
      BY <1>1, <2>3 DEF IInv, NoLeak, InFlight
    <3>2. d # END
      BY Entries
    <3> QED BY <2>3, <3>1, <3>2
  <2>8. HintIsFree'
    BY <2>3 DEF IInv, HintIsFree
  <2>9. LoopInv'
    BY <1>1, <2>3 DEF IInv, LoopInv, TableOK
  <2> QED BY <2>5, <2>6, <2>7, <2>8, <2>9 DEF IInv
<1> QED BY <1>2, <1>3

LEMMA InvEndDeallocClusters == ASSUME IInv, EndDeallocClusters PROVE IInv'
<1>1. /\ pc = "dealloc" /\ cur = NONE /\ pc' = "ready"
      /\ ret' = Result("dealloc_clusters", iter, 0, got)
      /\ base' = NONE /\ prev' = NONE /\ iter' = 0 /\ got' = 0
      /\ UNCHANGED <<fat, info, heads, asked, first, cur>>
  BY DEF EndDeallocClusters
<1>2. TypeOK'
  <2>1. ret' \in [fn : {"none", "alloc_cluster", "alloc_clusters", "dealloc_clusters"},
                  val : Int, asked : Nat, got : Nat]
    BY <1>1 DEF Result, IInv, TypeOK
  <2> QED BY <1>1, <2>1 DEF IInv, TypeOK, info
<1>3. ChainsDisjoint' /\ ChainsEnd' /\ HintIsFree'
  BY <1>1 DEF IInv, ChainsDisjoint, ChainsEnd, HintIsFree, info, IsUsed,
              IsLinked, NoDangling, NoCrossLink, Acyclic
<1>4. NoLeak'
  BY <1>1 DEF IInv, NoLeak, InFlight, IsUsed, IsLinked, DataClusters
<1>5. LoopInv'
  BY <1>1 DEF IInv, LoopInv
<1> QED BY <1>2, <1>3, <1>4, <1>5 DEF IInv

LEMMA InvRemount == ASSUME IInv, Remount PROVE IInv'
<1>1. /\ pc = "ready" /\ ret' = NoResult /\ UNCHANGED <<fat, heads, locals>>
      /\ Mounted(fat, ToDisk(freeCount), ToDisk(nextFree), pc', nextFree', freeCount')
  BY DEF Remount
<1>2. ToDisk(freeCount) \in 0 .. U32Max
  BY U32Assumption DEF IInv, TypeOK, ToDisk, Counts
<1>3. ToDisk(nextFree) \in Nat /\ ToDisk(nextFree) # EndCluster
  BY U32Assumption, TotalClustersAssumption
     DEF IInv, TypeOK, ToDisk, DataClusters, EndCluster
<1>4. /\ pc' = "ready" /\ nextFree' \in {NONE} \cup DataClusters
      /\ nextFree' # NONE => fat[nextFree'] = FREE
      /\ freeCount' = ValidateAndFix(FSInfoNew(ToDisk(freeCount), ToDisk(nextFree))).count
  BY <1>1, <1>2, <1>3, InvTable, MountFinds
<1>5. freeCount' \in Counts
  BY <1>2, <1>4, MountCount
<1>6. TypeOK' /\ HintIsFree'
  BY <1>1, <1>4, <1>5 DEF IInv, TypeOK, HintIsFree, locals, NoResult
<1>7. ChainsDisjoint' /\ ChainsEnd' /\ NoLeak'
  BY <1>1, <1>4 DEF IInv, ChainsDisjoint, ChainsEnd, NoLeak, InFlight, IsUsed,
                    IsLinked, NoDangling, NoCrossLink, Acyclic
<1>8. LoopInv'
  BY <1>1, <1>4 DEF IInv, LoopInv
<1> QED BY <1>6, <1>7, <1>8 DEF IInv

LEMMA InvStutter == ASSUME IInv, UNCHANGED vars PROVE IInv'
  BY DEF IInv, vars, info, locals, TypeOK, ChainsDisjoint, ChainsEnd, NoLeak,
         InFlight, HintIsFree, LoopInv, IsUsed, IsLinked, NoDangling, NoCrossLink,
         Acyclic, Tails, FreeClusters

LEMMA InvNext == IInv /\ [Next]_vars => IInv'
<1> SUFFICES ASSUME IInv, [Next]_vars PROVE IInv'
  OBVIOUS
<1>1. ASSUME NEW p \in {NONE} \cup Tails(fat), AllocOne(p) PROVE IInv'
  BY <1>1, InvAllocOne
<1>2. ASSUME NEW num \in 0 .. MaxRequest, NEW p \in {NONE} \cup Tails(fat),
             BeginAllocClusters(num, p)
      PROVE  IInv'
  BY <1>2, InvBeginAllocClusters
<1>3. ASSUME NEW c \in DataClusters, NEW p \in {NONE} \cup DataClusters,
             DeallocOne(c, p)
      PROVE  IInv'
  BY <1>3, InvDeallocOne
<1>4. ASSUME NEW c \in DataClusters, NEW p \in {NONE} \cup DataClusters,
             BeginDeallocClusters(c, p)
      PROVE  IInv'
  BY <1>4, InvBeginDeallocClusters
<1> QED
  BY <1>1, <1>2, <1>3, <1>4, InvAllocStep, InvEndAllocClusters, InvDeallocNext,
     InvDeallocLast, InvEndDeallocClusters, InvRemount, InvStutter DEF Next

\* The inductive invariant holds in every reachable state.
THEOREM Invariance == ASSUME EndCluster \notin DiskHints PROVE Spec => []IInv
<1>1. Init => IInv
  BY InvInit
<1>2. IInv /\ [Next]_vars => IInv'
  BY InvNext
<1> QED BY <1>1, <1>2, PTL DEF Spec

\* Type correctness of the FAT manager (fat.rs, fsinfo.rs).
THEOREM TypeCorrect == ASSUME EndCluster \notin DiskHints PROVE Spec => []TypeOK
<1>1. IInv => TypeOK
  BY DEF IInv
<1> QED BY <1>1, Invariance, PTL

\* No two chains ever share a cluster, whatever the free count on disk says and
\* whichever calls are made, cut, refused or left half done (fat.rs:276-348).
THEOREM ChainsStayDisjoint ==
  ASSUME EndCluster \notin DiskHints PROVE Spec => []ChainsDisjoint
<1>1. IInv => ChainsDisjoint
  BY DEF IInv
<1> QED BY <1>1, Invariance, PTL

\* Every chain of every reachable table reaches an End, so every walk of
\* fat.rs:146-190 comes to an end.
THEOREM ChainsAlwaysEnd ==
  ASSUME EndCluster \notin DiskHints PROVE Spec => []ChainsEnd
<1>1. IInv => ChainsEnd
  BY DEF IInv
<1> QED BY <1>1, Invariance, PTL

\* No cluster in use is without an owner, unless a call has panicked half way.
THEOREM NothingLeaks == ASSUME EndCluster \notin DiskHints PROVE Spec => []NoLeak
<1>1. IInv => NoLeak
  BY DEF IInv
<1> QED BY <1>1, Invariance, PTL

\* The hint alloc_cluster takes unseen is free whenever it takes it.
THEOREM HintStaysFree ==
  ASSUME EndCluster \notin DiskHints PROVE Spec => []HintIsFree
<1>1. IInv => HintIsFree
  BY DEF IInv
<1> QED BY <1>1, Invariance, PTL

-----------------------------------------------------------------------------
(* alloc_cluster gives up only when nothing is free.                       *)

LEMMA SpaceNext == IInv /\ AllocFindsSpace /\ [Next]_vars => AllocFindsSpace'
<1> SUFFICES ASSUME IInv, AllocFindsSpace, [Next]_vars PROVE AllocFindsSpace'
  OBVIOUS
<1>1. ASSUME NEW p \in {NONE} \cup Tails(fat), AllocOne(p) PROVE AllocFindsSpace'
  <2> DEFINE id == SearchFreeCluster(fat, nextFree, START_CLUS_ID)
  <2>1. CASE id = NONE
    <3>1. fat' = fat
      BY <1>1, <2>1 DEF AllocOne
    <3>2. FreeClusters(fat) = {}
      BY <2>1, AllocSearch
    <3> QED BY <3>1, <3>2 DEF AllocFindsSpace, FreeClusters
  <2>2. CASE id # NONE
    <3>1. ret' \in {Result("alloc_cluster", id, 1, 1), NoResult}
      BY <1>1, <2>2 DEF AllocOne
    <3> QED BY <2>2, <3>1 DEF AllocFindsSpace, Result, NoResult
  <2> QED BY <2>1, <2>2
<1>2. ASSUME NEW num \in 0 .. MaxRequest, NEW p \in {NONE} \cup Tails(fat),
             BeginAllocClusters(num, p)
      PROVE  AllocFindsSpace'
  <2>1. ret' \in {NoResult, Result("alloc_clusters", NONE, num, 0)}
    BY <1>2 DEF BeginAllocClusters
  <2> QED BY <2>1 DEF AllocFindsSpace, Result, NoResult
<1>3. ASSUME NEW c \in DataClusters, NEW p \in {NONE} \cup DataClusters,
             DeallocOne(c, p) \/ BeginDeallocClusters(c, p)
      PROVE  AllocFindsSpace'
  BY <1>3 DEF DeallocOne, BeginDeallocClusters, AllocFindsSpace, NoResult
<1>4. CASE AllocStep \/ DeallocNext \/ DeallocLast
  <2>1. ret' = NoResult
    BY <1>4 DEF IInv, LoopInv, AllocStep, DeallocNext, DeallocLast
  <2> QED BY <2>1 DEF AllocFindsSpace, NoResult
<1>5. CASE EndAllocClusters \/ EndDeallocClusters \/ Remount
  BY <1>5 DEF EndAllocClusters, EndDeallocClusters, Remount, AllocFindsSpace,
              Result, NoResult
<1>6. CASE UNCHANGED vars
  BY <1>6 DEF vars, AllocFindsSpace, FreeClusters
<1> QED BY <1>1, <1>2, <1>3, <1>4, <1>5, <1>6 DEF Next

\* alloc_cluster returns None only when no cluster is free, for every hint and
\* every count an FSInfo sector may hold (fat.rs:193-222, 276-290).
THEOREM AllocationFindsSpace ==
  ASSUME EndCluster \notin DiskHints PROVE Spec => []AllocFindsSpace
<1>1. Init => AllocFindsSpace
  BY DEF Init, AllocFindsSpace, NoResult
<1>2. IInv /\ AllocFindsSpace /\ [Next]_vars => AllocFindsSpace'
  BY SpaceNext
<1> QED BY <1>1, <1>2, Invariance, PTL DEF Spec

-----------------------------------------------------------------------------
(* The count, when the FSInfo sector's was exact at mount.                 *)

\* A known count is exact, the running alloc_clusters has as many clusters
\* left as it still needs, and it has got one in each iteration so far.
CountInv ==
    /\ CountExact /\ NoPanic /\ AllOrNothing
    /\ pc = "alloc" =>
        /\ freeCount # NONE /\ asked - iter <= freeCount
        /\ got = iter
        /\ iter > 0 => first # NONE

\* The free clusters can be counted, and a u32 is wide enough for it.
LEMMA FreeCounts ==
  ASSUME NEW f
  PROVE  /\ IsFiniteSet(FreeClusters(f))
         /\ Cardinality(FreeClusters(f)) \in 0 .. TotalClusters
<1>1. START_CLUS_ID \in Int /\ EndCluster - 1 \in Int
  BY TotalClustersAssumption DEF EndCluster
<1>2. /\ IsFiniteSet(DataClusters)
      /\ Cardinality(DataClusters) = TotalClusters
  BY <1>1, FS_Interval, TotalClustersAssumption DEF DataClusters, EndCluster
<1>3. FreeClusters(f) \in SUBSET DataClusters
  BY DEF FreeClusters
<1>4. /\ IsFiniteSet(FreeClusters(f))
      /\ Cardinality(FreeClusters(f)) <= TotalClusters
  BY <1>2, <1>3, FS_Subset
<1>5. Cardinality(FreeClusters(f)) \in Nat
  BY <1>4, FS_CardinalityType
<1> QED BY <1>4, <1>5, TotalClustersAssumption

\* Taking a free cluster makes them one fewer; there was at least one.
LEMMA TakeOne ==
  ASSUME NEW f, NEW g, NEW id \in DataClusters, f[id] = FREE,
         FreeClusters(g) = FreeClusters(f) \ {id}
  PROVE  /\ Cardinality(FreeClusters(g)) = Cardinality(FreeClusters(f)) - 1
         /\ Cardinality(FreeClusters(f)) > 0
<1>1. id \in FreeClusters(f)
  BY DEF FreeClusters
<1>2. Cardinality(FreeClusters(g)) = Cardinality(FreeClusters(f)) - 1
  BY <1>1, FreeCounts, FS_RemoveElement
<1>3. /\ Cardinality(FreeClusters(g)) \in 0 .. TotalClusters
      /\ Cardinality(FreeClusters(f)) \in 0 .. TotalClusters
  BY FreeCounts
<1> QED BY <1>2, <1>3, TotalClustersAssumption

\* Giving back a cluster that was not free makes them one more.
LEMMA GiveOne ==
  ASSUME NEW f, NEW g, NEW c \in DataClusters, IsUsed(f, c),
         FreeClusters(g) = FreeClusters(f) \cup {c}
  PROVE  Cardinality(FreeClusters(g)) = Cardinality(FreeClusters(f)) + 1
<1>1. c \notin FreeClusters(f)
  BY DEF FreeClusters, IsUsed
<1> QED BY <1>1, FreeCounts, FS_AddElement

LEMMA CountInit ==
  ASSUME EndCluster \notin DiskHints, CountDrift = {0} PROVE Init => CountInv
<1> SUFFICES ASSUME Init PROVE CountInv
  OBVIOUS
<1>1. PICK count \in DiskCounts(fat), next \in DiskHints :
         Mounted(fat, count, next, pc, nextFree, freeCount)
  BY DEF Init
<1>2. count \in 0 .. U32Max /\ next \in Nat /\ next # EndCluster
  BY <1>1, DiskHintsAssumption, U32Assumption DEF DiskCounts
<1>3. pc = "ready" /\ freeCount = ValidateAndFix(FSInfoNew(count, next)).count
  BY <1>1, <1>2, InitTable, MountFinds
<1>4. count \in {U32Max, Cardinality(FreeClusters(fat))}
  BY <1>1, FreeCounts DEF DiskCounts
<1>5. freeCount # NONE => freeCount = count /\ count # U32Max
  BY <1>2, <1>3 DEF FSInfoNew, ValidateAndFix
<1>6. CountExact
  BY <1>4, <1>5 DEF CountExact
<1> QED BY <1>3, <1>6 DEF CountInv, NoPanic, AllOrNothing, Init, NoResult

\* One alloc_cluster keeps an exact count exact and does not underflow it.
LEMMA CountAlloc ==
  ASSUME IInv, CountInv, NEW id,
         id = SearchFreeCluster(fat, nextFree, START_CLUS_ID), id # NONE,
         NEW p \in {NONE} \cup Tails(fat), NEW resume, resume # "panicked",
         AllocCluster(id, p, resume)
  PROVE  /\ CountExact' /\ pc' = resume
         /\ freeCount = NONE => freeCount' = NONE
         /\ freeCount # NONE => freeCount' # NONE /\ freeCount' = freeCount - 1
<1>1. /\ id \in DataClusters /\ fat[id] = FREE
      /\ FreeClusters(fat') = FreeClusters(fat) \ {id}
      /\ IF freeCount = 0 /\ OverflowChecks
         THEN pc' = "panicked"
         ELSE pc' = resume /\ freeCount' = Decremented(freeCount)
  BY AllocKeeps
<1>2. /\ Cardinality(FreeClusters(fat')) = Cardinality(FreeClusters(fat)) - 1
      /\ Cardinality(FreeClusters(fat)) > 0
      /\ Cardinality(FreeClusters(fat)) \in Nat
  <2>1. /\ Cardinality(FreeClusters(fat')) = Cardinality(FreeClusters(fat)) - 1
        /\ Cardinality(FreeClusters(fat)) > 0
    BY <1>1, TakeOne
  <2>2. Cardinality(FreeClusters(fat)) \in 0 .. TotalClusters
    BY FreeCounts
  <2> QED BY <2>1, <2>2, TotalClustersAssumption
<1>3. freeCount # NONE => freeCount = Cardinality(FreeClusters(fat))
  BY DEF CountInv, CountExact, NoPanic
<1>4. pc' = resume /\ freeCount' = Decremented(freeCount)
  BY <1>1, <1>2, <1>3
<1>5. /\ freeCount = NONE => freeCount' = NONE
      /\ freeCount # NONE => freeCount' = freeCount - 1 /\ freeCount' # NONE
  BY <1>2, <1>3, <1>4 DEF Decremented
<1>6. CountExact'
  BY <1>2, <1>3, <1>5 DEF CountExact
<1> QED BY <1>4, <1>5, <1>6

\* One dealloc_cluster keeps an exact count exact and does not overflow it.
LEMMA CountDealloc ==
  ASSUME IInv, CountInv, NEW c \in DataClusters, IsUsed(fat, c),
         NEW p \in {NONE} \cup DataClusters,
         IF p = NONE THEN ~IsLinked(fat, c) ELSE fat[p] = c,
         NEW resume, resume # "panicked", DeallocCluster(c, p, resume)
  PROVE  CountExact' /\ pc' = resume
<1>1. /\ FreeClusters(fat') = FreeClusters(fat) \cup {c}
      /\ IF freeCount = U32Max /\ OverflowChecks
         THEN pc' = "panicked"
         ELSE pc' = resume /\ freeCount' = Incremented(freeCount)
  BY DeallocKeeps
<1>2. /\ Cardinality(FreeClusters(fat')) = Cardinality(FreeClusters(fat)) + 1
      /\ Cardinality(FreeClusters(fat)) \in 0 .. TotalClusters
  BY <1>1, GiveOne, FreeCounts
<1>3. freeCount # NONE => freeCount = Cardinality(FreeClusters(fat))
  BY DEF CountInv, CountExact, NoPanic
<1>4. freeCount # U32Max
  BY <1>2, <1>3, U32Assumption, TotalClustersAssumption
<1>5. pc' = resume /\ freeCount' = Incremented(freeCount)
  BY <1>1, <1>4
<1>6. CountExact'
  BY <1>2, <1>3, <1>4, <1>5 DEF CountExact, Incremented
<1> QED BY <1>5, <1>6

LEMMA CountNext == IInv /\ CountInv /\ [Next]_vars => CountInv'
<1> SUFFICES ASSUME IInv, CountInv, [Next]_vars PROVE CountInv'
  OBVIOUS
<1> USE DEF NoPanic
<1>1. ASSUME NEW p \in {NONE} \cup Tails(fat), AllocOne(p) PROVE CountInv'
  <2> DEFINE id == SearchFreeCluster(fat, nextFree, START_CLUS_ID)
  <2>1. CASE id = NONE
    <3>1. /\ UNCHANGED <<fat, info, pc>> /\ pc = "ready"
          /\ ret'.fn = "alloc_cluster"
      BY <1>1, <2>1 DEF AllocOne, Result
    <3> QED BY <3>1 DEF CountInv, CountExact, AllOrNothing, FreeClusters, info
  <2>2. CASE id # NONE
    <3>1. /\ AllocCluster(id, p, "ready")
          /\ ret' \in {Result("alloc_cluster", id, 1, 1), NoResult}
      BY <1>1, <2>2 DEF AllocOne
    <3>2. CountExact' /\ pc' = "ready"
      BY <2>2, <3>1, CountAlloc
    <3>3. AllOrNothing'
      BY <3>1 DEF AllOrNothing, Result, NoResult
    <3> QED BY <3>2, <3>3 DEF CountInv
  <2> QED BY <2>1, <2>2
<1>2. ASSUME NEW num \in 0 .. MaxRequest, NEW p \in {NONE} \cup Tails(fat),
             BeginAllocClusters(num, p)
      PROVE  CountInv'
  <2>1. UNCHANGED <<fat, info>> /\ pc = "ready" /\ num \in Nat
    BY <1>2, MaxRequestAssumption DEF BeginAllocClusters
  <2>2. CASE freeCount # NONE /\ num <= freeCount
    BY <1>2, <2>1, <2>2
       DEF BeginAllocClusters, CountInv, CountExact, AllOrNothing, FreeClusters,
           info, NoResult
  <2>3. CASE ~(freeCount # NONE /\ num <= freeCount)
    BY <1>2, <2>1, <2>3
       DEF BeginAllocClusters, CountInv, CountExact, AllOrNothing, FreeClusters,
           info, Result
  <2> QED BY <2>2, <2>3
<1>3. ASSUME NEW c \in DataClusters, NEW p \in {NONE} \cup DataClusters,
             DeallocOne(c, p)
      PROVE  CountInv'
  <2>1. pc = "ready" /\ MayDealloc(c, p) /\ ret' = NoResult
    BY <1>3 DEF DeallocOne
  <2>2. CASE IsUsed(fat, c)
    <3>1. IF p = NONE THEN ~IsLinked(fat, c) ELSE fat[p] = c
      BY <2>1, <2>2, MayDeallocNamesPrev
    <3>2. DeallocCluster(c, p, "ready")
      BY <1>3, <2>2 DEF DeallocOne
    <3>3. CountExact' /\ pc' = "ready"
      BY <2>2, <3>1, <3>2, CountDealloc
    <3> QED BY <2>1, <3>3 DEF CountInv, AllOrNothing, NoResult
  <2>3. CASE ~IsUsed(fat, c)
    <3>1. UNCHANGED <<fat, info, pc>>
      BY <1>3, <2>3 DEF DeallocOne
    <3> QED BY <2>1, <3>1 DEF CountInv, CountExact, AllOrNothing, NoResult,
                              FreeClusters, info
  <2> QED BY <2>2, <2>3
<1>4. ASSUME NEW c \in DataClusters, NEW p \in {NONE} \cup DataClusters,
             BeginDeallocClusters(c, p)
      PROVE  CountInv'
  BY <1>4 DEF BeginDeallocClusters, CountInv, CountExact, AllOrNothing, NoResult,
              FreeClusters, info
<1>5. CASE AllocStep
  <2> DEFINE id == SearchFreeCluster(fat, nextFree, START_CLUS_ID)
  <2>1. /\ pc = "alloc" /\ iter < asked /\ ret' = NoResult
        /\ prev \in {NONE} \cup Tails(fat) /\ iter' = iter + 1 /\ asked' = asked
        /\ first' = IF iter = 0 THEN id ELSE first
        /\ iter \in Nat /\ asked \in Nat
    BY <1>5, MaxRequestAssumption DEF AllocStep, IInv, LoopInv, TypeOK
  <2>2. /\ freeCount # NONE /\ asked - iter <= freeCount /\ got = iter
        /\ iter > 0 => first # NONE
        /\ freeCount = Cardinality(FreeClusters(fat))
    BY <2>1 DEF CountInv, CountExact
  <2>3. id # NONE
    <3>1. Cardinality(FreeClusters(fat)) \in Nat
      BY FreeCounts, TotalClustersAssumption
    <3>2. FreeClusters(fat) # {}
      BY <2>1, <2>2, <3>1, FS_EmptySet
    <3> QED BY <3>2, AllocSearch
  <2>4. AllocCluster(id, prev, "alloc") /\ got' = got + 1
    BY <1>5, <2>3 DEF AllocStep
  <2>5. CountExact' /\ pc' = "alloc" /\ freeCount' # NONE /\ freeCount' = freeCount - 1
    BY <2>1, <2>2, <2>3, <2>4, CountAlloc
  <2> HIDE DEF id
  <2>6. freeCount \in Int
    BY FreeCounts, <2>2
  <2> QED BY <2>1, <2>2, <2>3, <2>4, <2>5, <2>6 DEF CountInv, AllOrNothing, NoResult
<1>6. CASE EndAllocClusters
  <2>1. /\ pc = "alloc" /\ iter = asked /\ pc' = "ready" /\ UNCHANGED <<fat, info>>
        /\ ret' = Result("alloc_clusters", first, asked, got) /\ asked \in Nat
    BY <1>6, MaxRequestAssumption DEF EndAllocClusters, IInv, TypeOK
  <2>2. got = asked /\ (first = NONE => asked = 0)
    BY <2>1 DEF CountInv, IInv, LoopInv
  <2>3. AllOrNothing'
    BY <2>1, <2>2 DEF AllOrNothing, Result
  <2> QED BY <2>1, <2>3 DEF CountInv, CountExact, FreeClusters, info
<1>7. CASE DeallocNext
  <2>1. /\ pc = "dealloc" /\ cur # NONE /\ IsUsed(fat, cur) /\ ret' = NoResult
        /\ DeallocCluster(cur, prev, "dealloc")
    BY <1>7 DEF DeallocNext, IsNext, IsUsed, IInv, LoopInv
  <2>2. CountExact' /\ pc' = "dealloc"
    BY <2>1, DeallocLocals, CountDealloc
  <2> QED BY <2>1, <2>2 DEF CountInv, AllOrNothing, NoResult
<1>8. CASE DeallocLast
  <2>1. pc = "dealloc" /\ cur # NONE /\ ret' = NoResult
    BY <1>8 DEF DeallocLast, IInv, LoopInv
  <2>2. CASE fat[cur] = END
    <3>1. DeallocCluster(cur, prev, "dealloc") /\ IsUsed(fat, cur)
      BY <1>8, <2>2, Entries DEF DeallocLast, IsUsed
    <3>2. CountExact' /\ pc' = "dealloc"
      BY <2>1, <3>1, DeallocLocals, CountDealloc
    <3> QED BY <2>1, <3>2 DEF CountInv, AllOrNothing, NoResult
  <2>3. CASE fat[cur] # END
    <3>1. UNCHANGED <<fat, info, pc>>
      BY <1>8, <2>3 DEF DeallocLast
    <3> QED BY <2>1, <3>1 DEF CountInv, CountExact, AllOrNothing, NoResult,
                              FreeClusters, info
  <2> QED BY <2>2, <2>3
<1>9. CASE EndDeallocClusters
  BY <1>9 DEF EndDeallocClusters, CountInv, CountExact, AllOrNothing, Result,
              FreeClusters, info
<1>10. CASE Remount
  <2>1. /\ ret' = NoResult /\ UNCHANGED fat
        /\ Mounted(fat, ToDisk(freeCount), ToDisk(nextFree), pc', nextFree', freeCount')
    BY <1>10 DEF Remount
  <2>2. ToDisk(freeCount) \in 0 .. U32Max
    BY U32Assumption DEF IInv, TypeOK, ToDisk, Counts
  <2>3. ToDisk(nextFree) \in Nat /\ ToDisk(nextFree) # EndCluster
    BY U32Assumption, TotalClustersAssumption
       DEF IInv, TypeOK, ToDisk, DataClusters, EndCluster
  <2>4. /\ pc' = "ready"
        /\ freeCount' = ValidateAndFix(FSInfoNew(ToDisk(freeCount), ToDisk(nextFree))).count
    BY <2>1, <2>2, <2>3, InvTable, MountFinds
  <2>5. freeCount' # NONE => freeCount' = freeCount
    BY <2>2, <2>4 DEF FSInfoNew, ValidateAndFix, ToDisk
  <2> QED BY <2>1, <2>4, <2>5 DEF CountInv, CountExact, AllOrNothing, NoResult,
                                  FreeClusters
<1>11. CASE UNCHANGED vars
  BY <1>11 DEF vars, info, locals, CountInv, CountExact, AllOrNothing, FreeClusters
<1> QED BY <1>1, <1>2, <1>3, <1>4, <1>5, <1>6, <1>7, <1>8, <1>9, <1>10, <1>11 DEF Next

THEOREM CountInvariance ==
  ASSUME EndCluster \notin DiskHints, CountDrift = {0} PROVE Spec => []CountInv
<1>1. Init => CountInv
  BY CountInit
<1>2. IInv /\ CountInv /\ [Next]_vars => CountInv'
  BY CountNext
<1> QED BY <1>1, <1>2, Invariance, PTL DEF Spec

\* A count that was exact at mount stays exact through every call, every
\* iteration and every remount (fat.rs:285, 320, 328; fsinfo.rs:20-47).
THEOREM CountStaysExact ==
  ASSUME EndCluster \notin DiskHints, CountDrift = {0} PROVE Spec => []CountExact
<1>1. CountInv => CountExact
  BY DEF CountInv
<1> QED BY <1>1, CountInvariance, PTL

\* With such a count alloc_clusters never hands out part of what was asked,
\* although its loop ignores a failed alloc_cluster (fat.rs:292-307).
THEOREM AllocationIsAllOrNothing ==
  ASSUME EndCluster \notin DiskHints, CountDrift = {0} PROVE Spec => []AllOrNothing
<1>1. CountInv => AllOrNothing
  BY DEF CountInv
<1> QED BY <1>1, CountInvariance, PTL

\* With such a count no call panics: neither the assertion of the search nor
\* the arithmetic on the count fails (fat.rs:195-198, 285, 320, 328).
THEOREM NeverPanics ==
  ASSUME EndCluster \notin DiskHints, CountDrift = {0} PROVE Spec => []NoPanic
<1>1. CountInv => NoPanic
  BY DEF CountInv
<1> QED BY <1>1, CountInvariance, PTL
=============================================================================
