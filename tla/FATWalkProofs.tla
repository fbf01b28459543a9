--------------------------- MODULE FATWalkProofs ---------------------------
(***************************************************************************)
(* Proofs about FATWalk, for every number of clusters and every table the  *)
(* calls can produce: the walks agree, and the manager seen through        *)
(* all_clusters implements ClusterPool.                                    *)
(*                                                                         *)
(* The argument: a chain is a sequence that follows the links from a       *)
(* cluster nothing leads to up to an END (IsChain).  Every cluster in use  *)
(* is in such a sequence, by taking a longest one, and in no two of them,  *)
(* by going back from where they meet.  So a set of chains that has every  *)
(* cluster in use is the set of all of them (Complete), and it is enough   *)
(* to name the chains after a step: no walk is followed again.             *)
(***************************************************************************)
EXTENDS FATWalk, FATProofs, SequenceTheorems

USE DEF START_CLUS_ID, FREE, NONE

-----------------------------------------------------------------------------
(* Induction on numbers.                                                   *)

LEMMA LeastOf ==
    ASSUME NEW S \in SUBSET Nat, S # {}
    PROVE  \E x \in S : \A y \in S : x <= y
<1> DEFINE R == {p \in Nat \X Nat : p[1] < p[2]}
<1>1. IsWellFoundedOn(R, Nat)
    <2>1. OpToRel(<, Nat) = R
        BY DEF OpToRel
    <2> QED
        BY <2>1, NatLessThanWellFounded
<1>2. PICK x \in S : \A y \in S : <<y, x>> \notin R
    <2> HIDE DEF R
    <2> QED
        BY <1>1, WFMin
<1>3. ASSUME NEW y \in S PROVE x <= y
    <2>1. <<y, x>> \in Nat \X Nat /\ <<y, x>>[1] = y /\ <<y, x>>[2] = x
        OBVIOUS
    <2>2. ~(y < x)
        BY <1>2, <2>1
    <2> QED
        BY <2>2
<1> QED
    BY <1>3

LEMMA UpTo ==
    ASSUME NEW N \in Nat, NEW S, 0 \in S, \A i \in 0 .. N - 1 : i \in S => i + 1 \in S
    PROVE  \A i \in 0 .. N : i \in S
<1> DEFINE Out == {i \in 0 .. N : i \notin S}
<1>1. ASSUME Out # {} PROVE FALSE
    <2>1. Out \in SUBSET Nat
        OBVIOUS
    <2>2. PICK x \in Out : \A y \in Out : x <= y
        <3> HIDE DEF Out
        <3> QED
            BY <1>1, <2>1, LeastOf
    <2>3. x \in 0 .. N /\ x \notin S
        OBVIOUS
    <2>4. x # 0 /\ x - 1 \in 0 .. N - 1 /\ x - 1 \in 0 .. N
        BY <2>3
    <2>5. x - 1 \in S
        <3>1. x - 1 \notin Out
            BY <2>2, <2>4
        <3> QED
            BY <2>4, <3>1
    <2>6. (x - 1) + 1 \in S
        BY <2>4, <2>5
    <2> QED
        BY <2>3, <2>4, <2>6
<1> QED
    BY <1>1

-----------------------------------------------------------------------------
(* Paths and chains.                                                       *)

\* w follows the links of the table f.
IsPath(f, w) ==
    /\ w \in Seq(DataClusters) /\ Len(w) \in Nat \ {0}
    /\ \A i \in 1 .. Len(w) - 1 : f[w[i]] = w[i + 1]

\* And it cannot be prolonged, at either end.
IsChain(f, w) ==
    /\ IsPath(f, w)
    /\ f[w[Len(w)]] = END
    /\ ~IsLinked(f, w[1])

\* A chain goes through c.
InChain(f, w, c) == IsChain(f, w) /\ \E i \in 1 .. Len(w) : w[i] = c

LEMMA PathElements ==
    ASSUME NEW f, NEW w, IsPath(f, w)
    PROVE  \A i \in 1 .. Len(w) : w[i] \in DataClusters
BY ElementOfSeq DEF IsPath

\* No cluster is twice on a path, because the table has no cycle; so a path has
\* at most as many clusters as there are.
LEMMA PathsDoNotRepeat ==
    ASSUME NEW f, TableOK(f), NEW w, IsPath(f, w)
    PROVE  /\ \A i, j \in 1 .. Len(w) : w[i] = w[j] => i = j
           /\ Len(w) <= TotalClusters
<1>1. /\ w \in Seq(DataClusters) /\ Len(w) \in Nat \ {0}
      /\ \A i \in 1 .. Len(w) - 1 : f[w[i]] = w[i + 1]
    BY DEF IsPath
<1>2. ASSUME NEW i \in 1 .. Len(w), NEW j \in 1 .. Len(w), i < j, w[i] = w[j]
      PROVE  FALSE
    <2> DEFINE S == {w[k] : k \in i .. j - 1}
    <2>1. \A k \in i .. j - 1 : k \in 1 .. Len(w) - 1 /\ k + 1 \in 1 .. Len(w)
        BY <1>1, <1>2
    <2>2. S \in SUBSET DataClusters /\ w[i] \in S
        <3>1. i \in i .. j - 1
            BY <1>2
        <3>2. \A k \in i .. j - 1 : w[k] \in DataClusters
            BY <1>1, <2>1, PathElements
        <3> QED
            BY <3>1, <3>2
    <2>3. \A c \in S : f[c] \in S
        <3> SUFFICES ASSUME NEW k \in i .. j - 1 PROVE f[w[k]] \in S
            OBVIOUS
        <3>1. f[w[k]] = w[k + 1]
            BY <1>1, <2>1
        <3>2. CASE k + 1 = j
            BY <1>2, <2>2, <3>1, <3>2
        <3>3. CASE k + 1 # j
            <4>1. k + 1 \in i .. j - 1
                BY <1>1, <1>2, <3>3
            <4> QED
                BY <3>1, <4>1
        <3> QED
            BY <3>2, <3>3
    <2> HIDE DEF S
    <2> QED
        BY <2>2, <2>3 DEF TableOK, Acyclic
<1>3. \A i, j \in 1 .. Len(w) : w[i] = w[j] => i = j
    <2> TAKE i, j \in 1 .. Len(w)
    <2>1. i < j \/ j < i \/ i = j
        BY <1>1
    <2> QED
        BY <1>2, <2>1
<1>4. Len(w) <= TotalClusters
    <2>1. w \in [1 .. Len(w) -> DataClusters] /\ DOMAIN w = 1 .. Len(w)
        BY <1>1, LenProperties
    <2>2. w \in Injection(1 .. Len(w), DataClusters)
        BY <1>3, <2>1 DEF Injection, IsInjective
    <2>3. IsFiniteSet(DataClusters) /\ Cardinality(DataClusters) = TotalClusters
        <3>1. DataClusters = 2 .. TotalClusters + 1 /\ TotalClusters \in Nat
            BY TotalClustersAssumption DEF DataClusters, EndCluster
        <3>2. (TotalClusters + 1) - 2 + 1 = TotalClusters /\ 2 <= TotalClusters + 1
            BY TotalClustersAssumption
        <3>3. TotalClusters + 1 \in Int /\ 2 \in Int
            BY <3>1
        <3> QED
            BY <3>1, <3>2, <3>3, FS_Interval
    <2>4. Cardinality(1 .. Len(w)) <= Cardinality(DataClusters)
        BY <2>2, <2>3, FS_Injection
    <2>5. Cardinality(1 .. Len(w)) = Len(w)
        BY <1>1, FS_Interval
    <2> QED
        BY <2>3, <2>4, <2>5
<1> QED
    BY <1>3, <1>4

\* Paths grow at both ends.
LEMMA PathGrows ==
    ASSUME NEW f, NEW w, IsPath(f, w), NEW c \in DataClusters, f[w[Len(w)]] = c
    PROVE  LET v == Append(w, c) IN
           /\ IsPath(f, v) /\ Len(v) = Len(w) + 1
           /\ \A i \in 1 .. Len(w) : v[i] = w[i]
<1> DEFINE v == Append(w, c)
<1>1. /\ w \in Seq(DataClusters) /\ Len(w) \in Nat \ {0}
      /\ \A i \in 1 .. Len(w) - 1 : f[w[i]] = w[i + 1]
    BY DEF IsPath
<1>2. /\ v \in Seq(DataClusters) /\ Len(v) = Len(w) + 1
      /\ \A i \in 1 .. Len(w) : v[i] = w[i]
      /\ v[Len(w) + 1] = c
    BY <1>1, AppendProperties
<1> HIDE DEF v
<1>3. \A i \in 1 .. Len(v) - 1 : f[v[i]] = v[i + 1]
    <2> TAKE i \in 1 .. Len(v) - 1
    <2>1. i \in 1 .. Len(w)
        BY <1>1, <1>2
    <2>2. CASE i = Len(w)
        BY <1>1, <1>2, <2>1, <2>2
    <2>3. CASE i # Len(w)
        <3>1. i \in 1 .. Len(w) - 1 /\ i + 1 \in 1 .. Len(w)
            BY <1>1, <2>1, <2>3
        <3> QED
            BY <1>1, <1>2, <2>1, <3>1
    <2> QED
        BY <2>2, <2>3
<1> QED
    BY <1>1, <1>2, <1>3 DEF IsPath, v

LEMMA PathGrowsBack ==
    ASSUME NEW f, NEW w, IsPath(f, w), NEW c \in DataClusters, f[c] = w[1]
    PROVE  LET v == <<c>> \o w IN
           /\ IsPath(f, v) /\ Len(v) = Len(w) + 1
           /\ \A i \in 1 .. Len(w) : v[i + 1] = w[i]
<1> DEFINE v == <<c>> \o w
<1>1. /\ w \in Seq(DataClusters) /\ Len(w) \in Nat \ {0}
      /\ \A i \in 1 .. Len(w) - 1 : f[w[i]] = w[i + 1]
    BY DEF IsPath
<1>2. <<c>> \in Seq(DataClusters) /\ Len(<<c>>) = 1 /\ <<c>>[1] = c
    OBVIOUS
<1>3. /\ v \in Seq(DataClusters) /\ Len(v) = 1 + Len(w)
      /\ \A i \in 1 .. 1 + Len(w) : v[i] = IF i <= 1 THEN <<c>>[i] ELSE w[i - 1]
    <2>1. /\ v \in Seq(DataClusters) /\ Len(v) = Len(<<c>>) + Len(w)
          /\ \A i \in 1 .. Len(<<c>>) + Len(w) :
                 v[i] = IF i <= Len(<<c>>) THEN <<c>>[i] ELSE w[i - Len(<<c>>)]
        BY <1>1, <1>2, ConcatProperties
    <2> HIDE DEF v
    <2> QED
        BY <1>2, <2>1
<1> HIDE DEF v
<1>4. v[1] = c
    BY <1>1, <1>2, <1>3
<1>5. \A i \in 1 .. Len(w) : v[i + 1] = w[i]
    <2> TAKE i \in 1 .. Len(w)
    <2>1. i + 1 \in 1 .. 1 + Len(w) /\ ~(i + 1 <= 1) /\ (i + 1) - 1 = i
        BY <1>1
    <2> QED
        BY <1>3, <2>1
<1>6. \A i \in 1 .. Len(v) - 1 : f[v[i]] = v[i + 1]
    <2> TAKE i \in 1 .. Len(v) - 1
    <2>1. i \in 1 .. Len(w)
        BY <1>1, <1>3
    <2>2. CASE i = 1
        BY <1>1, <1>4, <1>5, <2>1, <2>2
    <2>3. CASE i # 1
        <3>1. i - 1 \in 1 .. Len(w) - 1 /\ i - 1 \in 1 .. Len(w) /\ (i - 1) + 1 = i
            BY <1>1, <2>1, <2>3
        <3>2. v[i] = w[i - 1] /\ v[i + 1] = w[i] /\ f[w[i - 1]] = w[i]
            BY <1>1, <1>5, <2>1, <3>1
        <3> QED
            BY <3>2
    <2> QED
        BY <2>2, <2>3
<1> QED
    BY <1>1, <1>3, <1>5, <1>6 DEF IsPath, v

\* Every cluster in use is in a chain: one of the longest paths through it.
LEMMA UsedIsInChain ==
    ASSUME NEW f, TableOK(f), NEW c \in DataClusters, IsUsed(f, c)
    PROVE  \E w : InChain(f, w, c)
<1> DEFINE Paths == {w \in Seq(DataClusters) : IsPath(f, w) /\ \E i \in 1 .. Len(w) : w[i] = c}
           Left == {k \in 0 .. TotalClusters : \E w \in Paths : Len(w) = TotalClusters - k}
<1>1. TotalClusters \in Nat \ {0}
    BY TotalClustersAssumption
<1>2. <<c>> \in Paths /\ Len(<<c>>) = 1
    <2>1. <<c>> \in Seq(DataClusters) /\ Len(<<c>>) = 1 /\ <<c>>[1] = c
        OBVIOUS
    <2> QED
        BY <2>1 DEF IsPath
<1>3. \A w \in Paths : Len(w) <= TotalClusters /\ Len(w) \in Nat \ {0} /\ IsPath(f, w)
    BY PathsDoNotRepeat DEF IsPath
<1> HIDE DEF Paths
<1>4. Left \in SUBSET Nat /\ Left # {}
    <2>1. TotalClusters - 1 \in Left
        <3>1. TotalClusters - 1 \in 0 .. TotalClusters /\ 1 = TotalClusters - (TotalClusters - 1)
            BY <1>1
        <3> QED
            BY <1>2, <3>1
    <2>2. Left \subseteq 0 .. TotalClusters
        OBVIOUS
    <2>3. 0 .. TotalClusters \subseteq Nat
        BY <1>1
    <2> HIDE DEF Left
    <2> QED
        BY <2>1, <2>2, <2>3
<1>5. PICK k \in Left : \A j \in Left : k <= j
    <2> HIDE DEF Left
    <2> QED
        BY <1>4, LeastOf
<1>6. PICK w \in Paths : Len(w) = TotalClusters - k
    OBVIOUS
<1>7. ASSUME NEW v \in Paths PROVE Len(v) <= Len(w)
    <2>1. Len(v) \in 1 .. TotalClusters /\ k \in Int
        BY <1>1, <1>3, <1>4
    <2>2. TotalClusters - Len(v) \in 0 .. TotalClusters /\ Len(v) = TotalClusters - (TotalClusters - Len(v))
        BY <1>1, <2>1
    <2>3. TotalClusters - Len(v) \in Left
        BY <2>2
    <2>4. k <= TotalClusters - Len(v)
        BY <1>5, <2>3
    <2> QED
        BY <1>1, <1>6, <2>1, <2>4
<1>8. IsPath(f, w) /\ \E i \in 1 .. Len(w) : w[i] = c
    BY DEF Paths
<1> HIDE DEF Left
<1>9. /\ w \in Seq(DataClusters) /\ Len(w) \in Nat \ {0}
      /\ \A i \in 1 .. Len(w) - 1 : f[w[i]] = w[i + 1]
    BY <1>8 DEF IsPath
<1>10. \A i \in 1 .. Len(w) : w[i] \in DataClusters
    BY <1>8, PathElements
<1>11. f[w[Len(w)]] \notin DataClusters
    <2>1. SUFFICES ASSUME f[w[Len(w)]] \in DataClusters PROVE FALSE
        OBVIOUS
    <2> DEFINE v == Append(w, f[w[Len(w)]])
    <2>2. /\ IsPath(f, v) /\ Len(v) = Len(w) + 1
          /\ \A i \in 1 .. Len(w) : v[i] = w[i]
        BY <1>8, <2>1, PathGrows
    <2> HIDE DEF v
    <2>3. \E i \in 1 .. Len(v) : v[i] = c
        <3>1. PICK i \in 1 .. Len(w) : w[i] = c
            BY <1>8
        <3>2. i \in 1 .. Len(v) /\ v[i] = c
            BY <1>9, <2>2, <3>1
        <3> QED
            BY <3>2
    <2>4. v \in Paths
        BY <2>2, <2>3 DEF Paths, IsPath
    <2> QED
        BY <1>7, <1>9, <2>2, <2>4
<1>12. ~IsLinked(f, w[1])
    <2>1. SUFFICES ASSUME NEW d \in DataClusters, f[d] = w[1] PROVE FALSE
        BY DEF IsLinked
    <2> DEFINE v == <<d>> \o w
    <2>2. /\ IsPath(f, v) /\ Len(v) = Len(w) + 1
          /\ \A i \in 1 .. Len(w) : v[i + 1] = w[i]
        BY <1>8, <2>1, PathGrowsBack
    <2> HIDE DEF v
    <2>3. \E i \in 1 .. Len(v) : v[i] = c
        <3>1. PICK i \in 1 .. Len(w) : w[i] = c
            BY <1>8
        <3>2. i + 1 \in 1 .. Len(v) /\ v[i + 1] = c
            BY <1>9, <2>2, <3>1
        <3> QED
            BY <3>2
    <2>4. v \in Paths
        BY <2>2, <2>3 DEF Paths, IsPath
    <2> QED
        BY <1>7, <1>9, <2>2, <2>4
<1>13. IsUsed(f, w[Len(w)])
    <2>1. PICK i \in 1 .. Len(w) : w[i] = c
        BY <1>8
    <2>2. CASE i = Len(w)
        BY <2>1, <2>2
    <2>3. CASE i # Len(w)
        <3>1. Len(w) - 1 \in 1 .. Len(w) - 1 /\ Len(w) - 1 \in 1 .. Len(w) /\ Len(w) \in 1 .. Len(w)
            BY <1>9, <2>1, <2>3
        <3>2. f[w[Len(w) - 1]] = w[Len(w)] /\ w[Len(w)] \in DataClusters /\ w[Len(w) - 1] \in DataClusters
            BY <1>9, <1>10, <3>1
        <3> QED
            BY <3>2, Entries DEF TableOK, NoDangling, IsNext
    <2> QED
        BY <2>2, <2>3
<1>14. f[w[Len(w)]] = END
    <2>1. w[Len(w)] \in DataClusters
        BY <1>9, <1>10
    <2>2. w[Len(w)] \in EntryIds
        BY <2>1, TotalClustersAssumption DEF EntryIds, DataClusters, EndCluster
    <2> QED
        BY <1>11, <1>13, <2>2 DEF TableOK, FATEntries, IsUsed
<1> QED
    BY <1>8, <1>12, <1>14 DEF InChain, IsChain

-----------------------------------------------------------------------------
(* The walks.                                                              *)

\* Where a walk along w is after n steps.
Reached(w, n) == IF n < Len(w) THEN n + 1 ELSE Len(w)

\* next_cluster along a chain.
LEMMA NextOnChain ==
    ASSUME NEW f, TableOK(f), NEW w, IsChain(f, w), NEW k \in 1 .. Len(w)
    PROVE  /\ w[k] \in DataClusters /\ w[k] # NONE
           /\ NextCluster(f, w[k]) = IF k < Len(w) THEN w[k + 1] ELSE NONE
<1>1. /\ w \in Seq(DataClusters) /\ Len(w) \in Nat \ {0}
      /\ \A i \in 1 .. Len(w) - 1 : f[w[i]] = w[i + 1]
      /\ f[w[Len(w)]] = END
    BY DEF IsChain, IsPath
<1>2. \A i \in 1 .. Len(w) : w[i] \in DataClusters
    BY PathElements DEF IsChain
<1>3. CASE k < Len(w)
    <2>1. k \in 1 .. Len(w) - 1 /\ k + 1 \in 1 .. Len(w)
        BY <1>1, <1>3
    <2>2. f[w[k]] = w[k + 1] /\ w[k + 1] \in DataClusters
        BY <1>1, <1>2, <2>1
    <2>3. IsNext(f[w[k]])
        BY <2>2, Entries DEF IsNext
    <2> QED
        BY <1>2, <1>3, <2>2, <2>3, Entries DEF NextCluster
<1>4. CASE ~(k < Len(w))
    <2>1. k = Len(w)
        BY <1>1, <1>4
    <2>2. ~IsNext(f[w[k]])
        BY <1>1, <2>1 DEF IsNext
    <2> QED
        BY <1>2, <1>4, <2>2, Entries DEF NextCluster
<1> QED
    BY <1>3, <1>4

LEMMA ReachedSteps ==
    ASSUME NEW w, Len(w) \in Nat \ {0}, NEW n \in Nat \ {0}
    PROVE  /\ n - 1 \in Nat /\ Reached(w, n - 1) \in 1 .. Len(w) /\ Reached(w, n) \in 1 .. Len(w)
           /\ Reached(w, n - 1) < Len(w) => Reached(w, n) = Reached(w, n - 1) + 1
           /\ ~(Reached(w, n - 1) < Len(w)) => Reached(w, n) = Reached(w, n - 1)
BY DEF Reached

LEMMA Prefix ==
    ASSUME NEW w \in Seq(DataClusters), NEW k \in 1 .. Len(w)
    PROVE  /\ SubSeq(w, 1, k) \in Seq(DataClusters) /\ Len(SubSeq(w, 1, k)) = k
           /\ \A i \in 1 .. k : SubSeq(w, 1, k)[i] = w[i]
<1>1. Len(w) \in Nat
    BY LenProperties
<1>2. \A i \in 1 .. k : w[i] \in DataClusters
    <2> TAKE i \in 1 .. k
    <2>1. i \in 1 .. Len(w)
        BY <1>1
    <2> QED
        BY <2>1, ElementOfSeq
<1>3. k \in Int /\ 1 \in Int /\ 1 <= k /\ k - 1 + 1 = k
    BY <1>1
<1>4. /\ SubSeq(w, 1, k) \in Seq(DataClusters) /\ Len(SubSeq(w, 1, k)) = k - 1 + 1
      /\ \A i \in 1 .. k - 1 + 1 : SubSeq(w, 1, k)[i] = w[1 + i - 1]
    BY <1>2, <1>3, SubSeqProperties
<1> QED
    BY <1>3, <1>4

\* A prefix and the cluster behind it.
LEMMA PrefixGrows ==
    ASSUME NEW w \in Seq(DataClusters), NEW k \in 1 .. Len(w) - 1, Len(w) \in Nat
    PROVE  Append(SubSeq(w, 1, k), w[k + 1]) = SubSeq(w, 1, k + 1)
<1> DEFINE u == SubSeq(w, 1, k)
           v == SubSeq(w, 1, k + 1)
           c == w[k + 1]
<1>1. k \in 1 .. Len(w) /\ k + 1 \in 1 .. Len(w) /\ k \in Nat
    OBVIOUS
<1>2. u \in Seq(DataClusters) /\ Len(u) = k /\ \A j \in 1 .. k : u[j] = w[j]
    BY <1>1, Prefix
<1>3. v \in Seq(DataClusters) /\ Len(v) = k + 1 /\ \A j \in 1 .. k + 1 : v[j] = w[j]
    BY <1>1, Prefix
<1>4. c \in DataClusters
    BY <1>1, ElementOfSeq
<1> HIDE DEF u, v
<1>5. /\ Append(u, c) \in Seq(DataClusters) /\ Len(Append(u, c)) = Len(u) + 1
      /\ \A j \in 1 .. Len(u) : Append(u, c)[j] = u[j]
      /\ Append(u, c)[Len(u) + 1] = c
    BY <1>2, <1>4, AppendProperties
<1>6. \A j \in 1 .. Len(v) : Append(u, c)[j] = v[j]
    BY <1>1, <1>2, <1>3, <1>5
<1>7. Append(u, c) = v
    BY <1>1, <1>2, <1>3, <1>5, <1>6, SeqEqual
<1> QED
    BY <1>7 DEF u, v

\* all_clusters returns the chain.
LEMMA AllClustersIs ==
    ASSUME NEW f, TableOK(f), NEW w, IsChain(f, w)
    PROVE  AllClusters(f, w[1]) = w
<1> DEFINE Step(h, n) ==
               IF n = 0 THEN <<w[1]>>
               ELSE LET seen == h[n - 1]
                        next == NextCluster(f, seen[Len(seen)])
                    IN  IF next = NONE THEN seen ELSE Append(seen, next)
           walk == CHOOSE h : h = [n \in 0 .. Fuel |-> Step(h, n)]
           g == [n \in 0 .. Fuel |-> SubSeq(w, 1, Reached(w, n))]
<1>1. /\ w \in Seq(DataClusters) /\ Len(w) \in Nat \ {0} /\ Len(w) <= Fuel /\ Fuel \in Nat
    BY PathsDoNotRepeat, TotalClustersAssumption DEF IsChain, IsPath, Fuel
<1>2. \A n \in 0 .. Fuel : Step(g, n) = g[n]
    <2> TAKE n \in 0 .. Fuel
    <2>1. CASE n = 0
        <3>1. Reached(w, n) = 1 /\ 1 \in 1 .. Len(w)
            BY <1>1, <2>1 DEF Reached
        <3>2. SubSeq(w, 1, 1) = <<w[1]>>
            <4> DEFINE u == SubSeq(w, 1, 1)
            <4>1. u \in Seq(DataClusters) /\ Len(u) = 1 /\ u[1] = w[1] /\ w[1] \in DataClusters
                BY <1>1, <3>1, Prefix, ElementOfSeq
            <4> HIDE DEF u
            <4>2. <<w[1]>> \in Seq(DataClusters) /\ Len(<<w[1]>>) = 1 /\ <<w[1]>>[1] = w[1]
                BY <4>1
            <4>3. \A j \in 1 .. Len(u) : u[j] = <<w[1]>>[j]
                BY <4>1, <4>2
            <4> QED
                BY <4>1, <4>2, <4>3, SeqEqual DEF u
        <3> QED
            BY <2>1, <3>1, <3>2
    <2>2. CASE n # 0
        <3> DEFINE k == Reached(w, n - 1)
        <3>1. /\ n - 1 \in 0 .. Fuel /\ k \in 1 .. Len(w)
              /\ k < Len(w) => Reached(w, n) = k + 1
              /\ ~(k < Len(w)) => Reached(w, n) = k
            BY <1>1, <2>2, ReachedSteps
        <3>2. g[n] = SubSeq(w, 1, Reached(w, n)) /\ g[n - 1] = SubSeq(w, 1, k)
            BY <3>1
        <3> HIDE DEF k, g
        <3>3. Len(SubSeq(w, 1, k)) = k /\ SubSeq(w, 1, k)[k] = w[k]
            BY <1>1, <3>1, Prefix
        <3>4. CASE k < Len(w)
            <4>1. NextCluster(f, w[k]) = w[k + 1] /\ k \in 1 .. Len(w) - 1 /\ k + 1 \in 1 .. Len(w)
                BY <1>1, <3>1, <3>4, NextOnChain
            <4>2. w[k + 1] # NONE
                BY <4>1, NextOnChain
            <4>3. Append(SubSeq(w, 1, k), w[k + 1]) = SubSeq(w, 1, k + 1)
                BY <1>1, <4>1, PrefixGrows
            <4> QED
                BY <2>2, <3>1, <3>2, <3>3, <3>4, <4>1, <4>2, <4>3
        <3>5. CASE ~(k < Len(w))
            <4>1. NextCluster(f, w[k]) = NONE
                BY <3>1, <3>5, NextOnChain
            <4> QED
                BY <2>2, <3>1, <3>2, <3>3, <3>5, <4>1
        <3> QED
            BY <3>4, <3>5
    <2> HIDE DEF g, Step
    <2> QED
        BY <2>1, <2>2
<1>3. walk = [n \in 0 .. Fuel |-> Step(walk, n)]
    <2>1. g = [n \in 0 .. Fuel |-> g[n]]
        OBVIOUS
    <2>2. \E h : h = [n \in 0 .. Fuel |-> Step(h, n)]
        <3> HIDE DEF g
        <3> QED
            BY <1>2, <2>1
    <2> QED
        BY <2>2
<1>4. AllClusters(f, w[1]) = walk[Fuel]
    BY DEF AllClusters
<1> HIDE DEF walk
<1>5. \A n \in 0 .. Fuel : walk[n] = Step(walk, n)
    BY <1>3
<1>6. \A n \in 0 .. Fuel : walk[n] = g[n]
    <2> DEFINE S == {n \in 0 .. Fuel : walk[n] = g[n]}
    <2>1. 0 \in S
        <3>1. 0 \in 0 .. Fuel /\ Step(walk, 0) = Step(g, 0)
            BY <1>1
        <3> HIDE DEF g, Step
        <3> QED
            BY <1>2, <1>5, <3>1
    <2>2. \A n \in 0 .. Fuel - 1 : n \in S => n + 1 \in S
        <3> SUFFICES ASSUME NEW n \in 0 .. Fuel - 1, n \in S PROVE n + 1 \in S
            OBVIOUS
        <3>1. walk[n] = g[n] /\ n + 1 \in 0 .. Fuel /\ n + 1 # 0 /\ (n + 1) - 1 = n
            BY <1>1
        <3> HIDE DEF g
        <3>2. Step(walk, n + 1) = Step(g, n + 1)
            BY <3>1
        <3> QED
            BY <1>2, <1>5, <3>1, <3>2
    <2> HIDE DEF S
    <2>3. \A n \in 0 .. Fuel : n \in S
        BY <1>1, <2>1, <2>2, UpTo
    <2> QED
        BY <2>3 DEF S
<1> QED
    <2>1. Reached(w, Fuel) = Len(w) /\ Fuel \in 0 .. Fuel
        BY <1>1 DEF Reached
    <2>2. g[Fuel] = SubSeq(w, 1, Len(w))
        BY <2>1
    <2> QED
        BY <1>1, <1>4, <1>6, <2>1, <2>2, SubSeqFull

\* count_clusters counts it.
LEMMA CountClustersIs ==
    ASSUME NEW f, TableOK(f), NEW w, IsChain(f, w)
    PROVE  CountClusters(f, w[1]) = Len(w)
<1> DEFINE Step(h, n) ==
               IF n = 0 THEN [cur |-> w[1], num |-> 1]
               ELSE LET p == h[n - 1] IN
                    IF NextCluster(f, p.cur) = NONE THEN p
                    ELSE [cur |-> NextCluster(f, p.cur), num |-> p.num + 1]
           walk == CHOOSE h : h = [n \in 0 .. Fuel |-> Step(h, n)]
           g == [n \in 0 .. Fuel |-> [cur |-> w[Reached(w, n)], num |-> Reached(w, n)]]
<1>1. /\ w \in Seq(DataClusters) /\ Len(w) \in Nat \ {0} /\ Len(w) <= Fuel /\ Fuel \in Nat
    BY PathsDoNotRepeat, TotalClustersAssumption DEF IsChain, IsPath, Fuel
<1>2. \A n \in 0 .. Fuel : Step(g, n) = g[n]
    <2> TAKE n \in 0 .. Fuel
    <2>1. CASE n = 0
        <3>1. Reached(w, n) = 1
            BY <1>1, <2>1 DEF Reached
        <3> QED
            BY <2>1, <3>1
    <2>2. CASE n # 0
        <3> DEFINE k == Reached(w, n - 1)
        <3>1. /\ n - 1 \in 0 .. Fuel /\ k \in 1 .. Len(w)
              /\ k < Len(w) => Reached(w, n) = k + 1
              /\ ~(k < Len(w)) => Reached(w, n) = k
            BY <1>1, <2>2, ReachedSteps
        <3>2. /\ g[n] = [cur |-> w[Reached(w, n)], num |-> Reached(w, n)]
              /\ g[n - 1] = [cur |-> w[k], num |-> k]
            BY <3>1
        <3> HIDE DEF k, g
        <3>3. g[n - 1].cur = w[k] /\ g[n - 1].num = k
            BY <3>2
        <3>4. CASE k < Len(w)
            <4>1. NextCluster(f, w[k]) = w[k + 1] /\ k + 1 \in 1 .. Len(w)
                BY <1>1, <3>1, <3>4, NextOnChain
            <4>2. w[k + 1] # NONE
                BY <4>1, NextOnChain
            <4> QED
                BY <2>2, <3>1, <3>2, <3>3, <3>4, <4>1, <4>2
        <3>5. CASE ~(k < Len(w))
            <4>1. NextCluster(f, w[k]) = NONE
                BY <3>1, <3>5, NextOnChain
            <4> QED
                BY <2>2, <3>1, <3>2, <3>3, <3>5, <4>1
        <3> QED
            BY <3>4, <3>5
    <2> HIDE DEF g, Step
    <2> QED
        BY <2>1, <2>2
<1>3. walk = [n \in 0 .. Fuel |-> Step(walk, n)]
    <2>1. g = [n \in 0 .. Fuel |-> g[n]]
        OBVIOUS
    <2>2. \E h : h = [n \in 0 .. Fuel |-> Step(h, n)]
        <3> HIDE DEF g
        <3> QED
            BY <1>2, <2>1
    <2> QED
        BY <2>2
<1>4. CountClusters(f, w[1]) = walk[Fuel].num
    BY DEF CountClusters
<1> HIDE DEF walk
<1>5. \A n \in 0 .. Fuel : walk[n] = Step(walk, n)
    BY <1>3
<1>6. \A n \in 0 .. Fuel : walk[n] = g[n]
    <2> DEFINE S == {n \in 0 .. Fuel : walk[n] = g[n]}
    <2>1. 0 \in S
        <3>1. 0 \in 0 .. Fuel /\ Step(walk, 0) = Step(g, 0)
            BY <1>1
        <3> HIDE DEF g, Step
        <3> QED
            BY <1>2, <1>5, <3>1
    <2>2. \A n \in 0 .. Fuel - 1 : n \in S => n + 1 \in S
        <3> SUFFICES ASSUME NEW n \in 0 .. Fuel - 1, n \in S PROVE n + 1 \in S
            OBVIOUS
        <3>1. walk[n] = g[n] /\ n + 1 \in 0 .. Fuel /\ n + 1 # 0 /\ (n + 1) - 1 = n
            BY <1>1
        <3> HIDE DEF g
        <3>2. Step(walk, n + 1) = Step(g, n + 1)
            BY <3>1
        <3> QED
            BY <1>2, <1>5, <3>1, <3>2
    <2> HIDE DEF S
    <2>3. \A n \in 0 .. Fuel : n \in S
        BY <1>1, <2>1, <2>2, UpTo
    <2> QED
        BY <2>3 DEF S
<1> QED
    <2>1. Reached(w, Fuel) = Len(w) /\ Fuel \in 0 .. Fuel
        BY <1>1 DEF Reached
    <2>2. g[Fuel].num = Len(w)
        BY <2>1
    <2> QED
        BY <1>4, <1>6, <2>1, <2>2

\* last_cluster and final_cluster return its last cluster.
LEMMA LastClusterIs ==
    ASSUME NEW f, TableOK(f), NEW w, IsChain(f, w)
    PROVE  LastCluster(f, w[1]) = w[Len(w)]
<1> DEFINE Step(h, n) ==
               IF n = 0 THEN w[1]
               ELSE IF NextCluster(f, h[n - 1]) = NONE THEN h[n - 1]
               ELSE NextCluster(f, h[n - 1])
           walk == CHOOSE h : h = [n \in 0 .. Fuel |-> Step(h, n)]
           g == [n \in 0 .. Fuel |-> w[Reached(w, n)]]
<1>1. /\ w \in Seq(DataClusters) /\ Len(w) \in Nat \ {0} /\ Len(w) <= Fuel /\ Fuel \in Nat
    BY PathsDoNotRepeat, TotalClustersAssumption DEF IsChain, IsPath, Fuel
<1>2. \A n \in 0 .. Fuel : Step(g, n) = g[n]
    <2> TAKE n \in 0 .. Fuel
    <2>1. CASE n = 0
        <3>1. Reached(w, n) = 1
            BY <1>1, <2>1 DEF Reached
        <3> QED
            BY <2>1, <3>1
    <2>2. CASE n # 0
        <3> DEFINE k == Reached(w, n - 1)
        <3>1. /\ n - 1 \in 0 .. Fuel /\ k \in 1 .. Len(w)
              /\ k < Len(w) => Reached(w, n) = k + 1
              /\ ~(k < Len(w)) => Reached(w, n) = k
            BY <1>1, <2>2, ReachedSteps
        <3>2. g[n] = w[Reached(w, n)] /\ g[n - 1] = w[k]
            BY <3>1
        <3> HIDE DEF k, g
        <3>3. CASE k < Len(w)
            <4>1. NextCluster(f, w[k]) = w[k + 1] /\ k + 1 \in 1 .. Len(w)
                BY <1>1, <3>1, <3>3, NextOnChain
            <4>2. w[k + 1] # NONE
                BY <4>1, NextOnChain
            <4> QED
                BY <2>2, <3>1, <3>2, <3>3, <4>1, <4>2
        <3>4. CASE ~(k < Len(w))
            <4>1. NextCluster(f, w[k]) = NONE
                BY <3>1, <3>4, NextOnChain
            <4> QED
                BY <2>2, <3>1, <3>2, <3>4, <4>1
        <3> QED
            BY <3>3, <3>4
    <2> HIDE DEF g, Step
    <2> QED
        BY <2>1, <2>2
<1>3. walk = [n \in 0 .. Fuel |-> Step(walk, n)]
    <2>1. g = [n \in 0 .. Fuel |-> g[n]]
        OBVIOUS
    <2>2. \E h : h = [n \in 0 .. Fuel |-> Step(h, n)]
        <3> HIDE DEF g
        <3> QED
            BY <1>2, <2>1
    <2> QED
        BY <2>2
<1>4. LastCluster(f, w[1]) = walk[Fuel]
    BY DEF LastCluster
<1> HIDE DEF walk
<1>5. \A n \in 0 .. Fuel : walk[n] = Step(walk, n)
    BY <1>3
<1>6. \A n \in 0 .. Fuel : walk[n] = g[n]
    <2> DEFINE S == {n \in 0 .. Fuel : walk[n] = g[n]}
    <2>1. 0 \in S
        <3>1. 0 \in 0 .. Fuel /\ Step(walk, 0) = Step(g, 0)
            BY <1>1
        <3> HIDE DEF g, Step
        <3> QED
            BY <1>2, <1>5, <3>1
    <2>2. \A n \in 0 .. Fuel - 1 : n \in S => n + 1 \in S
        <3> SUFFICES ASSUME NEW n \in 0 .. Fuel - 1, n \in S PROVE n + 1 \in S
            OBVIOUS
        <3>1. walk[n] = g[n] /\ n + 1 \in 0 .. Fuel /\ n + 1 # 0 /\ (n + 1) - 1 = n
            BY <1>1
        <3> HIDE DEF g
        <3>2. Step(walk, n + 1) = Step(g, n + 1)
            BY <3>1
        <3> QED
            BY <1>2, <1>5, <3>1, <3>2
    <2> HIDE DEF S
    <2>3. \A n \in 0 .. Fuel : n \in S
        BY <1>1, <2>1, <2>2, UpTo
    <2> QED
        BY <2>3 DEF S
<1> QED
    <2>1. Reached(w, Fuel) = Len(w) /\ Fuel \in 0 .. Fuel
        BY <1>1 DEF Reached
    <2>2. g[Fuel] = w[Len(w)]
        BY <2>1
    <2> QED
        BY <1>4, <1>6, <2>1, <2>2

\* search_cluster finds the cluster at an index, and none past the end.
LEMMA SearchClusterIs ==
    ASSUME NEW f, TableOK(f), NEW w, IsChain(f, w), NEW m \in Nat
    PROVE  SearchCluster(f, w[1], m) = IF m < Len(w) THEN w[m + 1] ELSE NONE
<1> DEFINE Step(h, n) ==
               IF n = 0 THEN w[1]
               ELSE IF h[n - 1] = NONE THEN NONE
               ELSE NextCluster(f, h[n - 1])
           walk == CHOOSE h : h = [n \in 0 .. m |-> Step(h, n)]
           g == [n \in 0 .. m |-> IF n < Len(w) THEN w[n + 1] ELSE NONE]
<1>1. w \in Seq(DataClusters) /\ Len(w) \in Nat \ {0}
    BY DEF IsChain, IsPath
<1>2. \A n \in 0 .. m : Step(g, n) = g[n]
    <2> TAKE n \in 0 .. m
    <2>1. CASE n = 0
        BY <1>1, <2>1
    <2>2. CASE n # 0
        <3>1. n - 1 \in 0 .. m /\ n - 1 \in Int /\ n \in Int
            BY <2>2
        <3>2. /\ g[n] = IF n < Len(w) THEN w[n + 1] ELSE NONE
              /\ g[n - 1] = IF n - 1 < Len(w) THEN w[n] ELSE NONE
            BY <3>1
        <3> HIDE DEF g
        <3>3. CASE n - 1 < Len(w)
            <4>1. n \in 1 .. Len(w)
                BY <1>1, <2>2, <3>1, <3>3
            <4>2. w[n] # NONE /\ NextCluster(f, w[n]) = IF n < Len(w) THEN w[n + 1] ELSE NONE
                BY <4>1, NextOnChain
            <4> QED
                BY <2>2, <3>2, <3>3, <4>2
        <3>4. CASE ~(n - 1 < Len(w))
            <4>1. ~(n < Len(w))
                BY <1>1, <3>1, <3>4
            <4> QED
                BY <2>2, <3>2, <3>4, <4>1
        <3> QED
            BY <3>3, <3>4
    <2> HIDE DEF g, Step
    <2> QED
        BY <2>1, <2>2
<1>3. walk = [n \in 0 .. m |-> Step(walk, n)]
    <2>1. g = [n \in 0 .. m |-> g[n]]
        OBVIOUS
    <2>2. \E h : h = [n \in 0 .. m |-> Step(h, n)]
        <3> HIDE DEF g
        <3> QED
            BY <1>2, <2>1
    <2> QED
        BY <2>2
<1>4. SearchCluster(f, w[1], m) = walk[m]
    BY DEF SearchCluster
<1> HIDE DEF walk
<1>5. \A n \in 0 .. m : walk[n] = Step(walk, n)
    BY <1>3
<1>6. \A n \in 0 .. m : walk[n] = g[n]
    <2> DEFINE S == {n \in 0 .. m : walk[n] = g[n]}
    <2>1. 0 \in S
        <3>1. 0 \in 0 .. m /\ Step(walk, 0) = Step(g, 0)
            OBVIOUS
        <3> HIDE DEF g, Step
        <3> QED
            BY <1>2, <1>5, <3>1
    <2>2. \A n \in 0 .. m - 1 : n \in S => n + 1 \in S
        <3> SUFFICES ASSUME NEW n \in 0 .. m - 1, n \in S PROVE n + 1 \in S
            OBVIOUS
        <3>1. walk[n] = g[n] /\ n + 1 \in 0 .. m /\ n + 1 # 0 /\ (n + 1) - 1 = n
            OBVIOUS
        <3> HIDE DEF g
        <3>2. Step(walk, n + 1) = Step(g, n + 1)
            BY <3>1
        <3> QED
            BY <1>2, <1>5, <3>1, <3>2
    <2> HIDE DEF S
    <2>3. \A n \in 0 .. m : n \in S
        BY <2>1, <2>2, UpTo
    <2> QED
        BY <2>3 DEF S
<1> QED
    <2>1. m \in 0 .. m
        OBVIOUS
    <2> QED
        BY <1>4, <1>6, <2>1

\* A chain begins at each root, and nowhere else.
LEMMA RootHasChain ==
    ASSUME NEW f, TableOK(f), NEW h \in Roots(f)
    PROVE  \E w : IsChain(f, w) /\ w[1] = h
<1>1. h \in DataClusters /\ IsUsed(f, h) /\ ~IsLinked(f, h)
    BY DEF Roots
<1>2. PICK w : InChain(f, w, h)
    BY <1>1, UsedIsInChain
<1>3. PICK i \in 1 .. Len(w) : w[i] = h
    BY <1>2 DEF InChain
<1>4. IsChain(f, w) /\ Len(w) \in Nat
    BY <1>2 DEF InChain, IsChain, IsPath
<1>5. i = 1
    <2>1. SUFFICES ASSUME i # 1 PROVE FALSE
        OBVIOUS
    <2>2. i - 1 \in 1 .. Len(w) - 1 /\ i - 1 \in 1 .. Len(w) /\ (i - 1) + 1 = i
        BY <1>3, <1>4, <2>1
    <2>3. f[w[i - 1]] = h /\ w[i - 1] \in DataClusters
        BY <1>3, <1>4, <2>2, PathElements DEF IsChain, IsPath
    <2> QED
        BY <1>1, <2>3 DEF IsLinked
<1> QED
    BY <1>3, <1>4, <1>5

LEMMA ChainHasRoot ==
    ASSUME NEW f, TableOK(f), NEW w, IsChain(f, w)
    PROVE  /\ w[1] \in Roots(f)
           /\ \A i \in 1 .. Len(w) : w[i] \in DataClusters /\ IsUsed(f, w[i])
<1>1. /\ Len(w) \in Nat \ {0} /\ f[w[Len(w)]] = END /\ ~IsLinked(f, w[1])
      /\ \A i \in 1 .. Len(w) - 1 : f[w[i]] = w[i + 1]
    BY DEF IsChain, IsPath
<1>2. \A i \in 1 .. Len(w) : w[i] \in DataClusters
    BY PathElements DEF IsChain
<1>3. ASSUME NEW i \in 1 .. Len(w) PROVE IsUsed(f, w[i])
    <2>1. CASE i = Len(w)
        BY <1>1, <2>1, Entries DEF IsUsed
    <2>2. CASE i # Len(w)
        <3>1. i \in 1 .. Len(w) - 1 /\ i + 1 \in 1 .. Len(w)
            BY <1>1, <2>2
        <3>2. f[w[i]] \in DataClusters
            BY <1>1, <1>2, <3>1
        <3> QED
            BY <3>2, Entries DEF IsUsed
    <2> QED
        BY <2>1, <2>2
<1>4. 1 \in 1 .. Len(w)
    BY <1>1
<1> QED
    BY <1>1, <1>2, <1>3, <1>4 DEF Roots

LEMMA WalksFollow ==
    ASSUME TableOK(fat)
    PROVE  WalksAgree
<1> SUFFICES ASSUME NEW h \in Roots(fat)
             PROVE  LET all == AllClusters(fat, h) IN
                    /\ \A i, j \in DOMAIN all : all[i] = all[j] => i = j
                    /\ CountClusters(fat, h) = Len(all)
                    /\ LastCluster(fat, h) = all[Len(all)]
                    /\ LastCluster(fat, h) \in Tails(fat)
                    /\ \A n \in 0 .. TotalClusters :
                           SearchCluster(fat, h, n) = IF n < Len(all) THEN all[n + 1] ELSE NONE
    BY DEF WalksAgree
<1>1. PICK f : f = fat
    OBVIOUS
<1>2. TableOK(f) /\ h \in Roots(f)
    BY <1>1
<1>3. PICK w : IsChain(f, w) /\ w[1] = h
    BY <1>2, RootHasChain
<1>4. w \in Seq(DataClusters) /\ Len(w) \in Nat \ {0} /\ IsPath(f, w)
    BY <1>3 DEF IsChain, IsPath
<1>5. AllClusters(f, h) = w
    BY <1>2, <1>3, AllClustersIs
<1>6. \A i, j \in DOMAIN w : w[i] = w[j] => i = j
    <2>1. DOMAIN w = 1 .. Len(w)
        BY <1>4
    <2>2. \A i, j \in 1 .. Len(w) : w[i] = w[j] => i = j
        BY <1>2, <1>4, PathsDoNotRepeat
    <2> QED
        BY <2>1, <2>2
<1>7. CountClusters(f, h) = Len(w)
    BY <1>2, <1>3, CountClustersIs
<1>8. LastCluster(f, h) = w[Len(w)] /\ LastCluster(f, h) \in Tails(f)
    <2>1. LastCluster(f, h) = w[Len(w)]
        BY <1>2, <1>3, LastClusterIs
    <2>2. w[Len(w)] \in DataClusters /\ f[w[Len(w)]] = END
        BY <1>2, <1>3, <1>4, ChainHasRoot DEF IsChain
    <2> QED
        BY <2>1, <2>2 DEF Tails
<1>9. \A n \in 0 .. TotalClusters :
          SearchCluster(f, h, n) = IF n < Len(w) THEN w[n + 1] ELSE NONE
    BY <1>2, <1>3, SearchClusterIs
<1> QED
    BY <1>1, <1>5, <1>6, <1>7, <1>8, <1>9

\* The five walks agree on every chain of every table the calls can produce, and
\* end: search_cluster finds the n-th cluster count_clusters counts, and
\* last_cluster the last one (fat.rs:113-190).
THEOREM WalksStayInStep ==
    ASSUME EndCluster \notin DiskHints
    PROVE  Spec => []WalksAgree
<1>1. IInv => WalksAgree
    BY InvTable, WalksFollow
<1> QED
    BY <1>1, Invariance, PTL

-----------------------------------------------------------------------------
(* All the chains of a table.                                              *)

\* Chains that meet are one chain, because no two links lead to one cluster.
LEMMA MeetBehind ==
    ASSUME NEW f, TableOK(f), NEW s, IsChain(f, s), NEW t, IsChain(f, t),
           NEW i \in 1 .. Len(s), NEW j \in 1 .. Len(t), s[i] = t[j], i <= j
    PROVE  i = j /\ s[1] = t[1]
<1>1. /\ Len(s) \in Nat \ {0} /\ ~IsLinked(f, s[1])
      /\ \A k \in 1 .. Len(s) - 1 : f[s[k]] = s[k + 1]
      /\ Len(t) \in Nat \ {0}
      /\ \A k \in 1 .. Len(t) - 1 : f[t[k]] = t[k + 1]
    BY DEF IsChain, IsPath
<1>2. /\ \A k \in 1 .. Len(s) : s[k] \in DataClusters
      /\ \A k \in 1 .. Len(t) : t[k] \in DataClusters
    BY PathElements DEF IsChain
<1> DEFINE S == {k \in 0 .. i - 1 : s[i - k] = t[j - k]}
<1>3. 0 \in S
    BY <1>1
<1>4. \A k \in 0 .. (i - 1) - 1 : k \in S => k + 1 \in S
    <2> SUFFICES ASSUME NEW k \in 0 .. (i - 1) - 1, k \in S PROVE k + 1 \in S
        OBVIOUS
    <2> DEFINE a == i - (k + 1)
               b == j - (k + 1)
    <2>1. /\ a \in 1 .. Len(s) - 1 /\ a \in 1 .. Len(s) /\ a + 1 = i - k
          /\ b \in 1 .. Len(t) - 1 /\ b \in 1 .. Len(t) /\ b + 1 = j - k
          /\ a + 1 \in 1 .. Len(s) /\ k + 1 \in 0 .. i - 1
        BY <1>1
    <2>2. s[i - k] = t[j - k]
        OBVIOUS
    <2> HIDE DEF S, a, b
    <2>3. f[s[a]] = f[t[b]] /\ s[a] \in DataClusters /\ t[b] \in DataClusters /\ f[s[a]] \in DataClusters
        <3>1. f[s[a]] = s[a + 1] /\ f[t[b]] = t[b + 1]
            BY <1>1, <2>1
        <3> QED
            BY <1>2, <2>1, <2>2, <3>1
    <2>4. s[a] = t[b]
        BY <2>3, Entries DEF TableOK, NoCrossLink, IsNext
    <2> QED
        BY <2>1, <2>4 DEF S, a, b
<1>5. s[i - (i - 1)] = t[j - (i - 1)]
    <2>1. i - 1 \in Nat
        BY <1>1
    <2> HIDE DEF S
    <2>2. \A k \in 0 .. i - 1 : k \in S
        BY <1>3, <1>4, <2>1, UpTo
    <2>3. i - 1 \in S
        BY <2>1, <2>2
    <2> QED
        BY <2>3 DEF S
<1>6. i - (i - 1) = 1 /\ j - (i - 1) \in 1 .. Len(t)
    BY <1>1
<1>7. CASE i = j
    <2>1. j - (i - 1) = 1
        BY <1>1, <1>7
    <2> QED
        BY <1>5, <1>6, <1>7, <2>1
<1>8. CASE i # j
    <2>1. j - i \in 1 .. Len(t) - 1 /\ j - i \in 1 .. Len(t) /\ (j - i) + 1 = j - (i - 1)
        BY <1>1, <1>8
    <2>2. f[t[j - i]] = s[1] /\ t[j - i] \in DataClusters
        BY <1>1, <1>2, <1>5, <1>6, <2>1
    <2> QED
        BY <1>1, <2>2 DEF IsLinked
<1> QED
    BY <1>7, <1>8

LEMMA Meet ==
    ASSUME NEW f, TableOK(f), NEW s, IsChain(f, s), NEW t, IsChain(f, t),
           NEW i \in 1 .. Len(s), NEW j \in 1 .. Len(t), s[i] = t[j]
    PROVE  i = j /\ s = t
<1>1. Len(s) \in Nat /\ Len(t) \in Nat
    BY DEF IsChain, IsPath
<1>2. i <= j \/ j <= i
    BY <1>1
<1>3. i = j /\ s[1] = t[1]
    BY <1>2, MeetBehind
<1>4. AllClusters(f, s[1]) = s /\ AllClusters(f, t[1]) = t
    BY AllClustersIs
<1> QED
    BY <1>3, <1>4

\* The chains of a table, as the refinement names them.
ChainsOf(f) == {AllClusters(f, h) : h \in Roots(f)}

LEMMA ChainsAre ==
    ASSUME NEW f, TableOK(f), NEW w
    PROVE  w \in ChainsOf(f) <=> IsChain(f, w)
<1>1. ASSUME w \in ChainsOf(f) PROVE IsChain(f, w)
    <2>1. PICK h \in Roots(f) : w = AllClusters(f, h)
        BY <1>1 DEF ChainsOf
    <2>2. PICK v : IsChain(f, v) /\ v[1] = h
        BY RootHasChain
    <2> QED
        BY <2>1, <2>2, AllClustersIs
<1>2. ASSUME IsChain(f, w) PROVE w \in ChainsOf(f)
    <2>1. w[1] \in Roots(f) /\ AllClusters(f, w[1]) = w
        BY <1>2, ChainHasRoot, AllClustersIs
    <2> QED
        BY <2>1 DEF ChainsOf
<1> QED
    BY <1>1, <1>2

\* A set of chains through every cluster in use has all of them.
LEMMA Complete ==
    ASSUME NEW f, TableOK(f), NEW X, \A w \in X : IsChain(f, w),
           \A c \in DataClusters : IsUsed(f, c) => \E w \in X : InChain(f, w, c)
    PROVE  ChainsOf(f) = X
<1>1. ASSUME NEW w \in ChainsOf(f) PROVE w \in X
    <2>1. IsChain(f, w) /\ Len(w) \in Nat \ {0} /\ 1 \in 1 .. Len(w)
        BY ChainsAre DEF IsChain, IsPath
    <2>2. w[1] \in DataClusters /\ IsUsed(f, w[1])
        BY <2>1, ChainHasRoot
    <2>3. PICK v \in X : InChain(f, v, w[1])
        BY <2>2
    <2>4. PICK j \in 1 .. Len(v) : v[j] = w[1]
        BY <2>3 DEF InChain
    <2>5. w = v
        BY <2>1, <2>3, <2>4, Meet DEF InChain
    <2> QED
        BY <2>5
<1>2. ASSUME NEW w \in X PROVE w \in ChainsOf(f)
    BY ChainsAre
<1> QED
    BY <1>1, <1>2

-----------------------------------------------------------------------------
(* The chains after a step.                                                *)

\* A chain none of whose entries is written, and whose first cluster nothing
\* links to now, is still one.
LEMMA Untouched ==
    ASSUME NEW f, NEW g, NEW w, IsChain(f, w),
           \A i \in 1 .. Len(w) : g[w[i]] = f[w[i]], ~IsLinked(g, w[1])
    PROVE  IsChain(g, w)
<1>1. /\ w \in Seq(DataClusters) /\ Len(w) \in Nat \ {0}
      /\ \A i \in 1 .. Len(w) - 1 : f[w[i]] = w[i + 1]
      /\ f[w[Len(w)]] = END
    BY DEF IsChain, IsPath
<1>2. \A i \in 1 .. Len(w) - 1 : g[w[i]] = w[i + 1]
    <2> TAKE i \in 1 .. Len(w) - 1
    <2>1. i \in 1 .. Len(w)
        BY <1>1
    <2> QED
        BY <1>1, <2>1
<1>3. g[w[Len(w)]] = END
    BY <1>1
<1> QED
    BY <1>1, <1>2, <1>3 DEF IsChain, IsPath

\* What a call writes into the table.
LEMMA LinkNewWrites ==
    ASSUME NEW f, TableOK(f), NEW id \in DataClusters, f[id] = FREE,
           NEW p \in {NONE} \cup Tails(f)
    PROVE  LET g == LinkNew(f, id, p) IN
           /\ g[id] = END
           /\ p # NONE => p \in DataClusters /\ f[p] = END /\ p # id /\ g[p] = id
           /\ \A c \in DataClusters : c # id /\ c # p => g[c] = f[c]
<1>1. /\ f \in [EntryIds -> FATEntries] /\ DataClusters \subseteq EntryIds
      /\ NONE \notin DataClusters
    BY Entries, TotalClustersAssumption DEF TableOK, DataClusters, EntryIds, EndCluster
<1>2. p # NONE => p \in DataClusters /\ f[p] = END /\ p # id
    BY Entries DEF Tails
<1>3. CASE p = NONE
    BY <1>1, <1>3 DEF LinkNew
<1>4. CASE p # NONE
    BY <1>1, <1>2, <1>4 DEF LinkNew
<1> QED
    BY <1>3, <1>4

LEMMA UnlinkWrites ==
    ASSUME NEW f, TableOK(f), NEW c \in DataClusters, NEW p \in {NONE} \cup DataClusters
    PROVE  LET g == Unlink(f, c, p) IN
           /\ p # NONE => g[p] = END
           /\ \A d \in DataClusters : d # c /\ d # p => g[d] = f[d]
<1>1. f \in [EntryIds -> FATEntries] /\ DataClusters \subseteq EntryIds
    BY Entries, TotalClustersAssumption DEF TableOK, DataClusters, EntryIds, EndCluster
<1>2. CASE p = NONE
    BY <1>1, <1>2 DEF Unlink
<1>3. CASE p # NONE
    BY <1>1, <1>3 DEF Unlink
<1> QED
    BY <1>2, <1>3

\* A cluster allocated on its own is a chain of its own.
LEMMA ChainsStart ==
    ASSUME NEW f, TableOK(f), NEW id \in DataClusters, f[id] = FREE
    PROVE  ChainsOf(LinkNew(f, id, NONE)) = ChainsOf(f) \cup {<<id>>}
<1> DEFINE X == ChainsOf(f) \cup {<<id>>}
<1>1. PICK g : g = LinkNew(f, id, NONE)
    OBVIOUS
<1>2. /\ TableOK(g) /\ ~IsLinked(f, id) /\ g[id] = END
      /\ \A c \in DataClusters :
            /\ IsUsed(g, c) <=> IsUsed(f, c) \/ c = id
            /\ IsLinked(g, c) <=> IsLinked(f, c)
    BY <1>1, LinkNewKeeps
<1>3. \A c \in DataClusters : c # id => g[c] = f[c]
    BY <1>1, Entries, LinkNewWrites
<1>4. ASSUME NEW w \in ChainsOf(f) PROVE IsChain(g, w)
    <2>1. IsChain(f, w) /\ Len(w) \in Nat \ {0} /\ ~IsLinked(f, w[1])
        BY ChainsAre DEF IsChain, IsPath
    <2>2. \A i \in 1 .. Len(w) : w[i] \in DataClusters /\ w[i] # id
        BY <2>1, ChainHasRoot DEF IsUsed
    <2>3. 1 \in 1 .. Len(w)
        BY <2>1
    <2>4. \A i \in 1 .. Len(w) : g[w[i]] = f[w[i]]
        BY <1>3, <2>2
    <2>5. ~IsLinked(g, w[1])
        BY <1>2, <2>1, <2>2, <2>3
    <2> QED
        BY <2>1, <2>4, <2>5, Untouched
<1>5. IsChain(g, <<id>>)
    <2>1. <<id>> \in Seq(DataClusters) /\ Len(<<id>>) = 1 /\ <<id>>[1] = id
        OBVIOUS
    <2>2. IsPath(g, <<id>>)
        BY <2>1 DEF IsPath
    <2> QED
        BY <1>2, <2>1, <2>2 DEF IsChain
<1>6. ASSUME NEW c \in DataClusters, IsUsed(g, c) PROVE \E w \in X : InChain(g, w, c)
    <2>1. CASE c = id
        <3>1. 1 \in 1 .. Len(<<id>>) /\ <<id>>[1] = id
            OBVIOUS
        <3> QED
            BY <1>5, <2>1, <3>1 DEF InChain
    <2>2. CASE c # id
        <3>1. PICK w : InChain(f, w, c)
            BY <1>2, <1>6, <2>2, UsedIsInChain
        <3>2. w \in ChainsOf(f) /\ InChain(g, w, c)
            BY <1>4, <3>1, ChainsAre DEF InChain
        <3> QED
            BY <3>2
    <2> QED
        BY <2>1, <2>2
<1>7. \A w \in X : IsChain(g, w)
    BY <1>4, <1>5
<1> HIDE DEF X
<1>8. ChainsOf(g) = X
    BY <1>2, <1>6, <1>7, Complete
<1> QED
    BY <1>1, <1>8 DEF X

\* A cluster allocated behind the last one of a chain prolongs it.
LEMMA ChainsGrow ==
    ASSUME NEW f, TableOK(f), NEW id \in DataClusters, f[id] = FREE, NEW p \in Tails(f)
    PROVE  \E s \in ChainsOf(f) :
               ChainsOf(LinkNew(f, id, p)) = (ChainsOf(f) \ {s}) \cup {Append(s, id)}
<1>1. PICK g : g = LinkNew(f, id, p)
    OBVIOUS
<1>2. /\ p \in DataClusters /\ f[p] = END /\ p # id /\ p # NONE
      /\ g[id] = END /\ g[p] = id
      /\ \A c \in DataClusters : c # id /\ c # p => g[c] = f[c]
    <2>1. p \in DataClusters /\ p # NONE
        BY Entries DEF Tails
    <2>2. p \in {NONE} \cup Tails(f)
        OBVIOUS
    <2>3. /\ LinkNew(f, id, p)[id] = END
          /\ p # NONE => p \in DataClusters /\ f[p] = END /\ p # id /\ LinkNew(f, id, p)[p] = id
          /\ \A c \in DataClusters : c # id /\ c # p => LinkNew(f, id, p)[c] = f[c]
        BY <2>2, LinkNewWrites
    <2> QED
        BY <1>1, <2>1, <2>3
<1>3. /\ TableOK(g) /\ ~IsLinked(f, id)
      /\ \A c \in DataClusters :
            /\ IsUsed(g, c) <=> IsUsed(f, c) \/ c = id
            /\ IsLinked(g, c) <=> IsLinked(f, c) \/ c = id
    BY <1>1, <1>2, LinkNewKeeps
<1>4. PICK s : InChain(f, s, p)
    BY <1>2, Entries, UsedIsInChain DEF IsUsed
<1>5. /\ s \in Seq(DataClusters) /\ Len(s) \in Nat \ {0} /\ IsChain(f, s) /\ IsPath(f, s)
      /\ \A i \in 1 .. Len(s) - 1 : f[s[i]] = s[i + 1]
      /\ ~IsLinked(f, s[1])
    BY <1>4 DEF InChain, IsChain, IsPath
<1>6. \A i \in 1 .. Len(s) : s[i] \in DataClusters /\ IsUsed(f, s[i]) /\ s[i] # id
    BY <1>5, ChainHasRoot DEF IsUsed
<1>7. s[Len(s)] = p
    <2>1. PICK i \in 1 .. Len(s) : s[i] = p
        BY <1>4 DEF InChain
    <2>2. i = Len(s)
        <3>1. SUFFICES ASSUME i # Len(s) PROVE FALSE
            OBVIOUS
        <3>2. i \in 1 .. Len(s) - 1 /\ i + 1 \in 1 .. Len(s)
            BY <1>5, <3>1
        <3>3. f[p] \in DataClusters
            BY <1>5, <1>6, <2>1, <3>2
        <3> QED
            BY <1>2, <3>3, Entries
    <2> QED
        BY <2>1, <2>2
<1> DEFINE v == Append(s, id)
           X == (ChainsOf(f) \ {s}) \cup {v}
<1>8. /\ v \in Seq(DataClusters) /\ Len(v) = Len(s) + 1
      /\ \A i \in 1 .. Len(s) : v[i] = s[i]
      /\ v[Len(s) + 1] = id
    BY <1>5, AppendProperties
<1>9. ASSUME NEW w \in ChainsOf(f), w # s PROVE IsChain(g, w)
    <2>1. IsChain(f, w) /\ Len(w) \in Nat \ {0} /\ ~IsLinked(f, w[1])
        BY ChainsAre DEF IsChain, IsPath
    <2>2. \A i \in 1 .. Len(w) : w[i] \in DataClusters /\ w[i] # id
        BY <2>1, ChainHasRoot DEF IsUsed
    <2>3. \A i \in 1 .. Len(w) : w[i] # p
        <3>1. Len(s) \in 1 .. Len(s)
            BY <1>5
        <3> QED
            BY <1>5, <1>7, <1>9, <2>1, <3>1, Meet
    <2>4. 1 \in 1 .. Len(w)
        BY <2>1
    <2>5. \A i \in 1 .. Len(w) : g[w[i]] = f[w[i]]
        BY <1>2, <2>2, <2>3
    <2>6. ~IsLinked(g, w[1])
        BY <1>3, <2>1, <2>2, <2>4
    <2> QED
        BY <2>1, <2>5, <2>6, Untouched
<1> HIDE DEF v
<1>10. IsChain(g, v)
    <2>1. 1 \in 1 .. Len(s) /\ Len(s) \in 1 .. Len(s)
        BY <1>5
    <2>2. v[Len(v)] = id /\ v[1] = s[1] /\ Len(v) \in Nat \ {0}
        BY <1>5, <1>8, <2>1
    <2>3. \A i \in 1 .. Len(v) - 1 : g[v[i]] = v[i + 1]
        <3> TAKE i \in 1 .. Len(v) - 1
        <3>1. i \in 1 .. Len(s)
            BY <1>5, <1>8
        <3>2. CASE i = Len(s)
            BY <1>2, <1>7, <1>8, <3>1, <3>2
        <3>3. CASE i # Len(s)
            <4>1. i \in 1 .. Len(s) - 1 /\ i + 1 \in 1 .. Len(s)
                BY <1>5, <3>1, <3>3
            <4>2. s[i] # p
                BY <1>5, <1>7, <2>1, <3>1, <3>3, PathsDoNotRepeat
            <4>3. g[s[i]] = f[s[i]]
                BY <1>2, <1>6, <3>1, <4>2
            <4> QED
                BY <1>5, <1>8, <3>1, <4>1, <4>3
        <3> QED
            BY <3>2, <3>3
    <2>4. ~IsLinked(g, v[1])
        BY <1>3, <1>5, <1>6, <2>1, <2>2
    <2> QED
        BY <1>2, <1>8, <2>2, <2>3, <2>4 DEF IsChain, IsPath
<1>11. ASSUME NEW c \in DataClusters, IsUsed(g, c) PROVE \E w \in X : InChain(g, w, c)
    <2>1. CASE c = id
        <3>1. Len(v) \in 1 .. Len(v) /\ v[Len(v)] = id
            BY <1>5, <1>8
        <3> QED
            BY <1>10, <2>1, <3>1 DEF InChain
    <2>2. CASE c # id
        <3>1. PICK w : InChain(f, w, c)
            BY <1>3, <1>11, <2>2, UsedIsInChain
        <3>2. w \in ChainsOf(f)
            BY <3>1, ChainsAre DEF InChain
        <3>3. CASE w = s
            <4>1. PICK i \in 1 .. Len(s) : s[i] = c
                BY <3>1, <3>3 DEF InChain
            <4>2. i \in 1 .. Len(v) /\ v[i] = c
                BY <1>5, <1>8, <4>1
            <4> QED
                BY <1>10, <4>2 DEF InChain
        <3>4. CASE w # s
            <4>1. InChain(g, w, c)
                BY <1>9, <3>1, <3>2, <3>4 DEF InChain
            <4> QED
                BY <3>2, <3>4, <4>1
        <3> QED
            BY <3>3, <3>4
    <2> QED
        BY <2>1, <2>2
<1>12. \A w \in X : IsChain(g, w)
    BY <1>9, <1>10
<1> HIDE DEF X
<1>13. ChainsOf(g) = X
    BY <1>3, <1>11, <1>12, Complete
<1>14. s \in ChainsOf(f)
    BY <1>5, ChainsAre
<1> QED
    BY <1>1, <1>13, <1>14 DEF X, v

\* The chain through a cluster that is freed, and where it stands there.
LEMMA CutPlace ==
    ASSUME NEW f, TableOK(f), NEW c \in DataClusters, IsUsed(f, c),
           NEW p \in {NONE} \cup DataClusters,
           IF p = NONE THEN ~IsLinked(f, c) ELSE f[p] = c
    PROVE  \E s \in ChainsOf(f) : \E k \in 1 .. Len(s) :
               s[k] = c /\ IF p = NONE THEN k = 1 ELSE k > 1 /\ s[k - 1] = p
<1>1. PICK s : InChain(f, s, c)
    BY UsedIsInChain
<1>2. PICK k \in 1 .. Len(s) : s[k] = c
    BY <1>1 DEF InChain
<1>3. /\ IsChain(f, s) /\ Len(s) \in Nat \ {0} /\ ~IsLinked(f, s[1])
      /\ \A i \in 1 .. Len(s) - 1 : f[s[i]] = s[i + 1]
    BY <1>1 DEF InChain, IsChain, IsPath
<1>4. \A i \in 1 .. Len(s) : s[i] \in DataClusters
    BY <1>3, ChainHasRoot
<1>5. k > 1 => k - 1 \in 1 .. Len(s) /\ s[k - 1] \in DataClusters /\ f[s[k - 1]] = c
    <2> SUFFICES ASSUME k > 1 PROVE k - 1 \in 1 .. Len(s) /\ s[k - 1] \in DataClusters /\ f[s[k - 1]] = c
        OBVIOUS
    <2>1. k - 1 \in 1 .. Len(s) - 1 /\ k - 1 \in 1 .. Len(s) /\ (k - 1) + 1 = k
        BY <1>3
    <2> QED
        BY <1>2, <1>3, <1>4, <2>1
<1>6. k = 1 \/ k > 1
    BY <1>3
<1>7. CASE p = NONE
    <2>1. k = 1
        BY <1>5, <1>6, <1>7 DEF IsLinked
    <2> QED
        BY <1>2, <1>3, <1>7, <2>1, ChainsAre
<1>8. CASE p # NONE
    <2>1. p \in DataClusters /\ f[p] = c
        BY <1>8
    <2>2. k > 1
        BY <1>2, <1>3, <1>6, <2>1 DEF IsLinked
    <2>3. s[k - 1] = p
        BY <1>5, <2>1, <2>2, Entries DEF TableOK, NoCrossLink, IsNext
    <2> QED
        BY <1>2, <1>3, <1>8, <2>2, <2>3, ChainsAre
<1> QED
    BY <1>7, <1>8

\* What is left before and behind a place of a sequence.
LEMMA Pieces ==
    ASSUME NEW s \in Seq(DataClusters), NEW k \in 1 .. Len(s), Len(s) \in Nat
    PROVE  LET before == SubSeq(s, 1, k - 1)
               behind == SubSeq(s, k + 1, Len(s))
           IN  /\ before \in Seq(DataClusters) /\ Len(before) = k - 1
               /\ \A i \in 1 .. k - 1 : before[i] = s[i]
               /\ behind \in Seq(DataClusters) /\ Len(behind) = Len(s) - k
               /\ \A i \in 1 .. Len(s) - k : behind[i] = s[k + i]
<1>1. \A i \in 1 .. Len(s) : s[i] \in DataClusters
    BY ElementOfSeq
<1>2. /\ SubSeq(s, 1, k - 1) \in Seq(DataClusters) /\ Len(SubSeq(s, 1, k - 1)) = k - 1
      /\ \A i \in 1 .. k - 1 : SubSeq(s, 1, k - 1)[i] = s[i]
    <2>1. 1 \in Int /\ k - 1 \in Int /\ (k - 1) - 1 + 1 = k - 1 /\ (1 <= k - 1 \/ k - 1 = 0)
        OBVIOUS
    <2>2. \A i \in 1 .. k - 1 : s[i] \in DataClusters
        BY <1>1
    <2>3. /\ SubSeq(s, 1, k - 1) \in Seq(DataClusters)
          /\ Len(SubSeq(s, 1, k - 1)) = IF 1 <= k - 1 THEN (k - 1) - 1 + 1 ELSE 0
          /\ \A i \in 1 .. (k - 1) - 1 + 1 : SubSeq(s, 1, k - 1)[i] = s[1 + i - 1]
        BY <2>1, <2>2, SubSeqProperties
    <2>4. \A i \in 1 .. k - 1 : 1 + i - 1 = i
        OBVIOUS
    <2> QED
        BY <2>1, <2>3, <2>4
<1>3. /\ SubSeq(s, k + 1, Len(s)) \in Seq(DataClusters)
      /\ Len(SubSeq(s, k + 1, Len(s))) = Len(s) - k
      /\ \A i \in 1 .. Len(s) - k : SubSeq(s, k + 1, Len(s))[i] = s[k + i]
    <2>1. /\ k + 1 \in Int /\ Len(s) \in Int /\ Len(s) - (k + 1) + 1 = Len(s) - k
          /\ (k + 1 <= Len(s) \/ (~(k + 1 <= Len(s)) /\ Len(s) - k = 0))
        OBVIOUS
    <2>2. \A i \in k + 1 .. Len(s) : s[i] \in DataClusters
        BY <1>1
    <2>3. /\ SubSeq(s, k + 1, Len(s)) \in Seq(DataClusters)
          /\ Len(SubSeq(s, k + 1, Len(s))) = IF k + 1 <= Len(s) THEN Len(s) - (k + 1) + 1 ELSE 0
          /\ \A i \in 1 .. Len(s) - (k + 1) + 1 : SubSeq(s, k + 1, Len(s))[i] = s[k + 1 + i - 1]
        <3>1. PICK m \in Int, n \in Int : m = k + 1 /\ n = Len(s)
            BY <2>1
        <3>2. /\ SubSeq(s, m, n) \in Seq(DataClusters)
              /\ Len(SubSeq(s, m, n)) = IF m <= n THEN n - m + 1 ELSE 0
              /\ \A i \in 1 .. n - m + 1 : SubSeq(s, m, n)[i] = s[m + i - 1]
            BY <2>2, <3>1, SubSeqProperties
        <3> QED
            BY <3>1, <3>2
    <2>4. \A i \in 1 .. Len(s) - k : k + 1 + i - 1 = k + i
        OBVIOUS
    <2> QED
        BY <2>1, <2>3, <2>4
<1> QED
    BY <1>2, <1>3

\* A cluster freed leaves its chain in two, or in one, or in none.
LEMMA ChainsCut ==
    ASSUME NEW f, TableOK(f), NEW c \in DataClusters, IsUsed(f, c),
           NEW p \in {NONE} \cup DataClusters,
           IF p = NONE THEN ~IsLinked(f, c) ELSE f[p] = c
    PROVE  \E s \in ChainsOf(f) : \E k \in DOMAIN s :
               /\ s[k] = c
               /\ ChainsOf(Unlink(f, c, p)) = (ChainsOf(f) \ {s})
                      \cup ({SubSeq(s, 1, k - 1), SubSeq(s, k + 1, Len(s))} \ {<<>>})
<1>1. PICK g : g = Unlink(f, c, p)
    OBVIOUS
<1>2. /\ p # NONE => g[p] = END
      /\ \A d \in DataClusters : d # c /\ d # p => g[d] = f[d]
    <2>1. /\ p # NONE => Unlink(f, c, p)[p] = END
          /\ \A d \in DataClusters : d # c /\ d # p => Unlink(f, c, p)[d] = f[d]
        BY UnlinkWrites
    <2> QED
        BY <1>1, <2>1
<1>3. /\ TableOK(g)
      /\ \A d \in DataClusters :
            /\ IsUsed(g, d) <=> IsUsed(f, d) /\ d # c
            /\ IsLinked(g, d) <=> IsLinked(f, d) /\ d # c /\ d # f[c]
    <2>1. LET h == Unlink(f, c, p) IN
          /\ TableOK(h)
          /\ \A d \in DataClusters :
                /\ IsUsed(h, d) <=> IsUsed(f, d) /\ d # c
                /\ IsLinked(h, d) <=> IsLinked(f, d) /\ d # c /\ d # f[c]
        BY UnlinkKeeps
    <2> QED
        BY <1>1, <2>1
<1>place. PICK s \in ChainsOf(f) : \E k \in 1 .. Len(s) :
          s[k] = c /\ IF p = NONE THEN k = 1 ELSE k > 1 /\ s[k - 1] = p
    BY CutPlace
<1>4. PICK k \in 1 .. Len(s) :
          s[k] = c /\ IF p = NONE THEN k = 1 ELSE k > 1 /\ s[k - 1] = p
    BY <1>place
<1>5. /\ s \in Seq(DataClusters) /\ Len(s) \in Nat \ {0} /\ IsChain(f, s) /\ IsPath(f, s)
      /\ \A i \in 1 .. Len(s) - 1 : f[s[i]] = s[i + 1]
      /\ ~IsLinked(f, s[1]) /\ f[s[Len(s)]] = END
    BY ChainsAre DEF IsChain, IsPath
<1>6. /\ \A i \in 1 .. Len(s) : s[i] \in DataClusters
      /\ \A i, j \in 1 .. Len(s) : s[i] = s[j] => i = j
    BY <1>5, ChainHasRoot, PathsDoNotRepeat
<1>7. p # NONE => k - 1 \in 1 .. Len(s)
    BY <1>4, <1>5
<1>8. \A i \in 1 .. Len(s) : i # k /\ i # k - 1 => g[s[i]] = f[s[i]]
    <2> SUFFICES ASSUME NEW i \in 1 .. Len(s), i # k, i # k - 1 PROVE g[s[i]] = f[s[i]]
        OBVIOUS
    <2>1. s[i] # c /\ s[i] \in DataClusters
        BY <1>4, <1>6
    <2>2. s[i] # p
        <3>1. CASE p = NONE
            BY <2>1, <3>1, Entries
        <3>2. CASE p # NONE
            BY <1>4, <1>6, <1>7, <3>2
        <3> QED
            BY <3>1, <3>2
    <2> QED
        BY <1>2, <2>1, <2>2
<1> DEFINE before == SubSeq(s, 1, k - 1)
           behind == SubSeq(s, k + 1, Len(s))
           X == (ChainsOf(f) \ {s}) \cup ({before, behind} \ {<<>>})
<1>9. /\ before \in Seq(DataClusters) /\ Len(before) = k - 1
      /\ \A i \in 1 .. k - 1 : before[i] = s[i]
      /\ behind \in Seq(DataClusters) /\ Len(behind) = Len(s) - k
      /\ \A i \in 1 .. Len(s) - k : behind[i] = s[k + i]
    BY <1>5, Pieces
<1> HIDE DEF before, behind
<1>10. Len(<<>>) = 0
    OBVIOUS
<1>11. ASSUME before # <<>> PROVE IsChain(g, before)
    <2>1. k > 1
        <3>1. Len(before) \in Nat \ {0}
            BY <1>9, <1>11, EmptySeq
        <3> QED
            BY <1>9, <3>1
    <2>2. p # NONE /\ s[k - 1] = p /\ g[p] = END
        BY <1>2, <1>4, <2>1
    <2>3. /\ k - 1 \in 1 .. k - 1 /\ 1 \in 1 .. k - 1 /\ k - 1 \in Nat \ {0}
          /\ k \in Int /\ 1 \in 1 .. Len(s)
        BY <1>5, <2>1
    <2>4. \A i \in 1 .. (k - 1) - 1 : g[before[i]] = before[i + 1]
        <3> TAKE i \in 1 .. (k - 1) - 1
        <3>1. /\ i \in 1 .. k - 1 /\ i + 1 \in 1 .. k - 1 /\ i # k /\ i # k - 1
              /\ i \in 1 .. Len(s) - 1 /\ i \in 1 .. Len(s)
            BY <1>5, <2>3
        <3>2. g[s[i]] = s[i + 1]
            BY <1>5, <1>8, <3>1
        <3> QED
            BY <1>9, <3>1, <3>2
    <2>5. before[k - 1] = p /\ before[1] = s[1]
        BY <1>9, <2>2, <2>3
    <2>6. ~IsLinked(g, s[1])
        BY <1>3, <1>5, <1>6, <2>3
    <2> QED
        BY <1>9, <2>2, <2>3, <2>4, <2>5, <2>6 DEF IsChain, IsPath
<1>12. ASSUME behind # <<>> PROVE IsChain(g, behind)
    <2>1. k < Len(s)
        <3>1. Len(behind) \in Nat \ {0}
            BY <1>9, <1>12, EmptySeq
        <3> QED
            BY <1>5, <1>9, <3>1
    <2>2. /\ Len(s) - k \in Nat \ {0} /\ Len(s) - k \in 1 .. Len(s) - k
          /\ 1 \in 1 .. Len(s) - k /\ k + (Len(s) - k) = Len(s)
          /\ k \in 1 .. Len(s) - 1 /\ k + 1 \in 1 .. Len(s)
          /\ Len(s) # k /\ Len(s) # k - 1 /\ Len(s) \in 1 .. Len(s)
        BY <1>5, <2>1
    <2>3. \A i \in 1 .. (Len(s) - k) - 1 : g[behind[i]] = behind[i + 1]
        <3> TAKE i \in 1 .. (Len(s) - k) - 1
        <3>1. /\ i \in 1 .. Len(s) - k /\ i + 1 \in 1 .. Len(s) - k
              /\ k + i \in 1 .. Len(s) - 1 /\ k + i \in 1 .. Len(s)
              /\ k + i # k /\ k + i # k - 1 /\ (k + i) + 1 = k + (i + 1)
            <4>1. PICK n \in Nat : n = Len(s)
                BY <1>5
            <4>2. i \in 1 .. (n - k) - 1 /\ k \in 1 .. n - 1
                BY <2>2, <4>1
            <4>3. /\ i \in 1 .. n - k /\ i + 1 \in 1 .. n - k
                  /\ k + i \in 1 .. n - 1 /\ k + i \in 1 .. n
                  /\ k + i # k /\ k + i # k - 1 /\ (k + i) + 1 = k + (i + 1)
                BY <4>2
            <4> QED
                BY <4>1, <4>3
        <3>2. g[s[k + i]] = s[k + (i + 1)]
            BY <1>5, <1>8, <3>1
        <3> QED
            BY <1>9, <3>1, <3>2
    <2>4. behind[Len(s) - k] = s[Len(s)] /\ behind[1] = s[k + 1]
        BY <1>9, <2>2
    <2>5. g[s[Len(s)]] = END
        BY <1>5, <1>8, <2>2
    <2>6. ~IsLinked(g, s[k + 1])
        <3>1. f[c] = s[k + 1] /\ s[k + 1] \in DataClusters
            BY <1>4, <1>5, <1>6, <2>2
        <3> QED
            BY <1>3, <3>1
    <2> QED
        BY <1>9, <2>2, <2>3, <2>4, <2>5, <2>6 DEF IsChain, IsPath
<1>13. ASSUME NEW w \in ChainsOf(f), w # s PROVE IsChain(g, w)
    <2>1. IsChain(f, w) /\ Len(w) \in Nat \ {0} /\ ~IsLinked(f, w[1])
        BY ChainsAre DEF IsChain, IsPath
    <2>2. \A i \in 1 .. Len(w) : w[i] \in DataClusters
        BY <2>1, ChainHasRoot
    <2>3. \A i \in 1 .. Len(w), j \in 1 .. Len(s) : w[i] # s[j]
        BY <1>5, <1>13, <2>1, Meet
    <2>4. \A i \in 1 .. Len(w) : w[i] # c /\ w[i] # p
        <3> TAKE i \in 1 .. Len(w)
        <3>1. CASE p = NONE
            BY <1>4, <2>2, <2>3, <3>1, Entries
        <3>2. CASE p # NONE
            BY <1>4, <1>7, <2>3, <3>2
        <3> QED
            BY <3>1, <3>2
    <2>5. \A i \in 1 .. Len(w) : g[w[i]] = f[w[i]]
        BY <1>2, <2>2, <2>4
    <2>6. 1 \in 1 .. Len(w)
        BY <2>1
    <2>7. ~IsLinked(g, w[1])
        BY <1>3, <2>1, <2>2, <2>6
    <2> QED
        BY <2>1, <2>5, <2>7, Untouched
<1>14. ASSUME NEW d \in DataClusters, IsUsed(g, d) PROVE \E w \in X : InChain(g, w, d)
    <2>1. PICK w : InChain(f, w, d)
        BY <1>3, <1>14, UsedIsInChain
    <2>2. w \in ChainsOf(f)
        BY <2>1, ChainsAre DEF InChain
    <2>3. CASE w # s
        <3>1. InChain(g, w, d)
            BY <1>13, <2>1, <2>2, <2>3 DEF InChain
        <3> QED
            BY <2>2, <2>3, <3>1
    <2>4. CASE w = s
        <3>1. PICK i \in 1 .. Len(s) : s[i] = d
            BY <2>1, <2>4 DEF InChain
        <3>2. i # k
            BY <1>3, <1>4, <1>14, <3>1
        <3>3. CASE i < k
            <4>1. i \in 1 .. k - 1 /\ k - 1 # 0
                BY <1>5, <3>3
            <4>2. before[i] = d /\ before # <<>> /\ i \in 1 .. Len(before)
                BY <1>9, <1>10, <3>1, <4>1
            <4>3. InChain(g, before, d)
                BY <1>11, <4>2 DEF InChain
            <4> QED
                BY <4>2, <4>3
        <3>4. CASE k < i
            <4>1. i - k \in 1 .. Len(s) - k /\ Len(s) - k # 0 /\ k + (i - k) = i
                BY <1>5, <3>4
            <4>2. behind[i - k] = d /\ behind # <<>> /\ i - k \in 1 .. Len(behind)
                BY <1>9, <1>10, <3>1, <4>1
            <4>3. InChain(g, behind, d)
                BY <1>12, <4>2 DEF InChain
            <4> QED
                BY <4>2, <4>3
        <3>5. i < k \/ k < i
            BY <1>5, <3>2
        <3> QED
            BY <3>3, <3>4, <3>5
    <2> QED
        BY <2>3, <2>4
<1>15. \A w \in X : IsChain(g, w)
    BY <1>11, <1>12, <1>13
<1> HIDE DEF X
<1>16. ChainsOf(g) = X
    BY <1>3, <1>14, <1>15, Complete
<1>17. DOMAIN s = 1 .. Len(s)
    BY <1>5
<1> QED
    BY <1>1, <1>4, <1>16, <1>17 DEF X, before, behind

-----------------------------------------------------------------------------
(* The manager implements the pool.                                        *)

LEMMA PoolStart ==
    ASSUME TableOK(fat)
    PROVE  Pool!Init
<1>1. PICK f : f = fat
    OBVIOUS
<1>2. TableOK(f)
    BY <1>1
<1>3. \A s \in ChainsOf(f) :
          /\ s # <<>> /\ DOMAIN s = 1 .. Len(s) /\ IsChain(f, s)
          /\ \A i \in 1 .. Len(s) : s[i] \in DataClusters \ FreeClusters(f)
    <2> TAKE s \in ChainsOf(f)
    <2>1. IsChain(f, s) /\ s \in Seq(DataClusters) /\ Len(s) \in Nat \ {0}
        BY <1>2, ChainsAre DEF IsChain, IsPath
    <2>2. Len(<<>>) = 0
        OBVIOUS
    <2>3. \A i \in 1 .. Len(s) : s[i] \in DataClusters /\ IsUsed(f, s[i])
        BY <1>2, <2>1, ChainHasRoot
    <2> QED
        BY <2>1, <2>2, <2>3, LenProperties DEF IsUsed, FreeClusters
<1>4. \A s, t \in ChainsOf(f) : \A i \in DOMAIN s, j \in DOMAIN t :
          s[i] = t[j] => s = t /\ i = j
    BY <1>2, <1>3, Meet
<1>5. ChainsOf(f) = {AllClusters(fat, h) : h \in Roots(fat)}
    BY <1>1 DEF ChainsOf
<1>6. FreeClusters(fat) \subseteq DataClusters
    BY DEF FreeClusters
<1>7. \A s \in ChainsOf(f) : s # <<>> /\ \A i \in DOMAIN s : s[i] \in DataClusters \ FreeClusters(fat)
    BY <1>1, <1>3
<1> QED
    BY <1>4, <1>5, <1>6, <1>7 DEF Pool!Init, Pool!Disjoint

\* alloc_cluster starts a chain or grows one.
LEMMA PoolLinks ==
    ASSUME TableOK(fat), NEW id \in DataClusters, fat[id] = FREE,
           NEW p \in {NONE} \cup Tails(fat), fat' = LinkNew(fat, id, p)
    PROVE  Pool!Next
<1>1. PICK f : f = fat
    OBVIOUS
<1>2. PICK g : g = fat'
    OBVIOUS
<1>3. TableOK(f) /\ f[id] = FREE /\ p \in {NONE} \cup Tails(f) /\ g = LinkNew(f, id, p)
    BY <1>1, <1>2
<1>4. FreeClusters(g) = FreeClusters(f) \ {id}
    BY <1>3, LinkNewKeeps
<1>5. id \in FreeClusters(f) \ FreeClusters(g)
    BY <1>3, <1>4 DEF FreeClusters
<1>6. /\ ChainsOf(f) = {AllClusters(fat, h) : h \in Roots(fat)}
      /\ ChainsOf(g) = {AllClusters(fat, h) : h \in Roots(fat)}'
    BY <1>1, <1>2 DEF ChainsOf
<1>7. CASE p = NONE
    <2>1. ChainsOf(g) = ChainsOf(f) \cup {<<id>>}
        BY <1>3, <1>7, ChainsStart
    <2>2. Pool!StartChain
        BY <1>1, <1>2, <1>4, <1>5, <1>6, <2>1 DEF Pool!StartChain, Pool!Take
    <2> QED
        BY <2>2 DEF Pool!Next
<1>8. CASE p # NONE
    <2>1. \E s \in ChainsOf(f) : ChainsOf(g) = (ChainsOf(f) \ {s}) \cup {Append(s, id)}
        BY <1>3, <1>8, ChainsGrow
    <2>2. Pool!Grow
        BY <1>1, <1>2, <1>4, <1>5, <1>6, <2>1 DEF Pool!Grow, Pool!Take
    <2> QED
        BY <2>2 DEF Pool!Next
<1> QED
    BY <1>7, <1>8

\* dealloc_cluster cuts one.
LEMMA PoolUnlinks ==
    ASSUME TableOK(fat), NEW c \in DataClusters, IsUsed(fat, c),
           NEW p \in {NONE} \cup DataClusters,
           IF p = NONE THEN ~IsLinked(fat, c) ELSE fat[p] = c,
           fat' = Unlink(fat, c, p)
    PROVE  Pool!Next
<1>1. PICK f : f = fat
    OBVIOUS
<1>2. PICK g : g = fat'
    OBVIOUS
<1>3. /\ TableOK(f) /\ IsUsed(f, c) /\ g = Unlink(f, c, p)
      /\ IF p = NONE THEN ~IsLinked(f, c) ELSE f[p] = c
    BY <1>1, <1>2
<1>4. FreeClusters(g) = FreeClusters(f) \cup {c}
    BY <1>3, UnlinkKeeps
<1>5. c \in FreeClusters(g) \ FreeClusters(f)
    BY <1>3, <1>4 DEF FreeClusters, IsUsed
<1>6. /\ ChainsOf(f) = {AllClusters(fat, h) : h \in Roots(fat)}
      /\ ChainsOf(g) = {AllClusters(fat, h) : h \in Roots(fat)}'
    BY <1>1, <1>2 DEF ChainsOf
<1>7. \E s \in ChainsOf(f) : \E k \in DOMAIN s :
          /\ s[k] = c
          /\ ChainsOf(g) = (ChainsOf(f) \ {s})
                 \cup ({SubSeq(s, 1, k - 1), SubSeq(s, k + 1, Len(s))} \ {<<>>})
    BY <1>3, ChainsCut
<1>8. Pool!Cut
    <2>1. PICK s \in ChainsOf(f) : \E k \in DOMAIN s :
              /\ s[k] = c
              /\ ChainsOf(g) = (ChainsOf(f) \ {s})
                     \cup Pool!NonEmpty({SubSeq(s, 1, k - 1), SubSeq(s, k + 1, Len(s))})
        BY <1>7 DEF Pool!NonEmpty
    <2>2. Pool!Give(c)
        BY <1>1, <1>2, <1>4 DEF Pool!Give
    <2>3. c \in FreeClusters(fat)' \ FreeClusters(fat)
        BY <1>1, <1>2, <1>5
    <2> QED
        BY <1>6, <2>1, <2>2, <2>3, Zenon DEF Pool!Cut
<1> QED
    BY <1>8 DEF Pool!Next

LEMMA PoolStep == IInv /\ [Next]_vars => Pool!Next \/ UNCHANGED fat
<1> SUFFICES ASSUME IInv, [Next]_vars PROVE Pool!Next \/ UNCHANGED fat
    OBVIOUS
<1>1. ASSUME NEW id, id = SearchFreeCluster(fat, nextFree, START_CLUS_ID), id # NONE,
             NEW p \in {NONE} \cup Tails(fat), NEW resume, AllocCluster(id, p, resume)
      PROVE  Pool!Next
    <2>1. id \in DataClusters /\ fat[id] = FREE
        BY <1>1, AllocSearch
    <2>2. fat' = LinkNew(fat, id, p)
        BY <1>1 DEF AllocCluster
    <2> QED
        BY <2>1, <2>2, InvTable, PoolLinks
<1>2. ASSUME NEW c \in DataClusters, IsUsed(fat, c), NEW p \in {NONE} \cup DataClusters,
             IF p = NONE THEN ~IsLinked(fat, c) ELSE fat[p] = c,
             NEW resume, DeallocCluster(c, p, resume)
      PROVE  Pool!Next
    <2>1. fat' = Unlink(fat, c, p)
        BY <1>2 DEF DeallocCluster
    <2> QED
        BY <1>2, <2>1, InvTable, PoolUnlinks
<1>3. ASSUME NEW p \in {NONE} \cup Tails(fat), AllocOne(p)
      PROVE  Pool!Next \/ UNCHANGED fat
    <2> DEFINE id == SearchFreeCluster(fat, nextFree, START_CLUS_ID)
    <2>1. CASE id = NONE
        BY <1>3, <2>1 DEF AllocOne
    <2>2. CASE id # NONE
        <3>1. AllocCluster(id, p, "ready")
            BY <1>3, <2>2 DEF AllocOne
        <3> QED
            BY <1>1, <2>2, <3>1
    <2> QED
        BY <2>1, <2>2
<1>4. CASE AllocStep
    <2> DEFINE id == SearchFreeCluster(fat, nextFree, START_CLUS_ID)
    <2>1. CASE id = NONE
        BY <1>4, <2>1 DEF AllocStep
    <2>2. CASE id # NONE
        <3>1. AllocCluster(id, prev, "alloc") /\ pc = "alloc"
            BY <1>4, <2>2 DEF AllocStep
        <3>2. prev \in {NONE} \cup Tails(fat)
            BY <3>1 DEF IInv, LoopInv
        <3> QED
            BY <1>1, <2>2, <3>1, <3>2
    <2> QED
        BY <2>1, <2>2
<1>5. ASSUME NEW c \in DataClusters, NEW p \in {NONE} \cup DataClusters, DeallocOne(c, p)
      PROVE  Pool!Next \/ UNCHANGED fat
    <2>1. CASE IsUsed(fat, c)
        <3>1. DeallocCluster(c, p, "ready") /\ MayDealloc(c, p)
            BY <1>5, <2>1 DEF DeallocOne
        <3>2. IF p = NONE THEN ~IsLinked(fat, c) ELSE fat[p] = c
            BY <2>1, <3>1, MayDeallocNamesPrev
        <3> QED
            BY <1>2, <2>1, <3>1, <3>2
    <2>2. CASE ~IsUsed(fat, c)
        BY <1>5, <2>2 DEF DeallocOne
    <2> QED
        BY <2>1, <2>2
<1>6. CASE DeallocNext
    <2>1. /\ pc = "dealloc" /\ cur # NONE /\ IsUsed(fat, cur)
          /\ DeallocCluster(cur, prev, "dealloc")
        BY <1>6 DEF DeallocNext, IsNext, IsUsed
    <2> QED
        BY <1>2, <2>1, DeallocLocals
<1>7. CASE DeallocLast
    <2>1. CASE fat[cur] = END
        <3>1. /\ pc = "dealloc" /\ cur # NONE /\ IsUsed(fat, cur)
              /\ DeallocCluster(cur, prev, "dealloc")
            BY <1>7, <2>1, Entries DEF DeallocLast, IsUsed
        <3> QED
            BY <1>2, <3>1, DeallocLocals
    <2>2. CASE fat[cur] # END
        BY <1>7, <2>2 DEF DeallocLast
    <2> QED
        BY <2>1, <2>2
<1>8. ASSUME NEW num \in 0 .. MaxRequest, NEW p \in {NONE} \cup Tails(fat),
             BeginAllocClusters(num, p)
      PROVE  UNCHANGED fat
    BY <1>8 DEF BeginAllocClusters
<1>9. ASSUME NEW c \in DataClusters, NEW p \in {NONE} \cup DataClusters,
             BeginDeallocClusters(c, p)
      PROVE  UNCHANGED fat
    BY <1>9 DEF BeginDeallocClusters
<1>10. CASE EndAllocClusters \/ EndDeallocClusters \/ Remount \/ UNCHANGED vars
    BY <1>10 DEF EndAllocClusters, EndDeallocClusters, Remount, vars
<1> QED
    BY <1>3, <1>4, <1>5, <1>6, <1>7, <1>8, <1>9, <1>10 DEF Next

\* Seen through all_clusters, the manager is a pool of chains: every call, and
\* every iteration of one, starts one chain, grows one at its end or takes one
\* cluster out of one, and touches no other, whatever the hint and the count
\* are (fat.rs:276-348).
THEOREM ManagerImplementsPool ==
    ASSUME EndCluster \notin DiskHints
    PROVE  Spec => ImplementsPool
<1>1. Init => Pool!Init
    BY InitTable, PoolStart
<1>2. IInv /\ [Next]_vars
          => [Pool!Next]_<<FreeClusters(fat), {AllClusters(fat, h) : h \in Roots(fat)}>>
    BY PoolStep
<1> QED
    BY <1>1, <1>2, Invariance, PTL DEF Spec, ImplementsPool, Pool!Spec
=============================================================================
