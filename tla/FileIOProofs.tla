---------------------------- MODULE FileIOProofs ----------------------------
(***************************************************************************)
(* Proofs about FileIO, for any number of clusters, files, threads and     *)
(* bytes in a cluster, and for every offset, length and buffer.            *)
(*                                                                         *)
(* The argument: a chain is the only sequence that follows the links to    *)
(* where they leave the clusters (Proper, ProperIsChain).  A growth links  *)
(* free clusters behind the last one its thread read under earlier guards; *)
(* that cluster is still its file's (Own), in the chain or in a part that  *)
(* another growth of the same file has cut off, and no link of another     *)
(* file leads there: so no chain of another file changes.  On a file       *)
(* nobody else uses the chain only grows at its end, which keeps each byte *)
(* where it was (Holding) and each call where its position says (Follows). *)
(***************************************************************************)
EXTENDS FileIO, TLAPS, SequenceTheorems, FiniteSetTheorems

-----------------------------------------------------------------------------
(* Bytes and clusters.                                                     *)

LEMMA Division ==
    ASSUME NEW i \in Nat
    PROVE  /\ i \div ClusterSize \in Nat /\ i % ClusterSize \in 0 .. ClusterSize - 1
           /\ i = ClusterSize * (i \div ClusterSize) + (i % ClusterSize)
BY SizesAssumption, SMT DEF SizesAssumption

LEMMA Monotonic ==
    ASSUME NEW a \in Int, NEW b \in Int, a <= b
    PROVE  ClusterSize * a <= ClusterSize * b
<1>1. ClusterSize * (b - a) >= 0
    BY SizesAssumption DEF SizesAssumption
<1>2. ClusterSize * (b - a) = ClusterSize * b - ClusterSize * a
    BY SizesAssumption DEF SizesAssumption
<1> QED
    BY <1>1, <1>2, SizesAssumption DEF SizesAssumption

\* A position below the capacity of k clusters lies in one of them.
LEMMA IndexBelow ==
    ASSUME NEW i \in Nat, NEW k \in Nat
    PROVE  i < ClusterSize * k <=> i \div ClusterSize < k
<1> DEFINE q == i \div ClusterSize
           r == i % ClusterSize
<1>1. q \in Nat /\ r \in 0 .. ClusterSize - 1 /\ i = ClusterSize * q + r
    BY Division
<1> HIDE DEF q, r
<1>2. ClusterSize \in Nat \ {0} /\ ClusterSize * q \in Nat /\ ClusterSize * k \in Nat
    BY <1>1, SizesAssumption DEF SizesAssumption
<1>3. ASSUME k <= q PROVE ~(i < ClusterSize * k)
    <2>1. ClusterSize * k <= ClusterSize * q
        BY <1>1, <1>3, Monotonic
    <2> QED
        BY <1>1, <1>2, <2>1
<1>4. ASSUME q < k PROVE i < ClusterSize * k
    <2>1. ClusterSize * (q + 1) <= ClusterSize * k
        BY <1>1, <1>4, Monotonic
    <2>2. ClusterSize * (q + 1) = ClusterSize * q + ClusterSize
        BY <1>1, <1>2
    <2> QED
        BY <1>1, <1>2, <2>1, <2>2
<1> QED
    BY <1>1, <1>3, <1>4 DEF q

\* The next position is in the next cluster exactly when it is a multiple of
\* the size of one.
LEMMA NextPosition ==
    ASSUME NEW i \in Nat
    PROVE  (i + 1) \div ClusterSize =
               IF (i + 1) % ClusterSize = 0 THEN (i \div ClusterSize) + 1 ELSE i \div ClusterSize
<1> DEFINE q == i \div ClusterSize
           r == i % ClusterSize
           p == (i + 1) \div ClusterSize
           s == (i + 1) % ClusterSize
<1>1. q \in Nat /\ r \in 0 .. ClusterSize - 1 /\ i = ClusterSize * q + r
    BY Division
<1>2. p \in Nat /\ s \in 0 .. ClusterSize - 1 /\ i + 1 = ClusterSize * p + s
    BY Division
<1> HIDE DEF q, r, p, s
<1>3. ClusterSize \in Nat \ {0}
    BY SizesAssumption DEF SizesAssumption
<1>4. ClusterSize * (p - q) = r + 1 - s
    BY <1>1, <1>2, <1>3
<1>5. p >= q
    <2>1. SUFFICES ASSUME p - q <= -1 PROVE FALSE
        BY <1>1, <1>2
    <2>2. ClusterSize * (p - q) <= ClusterSize * (-1)
        BY <1>1, <1>2, <2>1, Monotonic
    <2> QED
        BY <1>1, <1>2, <1>3, <1>4, <2>2
<1>6. p <= q + 1
    <2>1. SUFFICES ASSUME p - q >= 2 PROVE FALSE
        BY <1>1, <1>2
    <2>2. ClusterSize * 2 <= ClusterSize * (p - q)
        BY <1>1, <1>2, <2>1, Monotonic
    <2> QED
        BY <1>1, <1>2, <1>3, <1>4, <2>2
<1>7. CASE p = q
    <2>1. s # 0
        <3>1. ClusterSize * (p - q) = 0
            BY <1>1, <1>2, <1>3, <1>7
        <3> QED
            BY <1>1, <1>2, <1>4, <3>1
    <2> QED
        BY <1>7, <2>1 DEF p, q, s
<1>8. CASE p = q + 1
    <2>1. s = 0
        <3>1. ClusterSize * (p - q) = ClusterSize
            BY <1>1, <1>2, <1>3, <1>8
        <3> QED
            BY <1>1, <1>2, <1>3, <1>4, <3>1
    <2> QED
        BY <1>8, <2>1 DEF p, q, s
<1> QED
    BY <1>1, <1>2, <1>5, <1>6, <1>7, <1>8

-----------------------------------------------------------------------------
(* Induction on numbers.                                                   *)

LEMMA LeastOf ==
    ASSUME NEW S \in SUBSET Nat, S # {}
    PROVE  \E x \in S : \A y \in S : x <= y
<1> DEFINE R == {p \in Nat \X Nat : p[1] < p[2]}
<1>1. IsWellFoundedOn(R, Nat)
    <2>1. OpToRel(<, Nat) = R
        BY DEF OpToRel
    <2> QED
        BY <2>1, NatLessThanWellFounded
<1>2. PICK x \in S : \A y \in S : <<y, x>> \notin R
    <2> HIDE DEF R
    <2> QED
        BY <1>1, WFMin
<1>3. ASSUME NEW y \in S PROVE x <= y
    <2>1. <<y, x>> \in Nat \X Nat /\ <<y, x>>[1] = y /\ <<y, x>>[2] = x
        OBVIOUS
    <2>2. ~(y < x)
        BY <1>2, <2>1
    <2> QED
        BY <2>2
<1> QED
    BY <1>3

LEMMA UpTo ==
    ASSUME NEW N \in Nat, NEW S, 0 \in S, \A i \in 0 .. N - 1 : i \in S => i + 1 \in S
    PROVE  \A i \in 0 .. N : i \in S
<1> DEFINE Out == {i \in 0 .. N : i \notin S}
<1>1. SUFFICES ASSUME Out # {} PROVE FALSE
    OBVIOUS
<1>2. Out \in SUBSET Nat
    OBVIOUS
<1>3. PICK x \in Out : \A y \in Out : x <= y
    <2> HIDE DEF Out
    <2> QED
        BY <1>1, <1>2, LeastOf
<1>4. x \in 0 .. N /\ x \notin S
    OBVIOUS
<1>5. x # 0 /\ x - 1 \in 0 .. N - 1 /\ x - 1 \in 0 .. N
    BY <1>4
<1>6. x - 1 \notin Out
    BY <1>3, <1>5
<1>7. x - 1 \in S
    BY <1>5, <1>6
<1>8. (x - 1) + 1 \in S
    BY <1>5, <1>7
<1> QED
    BY <1>4, <1>5, <1>8

-----------------------------------------------------------------------------
(* Chains.                                                                 *)

Entries == Clusters \cup {FREE, END}
NoC     == Cardinality(Clusters)

\* w leads from a along the table n, as far as all_clusters of FileIO goes.
Walk(n, a, w) ==
    /\ w \in Seq(Clusters) /\ Len(w) \in 1 .. NoC + 1 /\ w[1] = a
    /\ \A i \in 1 .. Len(w) - 1 : n[w[i]] = w[i + 1]
    /\ Len(w) <= NoC => n[w[Len(w)]] \notin Clusters

LEMMA Finite == NoC \in Nat
BY VolumeAssumption, FS_CardinalityType DEF VolumeAssumption, NoC

LEMMA WalkExists ==
    ASSUME NEW n \in [Clusters -> Entries], NEW a \in Clusters
    PROVE  \E w : Walk(n, a, w)
<1> DEFINE Paths == {w \in Seq(Clusters) : /\ Len(w) \in 1 .. NoC + 1 /\ w[1] = a
                                           /\ \A i \in 1 .. Len(w) - 1 : n[w[i]] = w[i + 1]}
           Left == {k \in 0 .. NoC : \E w \in Paths : Len(w) = NoC + 1 - k}
<1>1. NoC \in Nat
    BY Finite
<1>2. <<a>> \in Paths
    <2>1. <<a>> \in Seq(Clusters) /\ Len(<<a>>) = 1 /\ <<a>>[1] = a
        OBVIOUS
    <2> QED
        BY <1>1, <2>1
<1> HIDE DEF Paths
<1>3. NoC \in Left
    <2>1. Len(<<a>>) = NoC + 1 - NoC /\ NoC \in 0 .. NoC
        BY <1>1
    <2>2. \E w \in Paths : Len(w) = NoC + 1 - NoC
        BY <1>2, <2>1
    <2> QED
        BY <2>1, <2>2
<1>4. PICK k \in Left : \A j \in Left : k <= j
    <2>1. Left \in SUBSET Nat /\ Left # {}
        <3>1. Left \subseteq 0 .. NoC
            OBVIOUS
        <3> HIDE DEF Left
        <3>2. 0 .. NoC \subseteq Nat
            BY <1>1
        <3> QED
            BY <1>3, <3>1, <3>2
    <2> HIDE DEF Left
    <2> QED
        BY <2>1, LeastOf
<1>5. PICK w \in Paths : Len(w) = NoC + 1 - k
    OBVIOUS
<1>6. /\ w \in Seq(Clusters) /\ Len(w) \in 1 .. NoC + 1 /\ w[1] = a
      /\ \A i \in 1 .. Len(w) - 1 : n[w[i]] = w[i + 1]
    BY DEF Paths
<1>7. k \in 0 .. NoC
    OBVIOUS
<1>8. ASSUME Len(w) <= NoC, n[w[Len(w)]] \in Clusters PROVE FALSE
    <2> DEFINE c == n[w[Len(w)]]
               v == Append(w, c)
    <2>1. w \in Seq(Clusters) /\ c \in Clusters /\ Len(w) \in Nat /\ Len(w) >= 1
        BY <1>1, <1>6, <1>8
    <2>2. /\ v \in Seq(Clusters) /\ Len(v) = Len(w) + 1
          /\ \A i \in 1 .. Len(w) : v[i] = w[i]
          /\ v[Len(w) + 1] = c
        BY <2>1, AppendProperties
    <2> HIDE DEF v
    <2>3. v[1] = a
        BY <1>6, <2>1, <2>2
    <2>4. \A i \in 1 .. Len(v) - 1 : n[v[i]] = v[i + 1]
        <3> TAKE i \in 1 .. Len(v) - 1
        <3>1. i \in 1 .. Len(w)
            BY <2>1, <2>2
        <3>2. CASE i = Len(w)
            BY <2>1, <2>2, <3>1, <3>2
        <3>3. CASE i # Len(w)
            <4>1. i \in 1 .. Len(w) - 1 /\ i + 1 \in 1 .. Len(w)
                BY <2>1, <3>1, <3>3
            <4> QED
                BY <1>6, <2>2, <3>1, <4>1
        <3> QED
            BY <3>2, <3>3
    <2>5. v \in Paths
        BY <1>1, <1>8, <2>1, <2>2, <2>3, <2>4 DEF Paths
    <2>6. k - 1 \in 0 .. NoC /\ Len(v) = NoC + 1 - (k - 1)
        BY <1>1, <1>5, <1>7, <1>8, <2>1, <2>2
    <2>7. k - 1 \in Left
        BY <2>5, <2>6
    <2> QED
        BY <1>4, <1>7, <2>7
<1>9. Walk(n, a, w)
    BY <1>6, <1>8 DEF Walk
<1> QED
    BY <1>9

\* The chain all_clusters gives is the walk along the table.
LEMMA WalkIsChain ==
    ASSUME NEW n, NEW a \in Clusters, NEW w, Walk(n, a, w)
    PROVE  ChainFrom(n, a) = w
<1> DEFINE Step(h, i) ==
               IF i = 0 THEN <<a>>
               ELSE LET seen == h[i - 1] IN
                    IF n[Last(seen)] \in Clusters THEN Append(seen, n[Last(seen)]) ELSE seen
           walk == CHOOSE h : h = [i \in 0 .. NoC |-> Step(h, i)]
           g == [i \in 0 .. NoC |-> SubSeq(w, 1, Min2(i + 1, Len(w)))]
<1>1. NoC \in Nat
    BY Finite
<1>2. /\ w \in Seq(Clusters) /\ Len(w) \in 1 .. NoC + 1 /\ w[1] = a
      /\ \A i \in 1 .. Len(w) - 1 : n[w[i]] = w[i + 1]
      /\ Len(w) <= NoC => n[w[Len(w)]] \notin Clusters
    BY DEF Walk
<1>3. ASSUME NEW k \in 1 .. Len(w)
      PROVE  /\ SubSeq(w, 1, k) \in Seq(Clusters) /\ Len(SubSeq(w, 1, k)) = k
             /\ \A i \in 1 .. k : SubSeq(w, 1, k)[i] = w[i]
    <2>1. \A i \in 1 .. k : w[i] \in Clusters
        <3> TAKE i \in 1 .. k
        <3>1. i \in 1 .. Len(w)
            BY <1>2
        <3> QED
            BY <1>2, <3>1, ElementOfSeq
    <2>2. k \in Int /\ 1 \in Int /\ 1 <= k /\ k - 1 + 1 = k
        BY <1>2
    <2>3. /\ SubSeq(w, 1, k) \in Seq(Clusters) /\ Len(SubSeq(w, 1, k)) = k - 1 + 1
          /\ \A i \in 1 .. k - 1 + 1 : SubSeq(w, 1, k)[i] = w[1 + i - 1]
        BY <2>1, <2>2, SubSeqProperties
    <2> QED
        BY <2>2, <2>3
<1>4. \A i \in 0 .. NoC : Step(g, i) = g[i]
    <2> TAKE i \in 0 .. NoC
    <2>1. CASE i = 0
        <3>1. Min2(i + 1, Len(w)) = 1 /\ 1 \in 1 .. Len(w)
            BY <1>2, <2>1 DEF Min2
        <3>2. SubSeq(w, 1, 1) = <<a>>
            <4> DEFINE u == SubSeq(w, 1, 1)
            <4>1. u \in Seq(Clusters) /\ Len(u) = 1 /\ u[1] = w[1]
                BY <1>3, <3>1
            <4> HIDE DEF u
            <4>2. <<a>> \in Seq(Clusters) /\ Len(<<a>>) = 1 /\ <<a>>[1] = a
                OBVIOUS
            <4>3. \A j \in 1 .. Len(u) : u[j] = <<a>>[j]
                BY <1>2, <4>1, <4>2
            <4> QED
                BY <4>1, <4>2, <4>3, SeqEqual DEF u
        <3> QED
            BY <2>1, <3>1, <3>2
    <2>2. CASE i # 0 /\ i < Len(w)
        <3>1. i \in 1 .. Len(w) /\ i + 1 \in 1 .. Len(w) /\ i - 1 \in 0 .. NoC /\ i \in 1 .. Len(w) - 1
            BY <1>1, <1>2, <2>2
        <3>2. Min2(i + 1, Len(w)) = i + 1 /\ Min2((i - 1) + 1, Len(w)) = i
            BY <1>2, <2>2, <3>1 DEF Min2
        <3>3. g[i] = SubSeq(w, 1, i + 1) /\ g[i - 1] = SubSeq(w, 1, i)
            BY <3>1, <3>2
        <3>4. Last(SubSeq(w, 1, i)) = w[i] /\ n[w[i]] = w[i + 1] /\ w[i + 1] \in Clusters
            <4>1. w[i + 1] \in Clusters
                BY <1>2, <3>1, ElementOfSeq
            <4>2. Len(SubSeq(w, 1, i)) = i /\ SubSeq(w, 1, i)[i] = w[i]
                BY <1>3, <3>1
            <4> QED
                BY <1>2, <3>1, <4>1, <4>2 DEF Last
        <3>5. Append(SubSeq(w, 1, i), w[i + 1]) = SubSeq(w, 1, i + 1)
            <4> DEFINE u == SubSeq(w, 1, i)
                       v == SubSeq(w, 1, i + 1)
                       c == w[i + 1]
            <4>1. u \in Seq(Clusters) /\ Len(u) = i /\ \A j \in 1 .. i : u[j] = w[j]
                BY <1>3, <3>1
            <4>2. v \in Seq(Clusters) /\ Len(v) = i + 1 /\ \A j \in 1 .. i + 1 : v[j] = w[j]
                BY <1>3, <3>1
            <4>3. c \in Clusters
                BY <3>4
            <4> HIDE DEF u, v
            <4>4. /\ Append(u, c) \in Seq(Clusters) /\ Len(Append(u, c)) = Len(u) + 1
                  /\ \A j \in 1 .. Len(u) : Append(u, c)[j] = u[j]
                  /\ Append(u, c)[Len(u) + 1] = c
                BY <4>1, <4>3, AppendProperties
            <4>5. \A j \in 1 .. Len(v) : Append(u, c)[j] = v[j]
                BY <3>1, <4>1, <4>2, <4>4
            <4>6. Append(u, c) = v
                BY <3>1, <4>1, <4>2, <4>4, <4>5, SeqEqual
            <4> QED
                BY <4>6 DEF u, v
        <3> HIDE DEF g
        <3> QED
            BY <2>2, <3>3, <3>4, <3>5
    <2>3. CASE i # 0 /\ i >= Len(w)
        <3>1. i - 1 \in 0 .. NoC /\ Len(w) \in 1 .. Len(w) /\ Len(w) <= NoC
            BY <1>1, <1>2, <2>3
        <3>2. Min2(i + 1, Len(w)) = Len(w) /\ Min2((i - 1) + 1, Len(w)) = Len(w)
            BY <1>2, <2>3, <3>1 DEF Min2
        <3>3. g[i] = SubSeq(w, 1, Len(w)) /\ g[i - 1] = SubSeq(w, 1, Len(w))
            BY <3>1, <3>2
        <3>4. Last(SubSeq(w, 1, Len(w))) = w[Len(w)]
            BY <1>3, <3>1 DEF Last
        <3>5. n[Last(SubSeq(w, 1, Len(w)))] \notin Clusters
            BY <1>2, <3>1, <3>4
        <3> HIDE DEF g
        <3> QED
            BY <2>3, <3>3, <3>5
    <2>4. i = 0 \/ i < Len(w) \/ i >= Len(w)
        BY <1>1, <1>2
    <2> HIDE DEF g, Step
    <2> QED
        BY <2>1, <2>2, <2>3, <2>4
<1>5. g = [i \in 0 .. NoC |-> Step(g, i)]
    <2>1. g = [i \in 0 .. NoC |-> g[i]]
        OBVIOUS
    <2> HIDE DEF g
    <2> QED
        BY <1>4, <2>1
<1>6. walk = [i \in 0 .. NoC |-> Step(walk, i)]
    <2> HIDE DEF g
    <2>1. \E h : h = [i \in 0 .. NoC |-> Step(h, i)]
        BY <1>5
    <2> QED
        BY <2>1
<1>7. ChainFrom(n, a) = walk[NoC]
    BY DEF ChainFrom, NoC
<1> HIDE DEF walk
<1>8. \A i \in 0 .. NoC : walk[i] = Step(walk, i)
    BY <1>6
<1>9. \A i \in 0 .. NoC : walk[i] = g[i]
    <2> DEFINE S == {i \in 0 .. NoC : walk[i] = g[i]}
    <2>1. 0 \in S
        <3>1. 0 \in 0 .. NoC
            BY <1>1
        <3>2. Step(walk, 0) = <<a>> /\ Step(g, 0) = <<a>>
            OBVIOUS
        <3> HIDE DEF g, Step
        <3>3. walk[0] = <<a>> /\ g[0] = <<a>>
            BY <1>4, <1>8, <3>1, <3>2
        <3> QED
            BY <3>1, <3>3
    <2>2. \A i \in 0 .. NoC - 1 : i \in S => i + 1 \in S
        <3> SUFFICES ASSUME NEW i \in 0 .. NoC - 1, i \in S PROVE i + 1 \in S
            OBVIOUS
        <3>1. walk[i] = g[i] /\ i + 1 \in 0 .. NoC /\ i + 1 # 0 /\ (i + 1) - 1 = i
            BY <1>1
        <3> HIDE DEF g
        <3>2. Step(walk, i + 1) = Step(g, i + 1)
            BY <3>1
        <3> QED
            BY <1>4, <1>8, <3>1, <3>2
    <2> HIDE DEF S
    <2>3. \A i \in 0 .. NoC : i \in S
        BY <1>1, <2>1, <2>2, UpTo
    <2> QED
        BY <2>3 DEF S
<1> QED
    <2>1. Min2(NoC + 1, Len(w)) = Len(w) /\ NoC \in 0 .. NoC
        BY <1>1, <1>2 DEF Min2
    <2>2. g[NoC] = SubSeq(w, 1, Len(w))
        BY <2>1
    <2>3. SubSeq(w, 1, Len(w)) = w
        BY <1>2, SubSeqFull
    <2> QED
        BY <1>7, <1>9, <2>1, <2>2, <2>3

\* w is a chain that begins at a, goes over no cluster twice, and ends.
Proper(n, a, w) ==
    /\ w \in Seq(Clusters) /\ Len(w) \in Nat \ {0} /\ w[1] = a
    /\ \A i \in 1 .. Len(w) - 1 : n[w[i]] = w[i + 1]
    /\ n[w[Len(w)]] = END
    /\ \A i, j \in 1 .. Len(w) : w[i] = w[j] => i = j

LEMMA ProperIsChain ==
    ASSUME NEW n, NEW a \in Clusters, NEW w, Proper(n, a, w)
    PROVE  ChainFrom(n, a) = w /\ Len(w) <= NoC
<1>1. /\ w \in Seq(Clusters) /\ Len(w) \in Nat \ {0}
      /\ \A i, j \in 1 .. Len(w) : w[i] = w[j] => i = j
    BY DEF Proper
<1>2. Len(w) <= NoC
    <2>1. w \in [1 .. Len(w) -> Clusters] /\ DOMAIN w = 1 .. Len(w)
        BY <1>1, LenProperties
    <2>2. w \in Injection(1 .. Len(w), Clusters)
        BY <1>1, <2>1 DEF Injection, IsInjective
    <2>3. Cardinality(1 .. Len(w)) <= NoC
        BY <2>2, VolumeAssumption, FS_Injection DEF VolumeAssumption, NoC
    <2>4. Cardinality(1 .. Len(w)) = Len(w)
        BY <1>1, FS_Interval
    <2> QED
        BY <2>3, <2>4
<1>3. Len(w) \in 1 .. NoC + 1 /\ n[w[Len(w)]] \notin Clusters
    BY <1>1, <1>2, Finite, EntriesAssumption DEF Proper, EntriesAssumption
<1>4. Walk(n, a, w)
    BY <1>3 DEF Proper, Walk
<1> QED
    BY <1>2, <1>4, WalkIsChain

LEMMA ChainIsProper ==
    ASSUME NEW n \in [Clusters -> Entries], NEW a \in Clusters,
           IsInjective(ChainFrom(n, a)), n[Last(ChainFrom(n, a))] = END
    PROVE  Proper(n, a, ChainFrom(n, a))
<1>1. PICK w : Walk(n, a, w)
    BY WalkExists
<1>2. ChainFrom(n, a) = w
    BY <1>1, WalkIsChain
<1>3. w \in Seq(Clusters) /\ Len(w) \in 1 .. NoC + 1 /\ DOMAIN w = 1 .. Len(w)
    BY <1>1, LenProperties DEF Walk
<1>4. \A i, j \in 1 .. Len(w) : w[i] = w[j] => i = j
    BY <1>2, <1>3 DEF IsInjective
<1>5. n[w[Len(w)]] = END
    BY <1>2 DEF Last
<1>6. Len(w) \in Nat \ {0}
    BY <1>3, Finite
<1> QED
    BY <1>1, <1>2, <1>4, <1>5, <1>6 DEF Walk, Proper

\* Every cluster of a chain is in use.
LEMMA ChainInUse ==
    ASSUME NEW n, NEW a, NEW w, Proper(n, a, w), NEW i \in 1 .. Len(w)
    PROVE  w[i] \in Clusters /\ n[w[i]] # FREE
<1>1. w \in Seq(Clusters) /\ Len(w) \in Nat
    BY DEF Proper
<1>2. w[i] \in Clusters
    BY <1>1, ElementOfSeq
<1>3. CASE i = Len(w)
    BY <1>2, <1>3, EntriesAssumption DEF Proper, EntriesAssumption
<1>4. CASE i # Len(w)
    <2>1. i \in 1 .. Len(w) - 1 /\ i + 1 \in 1 .. Len(w)
        BY <1>1, <1>4
    <2>2. w[i + 1] \in Clusters
        BY <1>1, <2>1, ElementOfSeq
    <2> QED
        BY <1>2, <2>1, <2>2, EntriesAssumption DEF Proper, EntriesAssumption
<1> QED
    BY <1>3, <1>4

LEMMA ProperStays ==
    ASSUME NEW n, NEW a, NEW w, Proper(n, a, w),
           NEW m, \A i \in 1 .. Len(w) : m[w[i]] = n[w[i]]
    PROVE  Proper(m, a, w)
<1>1. Len(w) \in Nat \ {0}
    BY DEF Proper
<1>2. Len(w) \in 1 .. Len(w) /\ \A i \in 1 .. Len(w) - 1 : i \in 1 .. Len(w)
    BY <1>1
<1> QED
    BY <1>2 DEF Proper

\* v is w with new in the place of what follows its kth element.
Splice(v, w, k, new) ==
    /\ Len(v) = k + Len(new)
    /\ \A i \in 1 .. k : v[i] = w[i]
    /\ \A i \in 1 .. Len(new) : v[k + i] = new[i]

LEMMA Splicing ==
    ASSUME NEW w \in Seq(Clusters), NEW k \in 1 .. Len(w), NEW new \in Seq(Clusters)
    PROVE  \E v \in Seq(Clusters) : Splice(v, w, k, new)
<1> DEFINE u == SubSeq(w, 1, k)
           v == u \o new
<1>1. Len(w) \in Nat /\ Len(new) \in Nat
    BY LenProperties
<1>2. u \in Seq(Clusters) /\ Len(u) = k /\ \A i \in 1 .. k : u[i] = w[i]
    <2>1. \A i \in 1 .. k : w[i] \in Clusters
        <3> TAKE i \in 1 .. k
        <3>1. i \in 1 .. Len(w)
            BY <1>1
        <3> QED
            BY <1>1, <3>1, ElementOfSeq
    <2>2. k \in Int /\ 1 \in Int /\ 1 <= k /\ k - 1 + 1 = k
        BY <1>1
    <2>3. /\ u \in Seq(Clusters) /\ Len(u) = k - 1 + 1
          /\ \A i \in 1 .. k - 1 + 1 : u[i] = w[1 + i - 1]
        BY <2>1, <2>2, SubSeqProperties
    <2> QED
        BY <2>2, <2>3
<1> HIDE DEF u
<1>3. /\ v \in Seq(Clusters) /\ Len(v) = Len(u) + Len(new)
      /\ \A i \in 1 .. Len(u) + Len(new) : v[i] = IF i <= Len(u) THEN u[i] ELSE new[i - Len(u)]
    BY <1>2, ConcatProperties
<1> HIDE DEF v
<1>4. \A i \in 1 .. k : v[i] = w[i]
    BY <1>1, <1>2, <1>3
<1>5. \A i \in 1 .. Len(new) : v[k + i] = new[i]
    <2> TAKE i \in 1 .. Len(new)
    <2>1. k + i \in 1 .. k + Len(new) /\ ~(k + i <= k) /\ (k + i) - k = i
        BY <1>1
    <2> QED
        BY <1>2, <1>3, <2>1
<1> QED
    BY <1>2, <1>3, <1>4, <1>5 DEF Splice

\* The table m has the clusters new, none of them in w, behind w[k], and the
\* links of n up to there.
Behind(n, m, w, k, new) ==
    /\ Len(new) >= 1
    /\ \A i, j \in 1 .. Len(new) : new[i] = new[j] => i = j
    /\ \A i \in 1 .. Len(w), j \in 1 .. Len(new) : w[i] # new[j]
    /\ \A i \in 1 .. k - 1 : m[w[i]] = n[w[i]]
    /\ m[w[k]] = new[1]
    /\ \A i \in 1 .. Len(new) - 1 : m[new[i]] = new[i + 1]
    /\ m[new[Len(new)]] = END

LEMMA ProperGrows ==
    ASSUME NEW n, NEW a, NEW w, Proper(n, a, w), NEW k \in 1 .. Len(w),
           NEW new \in Seq(Clusters), NEW m, Behind(n, m, w, k, new),
           NEW v \in Seq(Clusters), Splice(v, w, k, new)
    PROVE  Proper(m, a, v)
<1>1. /\ w \in Seq(Clusters) /\ Len(w) \in Nat \ {0} /\ w[1] = a /\ Len(new) \in Nat \ {0}
      /\ \A i \in 1 .. Len(w) - 1 : n[w[i]] = w[i + 1]
      /\ \A i, j \in 1 .. Len(w) : w[i] = w[j] => i = j
    <2>1. Len(new) \in Nat
        BY LenProperties
    <2> QED
        BY <2>1 DEF Proper, Behind
<1>2. \A i \in 1 .. k - 1 : m[w[i]] = w[i + 1]
    <2> TAKE i \in 1 .. k - 1
    <2>1. i \in 1 .. Len(w) - 1
        BY <1>1
    <2> QED
        BY <1>1, <2>1 DEF Behind
<1>3. Len(v) = k + Len(new)
    BY DEF Splice
<1>4. k \in Nat \ {0} /\ k <= Len(w)
    BY <1>1
<1>5. \A i \in 1 .. k : v[i] = w[i] /\ i \in 1 .. Len(w)
    BY <1>1, <1>4 DEF Splice
<1>6. \A i \in 1 .. Len(new) : v[k + i] = new[i]
    BY DEF Splice
<1>7. \A i \in 1 .. Len(v) : i \in 1 .. k \/ \E j \in 1 .. Len(new) : i = k + j
    <2> TAKE i \in 1 .. Len(v)
    <2>1. CASE i <= k
        BY <1>1, <1>3, <1>4, <2>1
    <2>2. CASE i > k
        <3>1. i - k \in 1 .. Len(new) /\ i = k + (i - k)
            BY <1>1, <1>3, <1>4, <2>2
        <3> QED
            BY <3>1
    <2> QED
        BY <1>1, <1>3, <1>4, <2>1, <2>2
<1>8. v[1] = a
    BY <1>1, <1>4, <1>5
<1>9. \A i \in 1 .. Len(v) - 1 : m[v[i]] = v[i + 1]
    <2> TAKE i \in 1 .. Len(v) - 1
    <2>1. CASE i < k
        <3>1. i \in 1 .. k - 1 /\ i \in 1 .. k /\ i + 1 \in 1 .. k
            BY <1>1, <1>3, <1>4, <2>1
        <3> QED
            BY <1>2, <1>5, <3>1
    <2>2. CASE i = k
        <3>1. 1 \in 1 .. Len(new) /\ k \in 1 .. k
            BY <1>1, <1>4
        <3> QED
            BY <1>5, <1>6, <2>2, <3>1 DEF Behind
    <2>3. CASE i > k
        <3>1. PICK j \in Nat : i = k + j
            <4>1. i - k \in Nat /\ i = k + (i - k)
                BY <1>1, <1>3, <1>4, <2>3
            <4> QED
                BY <4>1
        <3>2. j \in 1 .. Len(new) - 1 /\ j \in 1 .. Len(new) /\ j + 1 \in 1 .. Len(new)
              /\ i + 1 = k + (j + 1)
            BY <1>1, <1>3, <1>4, <2>3, <3>1
        <3> QED
            BY <1>6, <3>1, <3>2 DEF Behind
    <2> QED
        BY <1>1, <1>3, <1>4, <2>1, <2>2, <2>3
<1>10. m[v[Len(v)]] = END
    <2>1. Len(new) \in 1 .. Len(new)
        BY <1>1
    <2> QED
        BY <1>3, <1>6, <2>1 DEF Behind
<1>11. \A i, j \in 1 .. Len(v) : v[i] = v[j] => i = j
    <2> TAKE i \in 1 .. Len(v), j \in 1 .. Len(v)
    <2>1. CASE i \in 1 .. k /\ j \in 1 .. k
        <3>1. v[i] = w[i] /\ v[j] = w[j] /\ i \in 1 .. Len(w) /\ j \in 1 .. Len(w)
            BY <1>5, <2>1
        <3> QED
            BY <1>1, <3>1
    <2>2. ASSUME NEW x \in 1 .. Len(new), NEW y \in 1 .. Len(new), i = k + x, j = k + y
          PROVE  v[i] = v[j] => i = j
        BY <1>6, <2>2 DEF Behind
    <2>3. ASSUME i \in 1 .. k, NEW y \in 1 .. Len(new), j = k + y PROVE v[i] # v[j]
        BY <1>5, <1>6, <2>3 DEF Behind
    <2>4. ASSUME j \in 1 .. k, NEW x \in 1 .. Len(new), i = k + x PROVE v[i] # v[j]
        BY <1>5, <1>6, <2>4 DEF Behind
    <2> QED
        BY <1>7, <2>1, <2>2, <2>3, <2>4
<1>12. Len(v) \in Nat \ {0}
    BY <1>1, <1>3, <1>4
<1> QED
    BY <1>8, <1>9, <1>10, <1>11, <1>12 DEF Proper

-----------------------------------------------------------------------------
(* The table and the chains of all files.                                  *)

\* Cluster c is in use and in no file's chain but that of f.
Own(n, C, f, c) ==
    /\ c \in Clusters /\ n[c] # FREE
    /\ \A g \in Files : g # f => \A i \in 1 .. Len(C[g]) : C[g][i] # c

\* Chains C of files that begin at a.  A table has no link to a free cluster,
\* no two links to one cluster and none to the beginning of a file, in the
\* clusters that belong to no chain too.
Structure(n, a, C) ==
    /\ n \in Tables /\ a \in [Files -> Clusters]
    /\ \A f \in Files : Proper(n, a[f], C[f])
    /\ \A f \in Files : \A i \in 1 .. Len(C[f]) : Own(n, C, f, C[f][i])
    /\ \A c, d \in Clusters : n[c] \in Clusters /\ n[c] = n[d] => c = d
    /\ \A f \in Files : \A c \in Clusters : n[c] # a[f]

\* Every cluster in use is in a chain.
AllOwned(n, C) ==
    \A c \in Clusters : n[c] # FREE => \E f \in Files : \E i \in 1 .. Len(C[f]) : C[f][i] = c

\* m is n with new linked behind the cluster last.
Linking(n, last, new, m) ==
    /\ new \in Seq(Clusters) /\ Len(new) >= 1
    /\ \A i \in 1 .. Len(new) : n[new[i]] = FREE
    /\ \A i, j \in 1 .. Len(new) : new[i] = new[j] => i = j
    /\ m \in [Clusters -> Entries]
    /\ \A i \in 1 .. Len(new) - 1 : m[new[i]] = new[i + 1]
    /\ m[new[Len(new)]] = END
    /\ m[last] = new[1]
    /\ \A c \in Clusters : c # last /\ (\A i \in 1 .. Len(new) : new[i] # c) => m[c] = n[c]

\* The chains after it: that of f grows if it contains last, the others stay.
Grown(C, f, last, new, D) ==
    /\ \A g \in Files : g # f => D[g] = C[g]
    /\ \/ D[f] = C[f] /\ \A i \in 1 .. Len(C[f]) : C[f][i] # last
       \/ \E k \in 1 .. Len(C[f]) : C[f][k] = last /\ Splice(D[f], C[f], k, new)

\* What is in the chain of f was there, or is new.
LEMMA GrownElements ==
    ASSUME NEW C, NEW f, Len(C[f]) \in Nat, NEW last, NEW new, Len(new) \in Nat,
           NEW D, Grown(C, f, last, new, D), NEW i \in 1 .. Len(D[f])
    PROVE  \/ \E j \in 1 .. Len(C[f]) : D[f][i] = C[f][j]
           \/ \E j \in 1 .. Len(new) : D[f][i] = new[j]
<1>1. CASE D[f] = C[f]
    BY <1>1
<1>2. ASSUME NEW k \in 1 .. Len(C[f]), Splice(D[f], C[f], k, new)
      PROVE  \/ \E j \in 1 .. Len(C[f]) : D[f][i] = C[f][j]
             \/ \E j \in 1 .. Len(new) : D[f][i] = new[j]
    <2>1. Len(D[f]) = k + Len(new) /\ k \in Nat
        BY <1>2 DEF Splice
    <2>2. CASE i <= k
        <3>1. i \in 1 .. k /\ i \in 1 .. Len(C[f])
            BY <2>1, <2>2
        <3> QED
            BY <1>2, <3>1 DEF Splice
    <2>3. CASE i > k
        <3>1. i - k \in 1 .. Len(new) /\ k + (i - k) = i
            BY <2>1, <2>3
        <3> QED
            BY <1>2, <3>1 DEF Splice
    <2> QED
        BY <2>1, <2>2, <2>3
<1> QED
    BY <1>1, <1>2 DEF Grown

LEMMA StructureGrows ==
    ASSUME NEW n, NEW a, NEW C \in [Files -> Seq(Clusters)], Structure(n, a, C),
           NEW f \in Files, NEW last \in Clusters, Own(n, C, f, last),
           NEW new, NEW m, Linking(n, last, new, m)
    PROVE  \E D \in [Files -> Seq(Clusters)] : Structure(m, a, D) /\ Grown(C, f, last, new, D)
<1>1. /\ new \in Seq(Clusters) /\ Len(new) \in Nat \ {0}
      /\ \A i \in 1 .. Len(new) : new[i] \in Clusters /\ n[new[i]] = FREE
      /\ \A i, j \in 1 .. Len(new) : new[i] = new[j] => i = j
      /\ m \in [Clusters -> Entries]
      /\ \A i \in 1 .. Len(new) - 1 : m[new[i]] = new[i + 1]
      /\ m[new[Len(new)]] = END /\ m[last] = new[1]
    <2>1. Len(new) \in Nat /\ \A i \in 1 .. Len(new) : new[i] \in Clusters
        BY LenProperties, ElementOfSeq DEF Linking
    <2> QED
        BY <2>1 DEF Linking
<1>2. /\ n \in [Clusters -> Entries] /\ a \in [Files -> Clusters]
      /\ \A c \in Clusters : n[c] \in Clusters => n[n[c]] # FREE
    BY DEF Structure, Tables, Entries
<1>3. \A c \in Clusters : c # last /\ n[c] # FREE => m[c] = n[c]
    BY <1>1 DEF Linking
<1>4. \A g \in Files : \A i \in 1 .. Len(C[g]) : C[g][i] \in Clusters /\ n[C[g][i]] # FREE
    BY DEF Structure, Own
<1>5. \A g \in Files : (\A i \in 1 .. Len(C[g]) : C[g][i] # last) => Proper(m, a[g], C[g])
    <2> SUFFICES ASSUME NEW g \in Files, \A i \in 1 .. Len(C[g]) : C[g][i] # last
                 PROVE  Proper(m, a[g], C[g])
        OBVIOUS
    <2>1. Proper(n, a[g], C[g]) /\ \A i \in 1 .. Len(C[g]) : m[C[g][i]] = n[C[g][i]]
        BY <1>3, <1>4 DEF Structure
    <2> QED
        BY <2>1, ProperStays
\* Where the links of m come from.
<1>6. ASSUME NEW c \in Clusters, m[c] \in Clusters
      PROVE  \/ \E i \in 0 .. Len(new) - 1 :
                    m[c] = new[i + 1] /\ c = (IF i = 0 THEN last ELSE new[i])
             \/ m[c] = n[c] /\ n[m[c]] # FREE
    <2>1. CASE c = last
        <3>1. 0 \in 0 .. Len(new) - 1 /\ 0 + 1 = 1
            BY <1>1
        <3> QED
            BY <1>1, <2>1, <3>1
    <2>2. ASSUME NEW i \in 1 .. Len(new), new[i] = c
          PROVE  \E j \in 0 .. Len(new) - 1 :
                    m[c] = new[j + 1] /\ c = (IF j = 0 THEN last ELSE new[j])
        <3>1. i # Len(new)
            BY <1>1, <1>6, <2>2, EntriesAssumption DEF EntriesAssumption
        <3>2. i \in 1 .. Len(new) - 1 /\ i \in 0 .. Len(new) - 1 /\ i # 0
            BY <1>1, <3>1
        <3> QED
            BY <1>1, <2>2, <3>2
    <2>3. CASE c # last /\ \A i \in 1 .. Len(new) : new[i] # c
        BY <1>2, <1>6, <2>3 DEF Linking
    <2> QED
        BY <2>1, <2>2, <2>3
<1>7. \A i \in 1 .. Len(new) : m[new[i]] # FREE
    <2> TAKE i \in 1 .. Len(new)
    <2>1. \/ i = Len(new)
          \/ i \in 1 .. Len(new) - 1 /\ i + 1 \in 1 .. Len(new)
        BY <1>1
    <2> QED
        BY <1>1, <2>1, EntriesAssumption DEF EntriesAssumption
<1>8. \A c \in Clusters : n[c] # FREE => m[c] # FREE
    <2> TAKE c \in Clusters
    <2>1. CASE c = last
        <3>1. 1 \in 1 .. Len(new)
            BY <1>1
        <3> QED
            BY <1>1, <2>1, <3>1, EntriesAssumption DEF EntriesAssumption
    <2> QED
        BY <1>3, <2>1
<1>9. m \in Tables
    <2>1. ASSUME NEW c \in Clusters, m[c] \in Clusters PROVE m[m[c]] # FREE
        <3>1. CASE m[c] = n[c] /\ n[m[c]] # FREE
            BY <1>8, <2>1, <3>1
        <3>2. ASSUME NEW i \in 0 .. Len(new) - 1, m[c] = new[i + 1] PROVE m[m[c]] # FREE
            <4>1. i + 1 \in 1 .. Len(new)
                BY <1>1
            <4> QED
                BY <1>7, <3>2, <4>1
        <3> QED
            BY <1>6, <2>1, <3>1, <3>2
    <2> QED
        BY <1>1, <2>1 DEF Tables, Entries
<1>10. ASSUME NEW c \in Clusters, NEW d \in Clusters, m[c] \in Clusters, m[c] = m[d]
       PROVE  c = d
    <2>1. \A i \in 0 .. Len(new) - 1 : i + 1 \in 1 .. Len(new)
        BY <1>1
    <2>2. ASSUME NEW i \in 0 .. Len(new) - 1, NEW j \in 0 .. Len(new) - 1,
                 m[c] = new[i + 1], c = (IF i = 0 THEN last ELSE new[i]),
                 m[d] = new[j + 1], d = (IF j = 0 THEN last ELSE new[j])
          PROVE  c = d
        <3>1. i + 1 = j + 1
            BY <1>1, <1>10, <2>1, <2>2
        <3>2. i = j
            BY <1>1, <3>1
        <3> QED
            BY <2>2, <3>2
    <2>3. \A i \in 0 .. Len(new) - 1 : n[new[i + 1]] = FREE
        BY <1>1, <2>1
    <2>4. CASE m[c] = n[c] /\ n[m[c]] # FREE /\ m[d] = n[d] /\ n[m[d]] # FREE
        BY <1>10, <2>4 DEF Structure
    <2> QED
        BY <1>6, <1>10, <2>2, <2>3, <2>4
<1>11. \A g \in Files : \A c \in Clusters : m[c] # a[g]
    <2> SUFFICES ASSUME NEW g \in Files, NEW c \in Clusters, m[c] = a[g] PROVE FALSE
        OBVIOUS
    <2>1. a[g] \in Clusters /\ n[a[g]] # FREE
        <3>1. 1 \in 1 .. Len(C[g]) /\ C[g][1] = a[g]
            BY DEF Structure, Proper
        <3> QED
            BY <1>2, <1>4, <3>1
    <2>2. \A i \in 0 .. Len(new) - 1 : i + 1 \in 1 .. Len(new)
        BY <1>1
    <2>3. m[c] = n[c]
        BY <1>1, <1>6, <2>1, <2>2
    <2> QED
        BY <2>3 DEF Structure
<1>12. ASSUME NEW D \in [Files -> Seq(Clusters)], Grown(C, f, last, new, D),
              \A g \in Files : Proper(m, a[g], D[g])
       PROVE  Structure(m, a, D)
    <2>1. \A g \in Files : \A i \in 1 .. Len(D[g]) : D[g][i] \in Clusters /\ m[D[g][i]] # FREE
        BY <1>12, ChainInUse
    <2>2. \A i \in 1 .. Len(D[f]) :
             \/ \E j \in 1 .. Len(C[f]) : D[f][i] = C[f][j]
             \/ \E j \in 1 .. Len(new) : D[f][i] = new[j]
        <3>1. Len(C[f]) \in Nat
            BY DEF Structure, Proper
        <3> QED
            BY <1>1, <1>12, <3>1, GrownElements
    <2>3. \A g \in Files : g # f => D[g] = C[g]
        BY <1>12 DEF Grown
    <2>4. \A g, h \in Files : g # h =>
             \A i \in 1 .. Len(C[g]), j \in 1 .. Len(C[h]) : C[g][i] # C[h][j]
        BY DEF Structure, Own
    <2>5. ASSUME NEW g \in Files, g # f, NEW i \in 1 .. Len(D[g]), NEW j \in 1 .. Len(D[f])
          PROVE  D[g][i] # D[f][j]
        <3>1. D[g] = C[g] /\ n[D[g][i]] # FREE
            BY <1>4, <2>3, <2>5
        <3>2. ASSUME NEW k \in 1 .. Len(C[f]), D[f][j] = C[f][k] PROVE D[g][i] # D[f][j]
            BY <2>4, <2>5, <3>1, <3>2
        <3>3. ASSUME NEW k \in 1 .. Len(new), D[f][j] = new[k] PROVE D[g][i] # D[f][j]
            BY <1>1, <3>1, <3>3
        <3> QED
            BY <2>2, <3>2, <3>3
    <2>6. \A g, h \in Files : g # h =>
             \A i \in 1 .. Len(D[g]), j \in 1 .. Len(D[h]) : D[g][i] # D[h][j]
        <3> SUFFICES ASSUME NEW g \in Files, NEW h \in Files, g # h,
                            NEW i \in 1 .. Len(D[g]), NEW j \in 1 .. Len(D[h])
                     PROVE  D[g][i] # D[h][j]
            OBVIOUS
        <3>1. CASE g = f
            BY <2>5, <3>1
        <3>2. CASE h = f
            BY <2>5, <3>2
        <3>3. CASE g # f /\ h # f
            <4>1. D[g] = C[g] /\ D[h] = C[h]
                BY <2>3, <3>3
            <4> QED
                BY <2>4, <4>1
        <3> QED
            BY <3>1, <3>2, <3>3
    <2>7. \A g \in Files : \A i \in 1 .. Len(D[g]) : Own(m, D, g, D[g][i])
        BY <2>1, <2>6 DEF Own
    <2> QED
        BY <1>2, <1>9, <1>10, <1>11, <1>12, <2>7 DEF Structure
<1>13. CASE \A i \in 1 .. Len(C[f]) : C[f][i] # last
    <2>1. Grown(C, f, last, new, C)
        BY <1>13 DEF Grown
    <2>2. \A g \in Files : Proper(m, a[g], C[g])
        BY <1>5, <1>13 DEF Own
    <2> QED
        BY <1>12, <2>1, <2>2
<1>14. ASSUME NEW k \in 1 .. Len(C[f]), C[f][k] = last
       PROVE  \E D \in [Files -> Seq(Clusters)] : Structure(m, a, D) /\ Grown(C, f, last, new, D)
    <2>1. Proper(n, a[f], C[f]) /\ Len(C[f]) \in Nat /\ C[f] \in Seq(Clusters)
        BY DEF Structure, Proper
    <2>2. \A i \in 1 .. Len(C[f]), j \in 1 .. Len(new) : C[f][i] # new[j]
        <3> SUFFICES ASSUME NEW i \in 1 .. Len(C[f]), NEW j \in 1 .. Len(new), C[f][i] = new[j]
                     PROVE  FALSE
            OBVIOUS
        <3>1. n[C[f][i]] # FREE /\ n[new[j]] = FREE
            BY <1>1, <1>4
        <3> QED
            BY <3>1
    <2>3. \A i \in 1 .. k - 1 : m[C[f][i]] = n[C[f][i]]
        <3> TAKE i \in 1 .. k - 1
        <3>1. i \in 1 .. Len(C[f]) /\ i # k
            BY <2>1
        <3>2. C[f][i] # last
            BY <1>14, <3>1 DEF Structure, Proper
        <3> QED
            BY <1>3, <1>4, <3>1, <3>2
    <2>4. m[C[f][k]] = new[1] /\ Len(new) >= 1
        BY <1>1, <1>14
    <2>5. PICK w \in Seq(Clusters) : w = C[f]
        BY <2>1
    <2>6. PICK b : b = a[f]
        OBVIOUS
    <2>7. new \in Seq(Clusters) /\ k \in 1 .. Len(w)
        BY <1>1, <2>5
    <2>8. PICK v \in Seq(Clusters) : Splice(v, w, k, new)
        BY <2>7, Splicing
    <2>9. Proper(m, b, v)
        <3>1. Behind(n, m, w, k, new)
            BY <1>1, <2>2, <2>3, <2>4, <2>5 DEF Behind
        <3>2. Proper(n, b, w)
            BY <2>1, <2>5, <2>6
        <3> QED
            BY <2>7, <3>1, <3>2, <2>8, ProperGrows
    <2>10. PICK D : D = [C EXCEPT ![f] = v]
        OBVIOUS
    <2>11. D \in [Files -> Seq(Clusters)] /\ D[f] = v /\ \A g \in Files : g # f => D[g] = C[g]
        BY <2>8, <2>10
    <2>12. Grown(C, f, last, new, D)
        BY <1>14, <2>5, <2>8, <2>11 DEF Grown
    <2>13. \A g \in Files : Proper(m, a[g], D[g])
        <3> TAKE g \in Files
        <3>1. CASE g = f
            BY <2>6, <2>9, <2>11, <3>1
        <3>2. CASE g # f
            BY <1>5, <2>11, <3>2 DEF Own
        <3> QED
            BY <3>1, <3>2
    <2> QED
        BY <1>12, <2>11, <2>12, <2>13
<1> QED
    BY <1>13, <1>14
-----------------------------------------------------------------------------
(* The inductive invariant.                                                *)

Cap(w) == ClusterSize * Len(w)
Chains == [f \in Files |-> Chain(f)]
Positions == 0 .. ClusterSize * NoC - 1

\* The records of calls.
Calls == [at : Labels, fn : {"write_at", "read_at"}, off : Nat, buf : Seq(Bytes),
          num : 0 .. UsizeMax, last : Clusters \cup {END}, size : Nat, stop : Nat,
          cur : Clusters \cup {END}, done : Nat]

Early  == {"begun", "sized", "found", "grown", "copied", "bounded"}
InLoop == {"copying", "crossing"}

\* Where a call o on file f is: the clusters it holds on to are its file's, if
\* only in a part that another growth has cut off.
Where(n, C, f, o) ==
    /\ o.done <= Len(o.buf)
    /\ o.at \in Early => o.done = 0
    /\ o.at = "begun" => o.off \in Offsets /\ o.buf \in Writes
    /\ o.at = "found" => Own(n, C, f, o.last)
    /\ o.at \in InLoop \cup {"bounded"} =>
           o.off + o.done < o.stop /\ o.stop <= o.off + Len(o.buf)
    /\ o.at \in InLoop => Own(n, C, f, o.cur)

\* The sums of adjust_capacity fit a usize; the code does not check it.
SumsFit == \A off \in Offsets, buf \in Writes : off + Len(buf) + ClusterSize <= UsizeMax

Free(n)         == {c \in Clusters : n[c] = FREE}
Denied(n, num)  == ~CountKnown \/ num > Cardinality(Free(n))
LimitOf(w, f, o) == IF o.fn = "write_at" \/ f \in Dirs THEN Cap(w) ELSE o.size

\* A write has asked for enough clusters, and has them or was refused.
Asked(n, w, o) ==
    /\ o.at \in {"sized", "found"} => o.off + Len(o.buf) <= Cap(w) + ClusterSize * o.num
    /\ o.fn = "write_at" /\ o.at \in InLoop \cup {"grown", "copied", "bounded", "done"} =>
           o.off + Len(o.buf) <= Cap(w) \/ Denied(n, o.num)

\* A call o on a file f that nobody else uses, with the chain w and content c,
\* is where the arithmetic of its position says.
Follows(n, w, f, c, o) ==
    /\ o.size <= Cap(w)
    /\ o.at = "found" => o.last = w[Len(w)]
    /\ o.at \in InLoop \cup {"bounded", "done"} =>
           o.stop = Min2(o.off + Len(o.buf), LimitOf(w, f, o))
    /\ o.at = "copying" => o.cur = w[((o.off + o.done) \div ClusterSize) + 1]
    /\ o.at = "crossing" => /\ o.done > 0 /\ (o.off + o.done) % ClusterSize = 0
                            /\ o.cur = w[(o.off + o.done) \div ClusterSize]
    /\ o.at = "done" => o.done = IF o.off < o.stop THEN o.stop - o.off ELSE 0
    /\ o.fn = "read_at" => \A i \in 1 .. o.done : o.buf[i] = c[o.off + i - 1]
    /\ SumsFit => Asked(n, w, o)

\* The clusters of the chain w show the content c, which is zero behind them.
Holding(w, d, c) ==
    /\ \A i \in 0 .. Cap(w) - 1 : d[w[(i \div ClusterSize) + 1]][i % ClusterSize] = c[i]
    /\ \A i \in Positions : i >= Cap(w) => c[i] = 0

Types ==
    /\ data \in [Clusters -> [0 .. ClusterSize - 1 -> Bytes]]
    /\ fileOf \in Assignments
    /\ size \in [Files -> Nat]
    /\ content \in [Files -> [Positions -> Bytes]]
    /\ op \in [Threads -> {Idle} \cup Calls]

Thread(t) ==
    op[t] # Idle =>
        /\ Where(next, Chains, fileOf[t], op[t])
        /\ t \in Alone =>
               Follows(next, Chains[fileOf[t]], fileOf[t], content[fileOf[t]], op[t])

IInv ==
    /\ Types
    /\ Structure(next, first, Chains)
    /\ (\A f \in Files : ~Shared(f)) => AllOwned(next, Chains)
    /\ \A f \in Files : ~Shared(f) => /\ size[f] <= Cap(Chains[f])
                                      /\ Holding(Chains[f], data, content[f])
    /\ \A t \in Threads : Thread(t)

-----------------------------------------------------------------------------
(* The invariant is kept.                                                  *)

LEMMA CapFacts ==
    ASSUME NEW w \in Seq(Clusters)
    PROVE  Cap(w) \in Nat /\ Len(w) \in Nat
<1>1. Len(w) \in Nat
    BY LenProperties
<1> QED
    BY <1>1, SizesAssumption DEF SizesAssumption, Cap

LEMMA ChainFacts ==
    ASSUME Structure(next, first, Chains), NEW f \in Files
    PROVE  /\ Chain(f) = Chains[f] /\ Proper(next, first[f], Chains[f])
           /\ Chains[f] \in Seq(Clusters) /\ Len(Chains[f]) \in 1 .. NoC
           /\ Capacity(f) = Cap(Chains[f]) /\ Cap(Chains[f]) \in Nat
           /\ Cap(Chains[f]) <= ClusterSize * NoC
           /\ ClusterSize * NoC \in Nat
<1>1. Chain(f) = Chains[f]
    BY DEF Chains
<1>2. Proper(next, first[f], Chains[f]) /\ first[f] \in Clusters
    BY DEF Structure
<1>3. PICK w, n, a : w = Chains[f] /\ n = next /\ a = first[f]
    OBVIOUS
<1>4. w \in Seq(Clusters) /\ Len(w) \in Nat \ {0} /\ Len(w) <= NoC
    <2>1. Proper(n, a, w) /\ a \in Clusters
        BY <1>2, <1>3
    <2> QED
        BY <2>1, ProperIsChain DEF Proper
<1>5. Cap(w) \in Nat /\ ClusterSize * Len(w) <= ClusterSize * NoC /\ ClusterSize * NoC \in Nat
    <2>1. NoC \in Nat
        BY Finite
    <2>2. ClusterSize * Len(w) <= ClusterSize * NoC
        BY <1>4, <2>1, Monotonic
    <2> QED
        BY <1>4, <2>1, <2>2, CapFacts, SizesAssumption DEF SizesAssumption
<1>6. Capacity(f) = Cap(Chains[f])
    BY <1>1 DEF Capacity, Cap
<1>7. Len(w) \in 1 .. NoC
    BY <1>4, Finite
<1> QED
    BY <1>1, <1>2, <1>3, <1>4, <1>5, <1>6, <1>7 DEF Cap

\* A step of one thread that writes no byte and links no cluster.
LEMMA LocalStep ==
    ASSUME IInv, NEW t \in Threads, NEW o \in {Idle} \cup Calls, op' = [op EXCEPT ![t] = o],
           UNCHANGED <<next, data, first, fileOf, content>>,
           size' \in [Files -> Nat],
           \A f \in Files : ~Shared(f) => size'[f] <= Cap(Chains[f]),
           o # Idle => Where(next, Chains, fileOf[t], o),
           o # Idle /\ t \in Alone =>
               Follows(next, Chains[fileOf[t]], fileOf[t], content[fileOf[t]], o)
    PROVE  IInv'
<1>1. op' \in [Threads -> {Idle} \cup Calls] /\ op'[t] = o /\ \A u \in Threads \ {t} : op'[u] = op[u]
    BY DEF IInv, Types
<1>2. Chains' = Chains /\ Alone' = Alone /\ \A f \in Files : Shared(f)' = Shared(f)
    BY DEF Chains, Chain, Alone, Shared
<1>3. Types'
    BY <1>1 DEF IInv, Types
<1>4. Structure(next, first, Chains)'
    BY <1>2 DEF IInv
<1>5. ((\A f \in Files : ~Shared(f)) => AllOwned(next, Chains))'
    BY <1>2 DEF IInv
<1>6. (\A f \in Files : ~Shared(f) => /\ size[f] <= Cap(Chains[f])
                                      /\ Holding(Chains[f], data, content[f]))'
    BY <1>2 DEF IInv
<1>7. ASSUME NEW u \in Threads PROVE Thread(u)'
    <2>1. CASE u = t
        BY <1>1, <1>2, <2>1 DEF Thread
    <2>2. CASE u # t
        BY <1>1, <1>2, <2>2 DEF Thread, IInv
    <2> QED
        BY <2>1, <2>2
<1> QED
    BY <1>3, <1>4, <1>5, <1>6, <1>7 DEF IInv

\* What IInv says of a thread in a call, and of its file.
LEMMA InCall ==
    ASSUME IInv, NEW t \in Threads, op[t] # Idle
    PROVE  /\ op[t] \in Calls /\ fileOf[t] \in Files
           /\ Where(next, Chains, fileOf[t], op[t])
           /\ t \in Alone =>
                 /\ Follows(next, Chains[fileOf[t]], fileOf[t], content[fileOf[t]], op[t])
                 /\ size[fileOf[t]] <= Cap(Chains[fileOf[t]])
                 /\ Holding(Chains[fileOf[t]], data, content[fileOf[t]])
           /\ size \in [Files -> Nat]
           /\ \A f \in Files : ~Shared(f) => size[f] <= Cap(Chains[f])
<1>1. fileOf[t] \in Files
    BY FilesAssumption DEF IInv, Types, FilesAssumption
<1> QED
    BY <1>1 DEF IInv, Types, Thread, Alone

LEMMA BusyIsCall ==
    ASSUME NEW t, NEW fns, NEW label, At(t, fns, label), label # "idle"
    PROVE  op[t] # Idle /\ op[t].at = label /\ op[t].fn \in fns
BY DEF At, Idle

LEMMA CallBuf ==
    ASSUME NEW o \in Calls
    PROVE  Len(o.buf) \in Nat /\ o.off \in Nat /\ o.done \in Nat /\ o.num \in Nat
           /\ o.stop \in Nat /\ o.size \in Nat /\ o.fn \in {"write_at", "read_at"}
           /\ o # Idle
<1>1. o.buf \in Seq(Bytes) /\ o.num \in 0 .. UsizeMax
    BY DEF Calls
<1>2. Len(o.buf) \in Nat
    BY <1>1, LenProperties
<1>3. o.num \in Nat
    BY <1>1, SizesAssumption DEF SizesAssumption
<1>4. o.at \in Labels
    BY DEF Calls
<1>5. o.at # "idle"
    BY <1>4 DEF Labels
<1>6. o # Idle
    BY <1>5 DEF Idle
<1> QED
    BY <1>2, <1>3, <1>6 DEF Calls

\* A call begins.
LEMMA BeginKeeps ==
    ASSUME IInv, NEW t \in Threads,
           \/ \E off \in Offsets, buf \in Writes : BeginWrite(t, off, buf)
           \/ \E off \in Offsets, len \in Lengths : BeginRead(t, off, len)
    PROVE  IInv'
<1>1. size \in [Files -> Nat] /\ fileOf[t] \in Files
      /\ \A f \in Files : ~Shared(f) => size[f] <= Cap(Chains[f])
    BY FilesAssumption DEF IInv, Types, FilesAssumption
<1>2. Cap(Chains[fileOf[t]]) \in Nat
    BY <1>1, ChainFacts DEF IInv
<1>3. ASSUME NEW off \in Offsets, NEW buf \in Seq(Bytes), NEW fn \in {"write_at", "read_at"},
             NEW at \in {"begun", "grown"},
             at = "begun" => buf \in Writes /\ fn = "write_at",
             at = "grown" => fn = "read_at",
             op' = [op EXCEPT ![t] = [Call(fn, off, buf) EXCEPT !.at = at]],
             UNCHANGED <<next, data, first, fileOf, size, content>>
      PROVE  IInv'
    <2>1. PICK o : o = [Call(fn, off, buf) EXCEPT !.at = at]
        OBVIOUS
    <2>2. /\ o.at = at /\ o.fn = fn /\ o.off = off /\ o.buf = buf /\ o.num = 0 /\ o.last = END
          /\ o.size = 0 /\ o.stop = 0 /\ o.cur = END /\ o.done = 0
        BY <2>1 DEF Call
    <2>3. o \in Calls /\ Len(buf) \in Nat
        <3>1. off \in Nat /\ 0 \in 0 .. UsizeMax
            BY SizesAssumption DEF SizesAssumption
        <3>2. Len(buf) \in Nat
            BY LenProperties
        <3>3. at \in Labels
            BY DEF Labels
        <3> QED
            BY <2>1, <3>1, <3>2, <3>3 DEF Call, Calls
    <2>4. Where(next, Chains, fileOf[t], o)
        BY <1>3, <2>2, <2>3 DEF Where, InLoop
    <2>5. Follows(next, Chains[fileOf[t]], fileOf[t], content[fileOf[t]], o)
        <3>1. \A i \in 1 .. o.done : o.buf[i] = content[fileOf[t]][o.off + i - 1]
            BY <2>2
        <3>2. Asked(next, Chains[fileOf[t]], o)
            BY <1>3, <2>2 DEF Asked, InLoop
        <3> QED
            BY <1>2, <2>2, <3>1, <3>2 DEF Follows, InLoop
    <2>6. op' = [op EXCEPT ![t] = o]
        BY <1>3, <2>1
    <2> QED
        BY <1>1, <1>3, <2>3, <2>4, <2>5, <2>6, LocalStep
<1>4. ASSUME NEW off \in Offsets, NEW buf \in Writes, BeginWrite(t, off, buf) PROVE IInv'
    <2>1. buf \in Seq(Bytes) /\ [Call("write_at", off, buf) EXCEPT !.at = "begun"] = Call("write_at", off, buf)
        BY BytesAssumption DEF BytesAssumption, Call
    <2> QED
        BY <1>3, <1>4, <2>1 DEF BeginWrite
<1>5. ASSUME NEW off \in Offsets, NEW len \in Lengths, BeginRead(t, off, len) PROVE IInv'
    <2>1. PICK buf : buf = [i \in 1 .. len |-> 0]
        OBVIOUS
    <2>2. buf \in Seq(Bytes)
        <3>1. buf \in [1 .. len -> Bytes] /\ len \in Nat
            BY <2>1, BytesAssumption, SizesAssumption DEF BytesAssumption, SizesAssumption
        <3> QED
            BY <3>1, SeqDef
    <2>3. op' = [op EXCEPT ![t] = [Call("read_at", off, buf) EXCEPT !.at = "grown"]]
          /\ UNCHANGED <<next, data, first, fileOf, size, content>>
        BY <1>5, <2>1 DEF BeginRead
    <2> QED
        BY <1>3, <2>2, <2>3
<1> QED
    BY <1>4, <1>5

LEMMA Quotient ==
    ASSUME NEW r \in Nat
    PROVE  /\ r \div ClusterSize \in Nat /\ r \div ClusterSize <= r
           /\ ClusterSize * (r \div ClusterSize) \in Nat
           /\ r < ClusterSize * (r \div ClusterSize) + ClusterSize
<1> DEFINE q == r \div ClusterSize
           s == r % ClusterSize
<1>1. q \in Nat /\ s \in 0 .. ClusterSize - 1 /\ r = ClusterSize * q + s
    BY Division
<1> HIDE DEF q, s
<1>2. ClusterSize \in Nat \ {0} /\ ClusterSize * q \in Nat
    BY <1>1, SizesAssumption DEF SizesAssumption
<1>3. (ClusterSize - 1) * q >= 0 /\ (ClusterSize - 1) * q = ClusterSize * q - q
    BY <1>1, <1>2
<1>4. q <= r
    BY <1>1, <1>2, <1>3
<1>5. r < ClusterSize * q + ClusterSize
    BY <1>1, <1>2
<1> QED
    BY <1>1, <1>2, <1>4, <1>5 DEF q

LEMMA ReadCapacityKeeps ==
    ASSUME IInv, NEW t \in Threads, ReadCapacity(t)
    PROVE  IInv'
<1> DEFINE f == fileOf[t]
           w == Chains[fileOf[t]]
           want == Wanted(op[t].off + Len(op[t].buf), Capacity(fileOf[t]))
           num == (want % (UsizeMax + 1)) \div ClusterSize
<1>1. op[t] # Idle /\ op[t].at = "begun" /\ op[t].fn = "write_at"
    BY BusyIsCall DEF ReadCapacity
<1>2. /\ op[t] \in Calls /\ fileOf[t] \in Files
      /\ Where(next, Chains, fileOf[t], op[t])
      /\ t \in Alone => Follows(next, Chains[fileOf[t]], fileOf[t], content[fileOf[t]], op[t])
      /\ size \in [Files -> Nat]
      /\ \A g \in Files : ~Shared(g) => size[g] <= Cap(Chains[g])
    BY <1>1, InCall
<1>3. Capacity(fileOf[t]) = Cap(w) /\ Cap(w) \in Nat
    BY <1>2, ChainFacts DEF IInv
<1>4. Len(op[t].buf) \in Nat /\ op[t].off \in Nat
    BY <1>2, CallBuf
<1>5. ClusterSize \in Nat \ {0} /\ UsizeMax \in Nat
    BY SizesAssumption DEF SizesAssumption
<1>6. want = op[t].off + Len(op[t].buf) + ClusterSize - Cap(w) /\ want \in Int
    BY <1>3, <1>4, <1>5 DEF Wanted
<1> HIDE DEF want, w
<1>7. want % (UsizeMax + 1) \in 0 .. UsizeMax
    BY <1>5, <1>6
<1>8. num \in 0 .. UsizeMax /\ num \in Nat
    <2>1. PICK r \in Nat : r = want % (UsizeMax + 1)
        BY <1>7
    <2>2. r \div ClusterSize \in Nat /\ r \div ClusterSize <= r
        BY Quotient
    <2> QED
        BY <1>5, <1>7, <2>1, <2>2
<1>9. SumsFit => op[t].off + Len(op[t].buf) <= Cap(w) + ClusterSize * num
    <2> SUFFICES ASSUME SumsFit
                 PROVE  op[t].off + Len(op[t].buf) <= Cap(w) + ClusterSize * num
        OBVIOUS
    <2>1. op[t].off \in Offsets /\ op[t].buf \in Writes
        BY <1>1, <1>2 DEF Where
    <2>2. op[t].off + Len(op[t].buf) + ClusterSize <= UsizeMax
        BY <2>1 DEF SumsFit
    <2>3. CASE want < 0
        <3>1. ClusterSize * num \in Nat
            BY <1>5, <1>8
        <3> HIDE DEF num
        <3> QED
            BY <1>3, <1>4, <1>5, <1>6, <2>3, <3>1
    <2>4. CASE want >= 0
        <3>1. want \in Nat /\ want <= UsizeMax
            BY <1>3, <1>4, <1>5, <1>6, <2>2, <2>4
        <3>2. want % (UsizeMax + 1) = want
            BY <1>5, <3>1
        <3>3. PICK r \in Nat : r = want
            BY <3>1
        <3>4. ClusterSize * (r \div ClusterSize) \in Nat
              /\ r < ClusterSize * (r \div ClusterSize) + ClusterSize
            BY Quotient
        <3>5. num = r \div ClusterSize
            BY <3>2, <3>3
        <3> HIDE DEF num
        <3>6. PICK x \in Nat : x = ClusterSize * num /\ r < x + ClusterSize
            BY <3>4, <3>5
        <3>7. op[t].off + Len(op[t].buf) <= Cap(w) + x
            <4>1. PICK a \in Nat, b \in Nat, c \in Nat :
                     a = op[t].off /\ b = Len(op[t].buf) /\ c = Cap(w)
                BY <1>3, <1>4
            <4>2. r = a + b + ClusterSize - c
                BY <1>6, <3>3, <4>1
            <4>3. a + b <= c + x
                BY <1>5, <3>6, <4>2
            <4> QED
                BY <4>1, <4>3
        <3> QED
            BY <3>6, <3>7
    <2> QED
        BY <1>6, <2>3, <2>4
<1> HIDE DEF num
<1>10. PICK o : o = IF want < 0 /\ OverflowChecks THEN [op[t] EXCEPT !.at = "panicked"]
                    ELSE [op[t] EXCEPT !.at = "sized", !.num = num]
    OBVIOUS
<1>11. op' = [op EXCEPT ![t] = o] /\ UNCHANGED <<next, data, first, fileOf, size, content>>
    BY <1>10 DEF ReadCapacity, want, num
<1>12. /\ o \in Calls /\ o.at \in {"panicked", "sized"} /\ (o.at = "sized" => o.num = num)
       /\ o.fn = op[t].fn /\ o.off = op[t].off /\ o.buf = op[t].buf
       /\ o.size = op[t].size /\ o.done = op[t].done
    BY <1>2, <1>8, <1>10 DEF Calls, Labels
<1>13. Where(next, Chains, fileOf[t], o)
    BY <1>1, <1>2, <1>12 DEF Where, InLoop, Early
<1>14. ASSUME t \in Alone PROVE Follows(next, Chains[fileOf[t]], fileOf[t], content[fileOf[t]], o)
    <2>1. SumsFit => Asked(next, Chains[fileOf[t]], o)
        BY <1>1, <1>9, <1>12 DEF Asked, InLoop, w
    <2> QED
        BY <1>1, <1>2, <1>12, <1>14, <2>1 DEF Follows, InLoop
<1> QED
    BY <1>2, <1>11, <1>12, <1>13, <1>14, LocalStep

LEMMA LastClusterKeeps ==
    ASSUME IInv, NEW t \in Threads, LastCluster(t)
    PROVE  IInv'
<1> DEFINE w == Chains[fileOf[t]]
<1>1. op[t] # Idle /\ op[t].at = "sized"
    BY BusyIsCall DEF LastCluster
<1>2. /\ op[t] \in Calls /\ fileOf[t] \in Files
      /\ Where(next, Chains, fileOf[t], op[t])
      /\ t \in Alone => Follows(next, Chains[fileOf[t]], fileOf[t], content[fileOf[t]], op[t])
      /\ size \in [Files -> Nat]
      /\ \A g \in Files : ~Shared(g) => size[g] <= Cap(Chains[g])
    BY <1>1, InCall
<1>3. /\ Chain(fileOf[t]) = w /\ w \in Seq(Clusters) /\ Len(w) \in 1 .. Len(w)
      /\ Last(Chain(fileOf[t])) = w[Len(w)]
    <2>1. Chain(fileOf[t]) = w /\ w \in Seq(Clusters) /\ Len(w) \in 1 .. NoC
        BY <1>2, ChainFacts DEF IInv
    <2>2. Len(w) \in 1 .. Len(w)
        BY <2>1, Finite
    <2> QED
        BY <2>1, <2>2 DEF Last
<1>4. Own(next, Chains, fileOf[t], w[Len(w)]) /\ w[Len(w)] \in Clusters
    BY <1>2, <1>3 DEF IInv, Structure, Own
<1> HIDE DEF w
<1>5. PICK o : o = [op[t] EXCEPT !.at = "found", !.last = w[Len(w)]]
    OBVIOUS
<1>6. op' = [op EXCEPT ![t] = o] /\ UNCHANGED <<next, data, first, fileOf, size, content>>
    BY <1>3, <1>5 DEF LastCluster
<1>7. /\ o \in Calls /\ o.at = "found" /\ o.last = w[Len(w)] /\ o.num = op[t].num
      /\ o.fn = op[t].fn /\ o.off = op[t].off /\ o.buf = op[t].buf
      /\ o.size = op[t].size /\ o.done = op[t].done
    BY <1>2, <1>4, <1>5 DEF Calls, Labels
<1>8. Where(next, Chains, fileOf[t], o)
    BY <1>1, <1>2, <1>4, <1>7 DEF Where, InLoop, Early
<1>9. ASSUME t \in Alone PROVE Follows(next, Chains[fileOf[t]], fileOf[t], content[fileOf[t]], o)
    BY <1>1, <1>2, <1>7, <1>9 DEF Follows, InLoop, Asked, w
<1> QED
    BY <1>2, <1>6, <1>7, <1>8, <1>9, LocalStep

LEMMA CopyEntryKeeps ==
    ASSUME IInv, NEW t \in Threads, CopyEntry(t)
    PROVE  IInv'
<1>1. op[t] # Idle /\ op[t].at = "grown"
    BY BusyIsCall DEF CopyEntry
<1>2. /\ op[t] \in Calls /\ fileOf[t] \in Files
      /\ Where(next, Chains, fileOf[t], op[t])
      /\ t \in Alone => /\ Follows(next, Chains[fileOf[t]], fileOf[t], content[fileOf[t]], op[t])
                        /\ size[fileOf[t]] <= Cap(Chains[fileOf[t]])
      /\ size \in [Files -> Nat]
      /\ \A g \in Files : ~Shared(g) => size[g] <= Cap(Chains[g])
    BY <1>1, InCall
<1>3. PICK o : o = [op[t] EXCEPT !.at = "copied", !.size = size[fileOf[t]]]
    OBVIOUS
<1>4. op' = [op EXCEPT ![t] = o] /\ UNCHANGED <<next, data, first, fileOf, size, content>>
    BY <1>3 DEF CopyEntry
<1>5. /\ o \in Calls /\ o.at = "copied" /\ o.num = op[t].num
      /\ o.fn = op[t].fn /\ o.off = op[t].off /\ o.buf = op[t].buf
      /\ o.size = size[fileOf[t]] /\ o.done = op[t].done
    BY <1>2, <1>3 DEF Calls, Labels
<1>6. Where(next, Chains, fileOf[t], o)
    BY <1>1, <1>2, <1>5 DEF Where, InLoop, Early
<1>7. ASSUME t \in Alone PROVE Follows(next, Chains[fileOf[t]], fileOf[t], content[fileOf[t]], o)
    BY <1>1, <1>2, <1>5, <1>7 DEF Follows, InLoop, Asked
<1> QED
    BY <1>2, <1>4, <1>5, <1>6, <1>7, LocalStep

LEMMA SetBoundsKeeps ==
    ASSUME IInv, NEW t \in Threads, SetBounds(t)
    PROVE  IInv'
<1> DEFINE w == Chains[fileOf[t]]
           stop == Min2(op[t].off + Len(op[t].buf), Limit(t))
<1>1. op[t] # Idle /\ op[t].at = "copied"
    BY BusyIsCall DEF SetBounds
<1>2. /\ op[t] \in Calls /\ fileOf[t] \in Files
      /\ Where(next, Chains, fileOf[t], op[t])
      /\ t \in Alone => Follows(next, Chains[fileOf[t]], fileOf[t], content[fileOf[t]], op[t])
      /\ size \in [Files -> Nat]
      /\ \A g \in Files : ~Shared(g) => size[g] <= Cap(Chains[g])
    BY <1>1, InCall
<1>3. /\ Len(op[t].buf) \in Nat /\ op[t].off \in Nat /\ op[t].size \in Nat
      /\ Capacity(fileOf[t]) = Cap(w) /\ Cap(w) \in Nat
    BY <1>2, CallBuf, ChainFacts DEF IInv
<1>4. Limit(t) \in Nat /\ Limit(t) = LimitOf(w, fileOf[t], op[t])
    BY <1>3 DEF Limit, LimitOf
<1>5. stop \in Nat /\ stop <= op[t].off + Len(op[t].buf)
    BY <1>3, <1>4 DEF Min2
<1> HIDE DEF stop, w
<1>6. PICK o : o = [op[t] EXCEPT !.at = IF op[t].off >= stop THEN "done" ELSE "bounded",
                                 !.stop = stop]
    OBVIOUS
<1>7. op' = [op EXCEPT ![t] = o] /\ UNCHANGED <<next, data, first, fileOf, size, content>>
    BY <1>6 DEF SetBounds, stop
<1>8. /\ o \in Calls /\ o.at \in {"done", "bounded"} /\ o.num = op[t].num
      /\ o.at = "done" => op[t].off >= stop
      /\ o.at = "bounded" => ~(op[t].off >= stop)
      /\ o.fn = op[t].fn /\ o.off = op[t].off /\ o.buf = op[t].buf
      /\ o.size = op[t].size /\ o.done = op[t].done /\ o.stop = stop
    BY <1>2, <1>5, <1>6 DEF Calls, Labels
<1>9. op[t].done = 0 /\ op[t].done <= Len(op[t].buf)
    BY <1>1, <1>2 DEF Where, Early
<1>10. Where(next, Chains, fileOf[t], o)
    BY <1>1, <1>2, <1>3, <1>5, <1>8, <1>9 DEF Where, InLoop, Early
<1>11. ASSUME t \in Alone PROVE Follows(next, Chains[fileOf[t]], fileOf[t], content[fileOf[t]], o)
    <2>1. o.stop = Min2(o.off + Len(o.buf), LimitOf(w, fileOf[t], o))
        BY <1>4, <1>8 DEF stop, LimitOf
    <2>2. o.at = "done" => o.done = IF o.off < o.stop THEN o.stop - o.off ELSE 0
        BY <1>3, <1>5, <1>8, <1>9
    <2>3. SumsFit => Asked(next, w, o)
        BY <1>1, <1>2, <1>8, <1>11 DEF Follows, Asked, InLoop, w
    <2>4. o.fn = "read_at" => \A i \in 1 .. o.done : o.buf[i] = content[fileOf[t]][o.off + i - 1]
        BY <1>8, <1>9
    <2> QED
        BY <1>2, <1>8, <1>11, <2>1, <2>2, <2>3, <2>4 DEF Follows, InLoop, w
<1> QED
    BY <1>2, <1>7, <1>8, <1>10, <1>11, LocalStep

LEMMA FinishKeeps ==
    ASSUME IInv, NEW t \in Threads, FinishWrite(t) \/ FinishRead(t)
    PROVE  IInv'
<1> DEFINE f == fileOf[t]
           w == Chains[fileOf[t]]
<1>1. op[t] # Idle /\ op[t].at = "done"
    BY BusyIsCall DEF FinishWrite, FinishRead
<1>2. /\ op[t] \in Calls /\ f \in Files
      /\ t \in Alone => Follows(next, w, f, content[f], op[t])
      /\ size \in [Files -> Nat]
      /\ \A g \in Files : ~Shared(g) => size[g] <= Cap(Chains[g])
    BY <1>1, InCall
<1>3. PICK o : o = Idle
    OBVIOUS
<1>4. op' = [op EXCEPT ![t] = o] /\ UNCHANGED <<next, data, first, fileOf, content>>
    BY <1>3 DEF FinishWrite, FinishRead
<1>5. \/ size' = size
      \/ f \notin Dirs /\ op[t].fn = "write_at" /\ size' = [size EXCEPT ![f] = op[t].done]
    BY BusyIsCall DEF FinishWrite, FinishRead, At
<1>6. /\ Len(op[t].buf) \in Nat /\ op[t].off \in Nat /\ op[t].done \in Nat /\ Cap(w) \in Nat
      /\ op[t].stop \in Nat
    BY <1>2, CallBuf, ChainFacts DEF IInv
<1>7. ASSUME t \in Alone, op[t].fn = "write_at" PROVE op[t].done <= Cap(w)
    <2>1. /\ op[t].stop = Min2(op[t].off + Len(op[t].buf), Cap(w))
          /\ op[t].done = IF op[t].off < op[t].stop THEN op[t].stop - op[t].off ELSE 0
        BY <1>1, <1>2, <1>7 DEF Follows, InLoop, LimitOf
    <2> HIDE DEF w, f
    <2>2. op[t].stop <= Cap(w)
        BY <1>6, <2>1 DEF Min2
    <2> QED
        BY <1>6, <2>1, <2>2
<1>8. size' \in [Files -> Nat]
    BY <1>2, <1>5, <1>6
<1>9. ASSUME NEW g \in Files, ~Shared(g) PROVE size'[g] <= Cap(Chains[g])
    <2>1. CASE size' = size
        BY <1>2, <1>9, <2>1
    <2>2. CASE op[t].fn = "write_at" /\ size' = [size EXCEPT ![f] = op[t].done]
        <3>1. CASE g = f
            <4>1. t \in Alone
                BY <1>9, <3>1 DEF Alone
            <4>2. size'[g] = op[t].done
                BY <1>2, <2>2, <3>1
            <4> QED
                BY <1>7, <2>2, <3>1, <4>1, <4>2
        <3>2. CASE g # f
            <4>1. size'[g] = size[g]
                BY <1>2, <2>2, <3>2
            <4> QED
                BY <1>2, <1>9, <4>1
        <3> QED
            BY <3>1, <3>2
    <2> QED
        BY <1>5, <2>1, <2>2
<1> QED
    BY <1>3, <1>4, <1>8, <1>9, LocalStep

LEMMA FindClusterKeeps ==
    ASSUME IInv, NEW t \in Threads, FindCluster(t)
    PROVE  IInv'
<1> DEFINE w == Chains[fileOf[t]]
           index == op[t].off \div ClusterSize
<1>1. op[t] # Idle /\ op[t].at = "bounded"
    BY BusyIsCall DEF FindCluster
<1>2. /\ op[t] \in Calls /\ fileOf[t] \in Files
      /\ Where(next, Chains, fileOf[t], op[t])
      /\ t \in Alone => Follows(next, w, fileOf[t], content[fileOf[t]], op[t])
      /\ size \in [Files -> Nat]
      /\ \A g \in Files : ~Shared(g) => size[g] <= Cap(Chains[g])
    BY <1>1, InCall
<1>3. /\ Len(op[t].buf) \in Nat /\ op[t].off \in Nat /\ op[t].stop \in Nat
      /\ op[t].size \in Nat /\ Chain(fileOf[t]) = w /\ Cap(w) \in Nat
      /\ w \in Seq(Clusters) /\ Len(w) \in Nat
    <2>1. Len(w) \in 1 .. NoC
        BY <1>2, ChainFacts DEF IInv
    <2>2. Len(w) \in Nat
        BY <2>1, Finite
    <2> QED
        BY <1>2, <2>2, CallBuf, ChainFacts DEF IInv
<1>4. op[t].done = 0 /\ op[t].off < op[t].stop
    BY <1>1, <1>2, <1>3 DEF Where, Early
<1>5. index \in Nat /\ (op[t].off < Cap(w) => index < Len(w))
    <2>1. PICK i \in Nat, k \in Nat : i = op[t].off /\ k = Len(w)
        BY <1>3
    <2>2. i \div ClusterSize \in Nat /\ (i < ClusterSize * k => i \div ClusterSize < k)
        BY Division, IndexBelow
    <2> QED
        BY <2>1, <2>2 DEF Cap
<1>6. index < Len(w) => Own(next, Chains, fileOf[t], w[index + 1]) /\ w[index + 1] \in Clusters
    <2>1. SUFFICES ASSUME index < Len(w)
                   PROVE  Own(next, Chains, fileOf[t], w[index + 1]) /\ w[index + 1] \in Clusters
        OBVIOUS
    <2>2. index + 1 \in 1 .. Len(w)
        BY <1>3, <1>5, <2>1
    <2> QED
        BY <1>2, <2>2 DEF IInv, Structure, Own
<1>7. t \in Alone => index < Len(w)
    <2> SUFFICES ASSUME t \in Alone PROVE op[t].off < Cap(w)
        BY <1>5
    <2>1. /\ op[t].stop = Min2(op[t].off + Len(op[t].buf), LimitOf(w, fileOf[t], op[t]))
          /\ op[t].size <= Cap(w)
        BY <1>1, <1>2 DEF Follows, InLoop
    <2> HIDE DEF w
    <2>2. LimitOf(w, fileOf[t], op[t]) \in Nat /\ LimitOf(w, fileOf[t], op[t]) <= Cap(w)
        BY <1>3, <2>1 DEF LimitOf
    <2> QED
        BY <1>3, <1>4, <2>1, <2>2 DEF Min2
<1> HIDE DEF w, index
<1>8. PICK o : o = IF index < Len(w) THEN [op[t] EXCEPT !.at = "copying", !.cur = w[index + 1]]
                   ELSE [op[t] EXCEPT !.at = "done"]
    OBVIOUS
<1>9. op' = [op EXCEPT ![t] = o] /\ UNCHANGED <<next, data, first, fileOf, size, content>>
    BY <1>3, <1>8 DEF FindCluster, index
<1>10. /\ o \in Calls /\ o.at \in {"done", "copying"} /\ o.num = op[t].num
       /\ o.at = "copying" => index < Len(w) /\ o.cur = w[index + 1]
       /\ index < Len(w) => o.at = "copying"
       /\ o.fn = op[t].fn /\ o.off = op[t].off /\ o.buf = op[t].buf
       /\ o.size = op[t].size /\ o.done = op[t].done /\ o.stop = op[t].stop
    BY <1>2, <1>6, <1>8 DEF Calls, Labels
<1>11. Where(next, Chains, fileOf[t], o)
    BY <1>1, <1>2, <1>6, <1>10 DEF Where, InLoop, Early
<1>12. ASSUME t \in Alone PROVE Follows(next, Chains[fileOf[t]], fileOf[t], content[fileOf[t]], o)
    <2>1. o.at = "copying" /\ o.cur = w[index + 1]
        BY <1>7, <1>10, <1>12
    <2>2. o.off + o.done = op[t].off
        BY <1>3, <1>4, <1>10
    <2>3. o.stop = Min2(o.off + Len(o.buf), LimitOf(w, fileOf[t], o))
        BY <1>1, <1>2, <1>10, <1>12 DEF Follows, InLoop, LimitOf
    <2>4. SumsFit => Asked(next, w, o)
        BY <1>1, <1>2, <1>10, <1>12, <2>1 DEF Follows, Asked, InLoop
    <2>5. o.size <= Cap(w) /\
          (o.fn = "read_at" => \A i \in 1 .. o.done : o.buf[i] = content[fileOf[t]][o.off + i - 1])
        BY <1>2, <1>10, <1>12 DEF Follows
    <2>6. Follows(next, w, fileOf[t], content[fileOf[t]], o)
        BY <2>1, <2>2, <2>3, <2>4, <2>5 DEF Follows, InLoop, index
    <2> QED
        BY <2>6 DEF w
<1> QED
    BY <1>2, <1>9, <1>10, <1>11, <1>12, LocalStep

\* The cluster after one that is its file's is its file's.
LEMMA OwnNext ==
    ASSUME NEW n, NEW a, NEW C, Structure(n, a, C), NEW f \in Files, NEW c, Own(n, C, f, c),
           n[c] \in Clusters
    PROVE  Own(n, C, f, n[c])
<1>1. c \in Clusters /\ n[n[c]] # FREE
    BY DEF Own, Structure, Tables
<1>2. ASSUME NEW g \in Files, g # f, NEW i \in 1 .. Len(C[g]), C[g][i] = n[c] PROVE FALSE
    <2>1. Len(C[g]) \in Nat /\ C[g][1] = a[g]
          /\ \A j \in 1 .. Len(C[g]) - 1 : n[C[g][j]] = C[g][j + 1]
        BY DEF Structure, Proper
    <2>2. CASE i = 1
        BY <1>1, <1>2, <2>1, <2>2 DEF Structure
    <2>3. CASE i # 1
        <3>1. PICK j \in 1 .. Len(C[g]) - 1 : i = j + 1 /\ j \in 1 .. Len(C[g])
            <4>1. i - 1 \in 1 .. Len(C[g]) - 1 /\ i = (i - 1) + 1 /\ i - 1 \in 1 .. Len(C[g])
                BY <2>1, <2>3
            <4> QED
                BY <4>1
        <3>2. n[C[g][j]] = n[c] /\ C[g][j] \in Clusters
            BY <1>2, <2>1, <3>1 DEF Structure, Own
        <3>3. C[g][j] = c
            BY <1>1, <3>2 DEF Structure
        <3> QED
            BY <1>2, <3>1, <3>3 DEF Own
    <2> QED
        BY <2>2, <2>3
<1> QED
    BY <1>1, <1>2 DEF Own

LEMMA NextClusterKeeps ==
    ASSUME IInv, NEW t \in Threads, NextCluster(t)
    PROVE  IInv'
<1> DEFINE w == Chains[fileOf[t]]
           pos == op[t].off + op[t].done
           index == pos \div ClusterSize
<1>1. op[t] # Idle /\ op[t].at = "crossing"
    BY BusyIsCall DEF NextCluster
<1>2. /\ op[t] \in Calls /\ fileOf[t] \in Files
      /\ Where(next, Chains, fileOf[t], op[t])
      /\ t \in Alone => Follows(next, w, fileOf[t], content[fileOf[t]], op[t])
      /\ size \in [Files -> Nat]
      /\ \A g \in Files : ~Shared(g) => size[g] <= Cap(Chains[g])
      /\ Structure(next, first, Chains)
    BY <1>1, InCall DEF IInv
<1>3. /\ Len(op[t].buf) \in Nat /\ op[t].off \in Nat /\ op[t].stop \in Nat
      /\ op[t].size \in Nat /\ op[t].done \in Nat /\ Cap(w) \in Nat
      /\ w \in Seq(Clusters) /\ Len(w) \in Nat
    <2>1. Len(w) \in 1 .. NoC
        BY <1>2, ChainFacts
    <2>2. Len(w) \in Nat
        BY <2>1, Finite
    <2> QED
        BY <1>2, <2>2, CallBuf, ChainFacts
<1>4. pos \in Nat /\ pos < op[t].stop /\ Own(next, Chains, fileOf[t], op[t].cur)
    BY <1>1, <1>2, <1>3 DEF Where, InLoop
<1>5. next[op[t].cur] \in Clusters => Own(next, Chains, fileOf[t], next[op[t].cur])
    <2>1. PICK n, a, C, c : n = next /\ a = first /\ C = Chains /\ c = op[t].cur
        OBVIOUS
    <2> HIDE DEF w, pos, index
    <2> QED
        BY <1>2, <1>4, <2>1, OwnNext
<1>6. t \in Alone => /\ next[op[t].cur] \in Clusters
                     /\ next[op[t].cur] = w[index + 1]
    <2> SUFFICES ASSUME t \in Alone
                 PROVE  next[op[t].cur] \in Clusters /\ next[op[t].cur] = w[index + 1]
        OBVIOUS
    <2>1. /\ op[t].stop = Min2(op[t].off + Len(op[t].buf), LimitOf(w, fileOf[t], op[t]))
          /\ op[t].size <= Cap(w) /\ op[t].done > 0
          /\ pos % ClusterSize = 0 /\ op[t].cur = w[index]
        BY <1>1, <1>2 DEF Follows, InLoop
    <2>2. pos < Cap(w)
        <3> HIDE DEF w, pos
        <3>1. LimitOf(w, fileOf[t], op[t]) \in Nat /\ LimitOf(w, fileOf[t], op[t]) <= Cap(w)
            BY <1>3, <2>1 DEF LimitOf
        <3> QED
            BY <1>3, <1>4, <2>1, <3>1 DEF Min2
    <2>3. index \in Nat /\ index < Len(w)
        <3>1. PICK i \in Nat, k \in Nat : i = pos /\ k = Len(w)
            BY <1>3, <1>4
        <3>2. i \div ClusterSize \in Nat /\ (i < ClusterSize * k => i \div ClusterSize < k)
            BY Division, IndexBelow
        <3> QED
            BY <2>2, <3>1, <3>2 DEF Cap
    <2>4. index # 0
        <3>1. SUFFICES ASSUME index = 0 PROVE FALSE
            OBVIOUS
        <3>2. PICK i \in Nat : i = pos
            BY <1>4
        <3>3. i = ClusterSize * (i \div ClusterSize) + (i % ClusterSize)
            BY Division
        <3>4. i \div ClusterSize = 0 /\ i % ClusterSize = 0
            BY <2>1, <3>1, <3>2
        <3>5. i = ClusterSize * 0 + 0
            BY <3>3, <3>4
        <3>6. i = 0
            BY <3>5, SizesAssumption DEF SizesAssumption
        <3> HIDE DEF index
        <3> QED
            BY <1>3, <2>1, <3>2, <3>6
    <2>5. index \in 1 .. Len(w) - 1 /\ index + 1 \in 1 .. Len(w)
        BY <1>3, <2>3, <2>4
    <2>6. next[w[index]] = w[index + 1]
        BY <1>2, <2>5 DEF Structure, Proper
    <2>7. w[index + 1] \in Clusters
        BY <1>3, <2>5, ElementOfSeq
    <2> QED
        BY <2>1, <2>6, <2>7
<1> HIDE DEF w, index
<1>7. PICK o : o = IF next[op[t].cur] \in Clusters
                   THEN [op[t] EXCEPT !.at = "copying", !.cur = next[op[t].cur]]
                   ELSE [op[t] EXCEPT !.at = "done"]
    OBVIOUS
<1>8. op' = [op EXCEPT ![t] = o] /\ UNCHANGED <<next, data, first, fileOf, size, content>>
    BY <1>7 DEF NextCluster, Linked
<1>9. /\ o \in Calls /\ o.at \in {"done", "copying"} /\ o.num = op[t].num
      /\ o.at = "copying" => next[op[t].cur] \in Clusters /\ o.cur = next[op[t].cur]
      /\ next[op[t].cur] \in Clusters => o.at = "copying"
      /\ o.fn = op[t].fn /\ o.off = op[t].off /\ o.buf = op[t].buf
      /\ o.size = op[t].size /\ o.done = op[t].done /\ o.stop = op[t].stop
    BY <1>2, <1>7 DEF Calls, Labels
<1>10. Where(next, Chains, fileOf[t], o)
    BY <1>1, <1>2, <1>5, <1>9 DEF Where, InLoop, Early
<1>11. ASSUME t \in Alone PROVE Follows(next, Chains[fileOf[t]], fileOf[t], content[fileOf[t]], o)
    <2>1. o.at = "copying" /\ o.cur = w[index + 1] /\ o.off + o.done = pos
        BY <1>6, <1>9, <1>11
    <2>2. o.stop = Min2(o.off + Len(o.buf), LimitOf(w, fileOf[t], o))
        BY <1>1, <1>2, <1>9, <1>11 DEF Follows, InLoop, LimitOf
    <2>3. SumsFit => Asked(next, w, o)
        BY <1>1, <1>2, <1>9, <1>11, <2>1 DEF Follows, Asked, InLoop
    <2>4. o.size <= Cap(w) /\
          (o.fn = "read_at" => \A i \in 1 .. o.done : o.buf[i] = content[fileOf[t]][o.off + i - 1])
        BY <1>2, <1>9, <1>11 DEF Follows
    <2>5. Follows(next, w, fileOf[t], content[fileOf[t]], o)
        <3> HIDE DEF pos
        <3>1. o.cur = w[((o.off + o.done) \div ClusterSize) + 1]
            BY <2>1 DEF index
        <3> QED
            BY <2>1, <2>2, <2>3, <2>4, <3>1 DEF Follows, InLoop
    <2> QED
        BY <2>5 DEF w
<1> QED
    BY <1>2, <1>8, <1>9, <1>10, <1>11, LocalStep

\* One more byte.
LEMMA Advancing ==
    ASSUME NEW n, NEW C, NEW f, NEW o \in Calls, o.at = "copying", Where(n, C, f, o),
           NEW p, p = Advanced(o)
    PROVE  /\ p \in Calls /\ Where(n, C, f, p)
           /\ \A c : \A w \in Seq(Clusters) :
                 Follows(n, w, f, c, o) /\ (o.fn = "read_at" => o.buf[o.done + 1] = c[o.off + o.done])
                     => Follows(n, w, f, c, p)
<1> DEFINE pos == o.off + o.done
<1>1. /\ Len(o.buf) \in Nat /\ o.off \in Nat /\ o.done \in Nat
      /\ o.stop \in Nat /\ o.size \in Nat
    BY CallBuf
<1>2. o.done <= Len(o.buf) /\ pos < o.stop /\ o.stop <= o.off + Len(o.buf) /\ Own(n, C, f, o.cur)
    BY DEF Where, InLoop
<1>3. /\ p \in Calls /\ p.done = o.done + 1
      /\ p.at = IF pos + 1 = o.stop THEN "done"
                ELSE IF (pos + 1) % ClusterSize = 0 THEN "crossing" ELSE "copying"
      /\ p.fn = o.fn /\ p.off = o.off /\ p.buf = o.buf /\ p.num = o.num /\ p.cur = o.cur
      /\ p.stop = o.stop /\ p.size = o.size
    <2>1. PICK a : a = IF pos + 1 = o.stop THEN "done"
                       ELSE IF (pos + 1) % ClusterSize = 0 THEN "crossing" ELSE "copying"
        OBVIOUS
    <2>2. a \in Labels
        BY <2>1 DEF Labels
    <2>3. o.off + o.done + 1 = pos + 1
        OBVIOUS
    <2>4. p = [o EXCEPT !.done = o.done + 1, !.at = a]
        BY <2>1, <2>3 DEF Advanced
    <2>5. /\ p \in Calls /\ p.done = o.done + 1 /\ p.at = a
          /\ p.fn = o.fn /\ p.off = o.off /\ p.buf = o.buf /\ p.num = o.num /\ p.cur = o.cur
          /\ p.stop = o.stop /\ p.size = o.size
        <3>1. o.done + 1 \in Nat
            BY <1>1
        <3> QED
            BY <2>2, <2>4, <3>1 DEF Calls
    <2> QED
        BY <2>1, <2>5
<1>4. p.off + p.done = pos + 1
    BY <1>1, <1>3
<1>5. Where(n, C, f, p)
    <2>1. p.done <= Len(p.buf)
        BY <1>1, <1>2, <1>3
    <2>2. p.at \in InLoop => p.off + p.done < p.stop /\ p.stop <= p.off + Len(p.buf)
        <3>1. p.at \in InLoop => pos + 1 # o.stop
            BY <1>3 DEF InLoop
        <3> QED
            BY <1>1, <1>2, <1>3, <1>4, <3>1
    <2>3. p.at \in {"done", "crossing", "copying"}
        BY <1>3
    <2> QED
        BY <1>2, <1>3, <2>1, <2>2, <2>3 DEF Where, InLoop, Early
<1>6. ASSUME NEW c, NEW w \in Seq(Clusters), Follows(n, w, f, c, o),
             o.fn = "read_at" => o.buf[o.done + 1] = c[o.off + o.done]
      PROVE  Follows(n, w, f, c, p)
    <2>1. o.stop = Min2(o.off + Len(o.buf), LimitOf(w, f, o))
          /\ o.cur = w[(pos \div ClusterSize) + 1]
        BY <1>6 DEF Follows, InLoop
    <2>2. p.at \in {"done", "crossing", "copying"}
        BY <1>3
    <2>3. p.stop = Min2(p.off + Len(p.buf), LimitOf(w, f, p))
        BY <1>3, <2>1 DEF LimitOf
    <2>4. p.at = "copying" => p.cur = w[((p.off + p.done) \div ClusterSize) + 1]
        <3> SUFFICES ASSUME p.at = "copying"
                     PROVE  p.cur = w[((p.off + p.done) \div ClusterSize) + 1]
            OBVIOUS
        <3>1. (pos + 1) % ClusterSize # 0
            BY <1>3
        <3>2. PICK i \in Nat : i = pos
            BY <1>1
        <3>3. (i + 1) \div ClusterSize = i \div ClusterSize
            BY <3>1, <3>2, NextPosition
        <3>4. (p.off + p.done) \div ClusterSize = pos \div ClusterSize
            BY <1>4, <3>2, <3>3
        <3> QED
            BY <1>3, <2>1, <3>4
    <2>5. p.at = "crossing" => /\ p.done > 0 /\ (p.off + p.done) % ClusterSize = 0
                               /\ p.cur = w[(p.off + p.done) \div ClusterSize]
        <3> SUFFICES ASSUME p.at = "crossing"
                     PROVE  /\ p.done > 0 /\ (p.off + p.done) % ClusterSize = 0
                            /\ p.cur = w[(p.off + p.done) \div ClusterSize]
            OBVIOUS
        <3>1. (pos + 1) % ClusterSize = 0
            BY <1>3
        <3>2. PICK i \in Nat : i = pos
            BY <1>1
        <3>3. (i + 1) \div ClusterSize = (i \div ClusterSize) + 1
            BY <3>1, <3>2, NextPosition
        <3>4. (p.off + p.done) \div ClusterSize = (pos \div ClusterSize) + 1
            BY <1>4, <3>2, <3>3
        <3>5. p.done > 0
            BY <1>1, <1>3
        <3> QED
            BY <1>3, <1>4, <2>1, <3>1, <3>4, <3>5
    <2>6. p.at = "done" => p.done = IF p.off < p.stop THEN p.stop - p.off ELSE 0
        <3> SUFFICES ASSUME p.at = "done"
                     PROVE  p.done = IF p.off < p.stop THEN p.stop - p.off ELSE 0
            OBVIOUS
        <3>1. pos + 1 = o.stop
            BY <1>3
        <3> QED
            BY <1>1, <1>3, <3>1
    <2>7. p.fn = "read_at" => \A i \in 1 .. p.done : p.buf[i] = c[p.off + i - 1]
        <3> SUFFICES ASSUME p.fn = "read_at", NEW i \in 1 .. p.done PROVE p.buf[i] = c[p.off + i - 1]
            OBVIOUS
        <3>1. CASE i = o.done + 1
            <4>1. p.off + i - 1 = o.off + o.done
                BY <1>1, <1>3, <3>1
            <4> QED
                BY <1>3, <1>6, <3>1, <4>1
        <3>2. CASE i # o.done + 1
            <4>1. i \in 1 .. o.done
                BY <1>1, <1>3, <3>2
            <4> QED
                BY <1>3, <1>6, <4>1 DEF Follows
        <3> QED
            BY <3>1, <3>2
    <2>8. SumsFit => Asked(n, w, p)
        BY <1>3, <1>6, <2>2 DEF Follows, Asked, InLoop
    <2>9. p.size <= Cap(w)
        BY <1>3, <1>6 DEF Follows
    <2> QED
        BY <2>2, <2>3, <2>4, <2>5, <2>6, <2>7, <2>8, <2>9 DEF Follows, InLoop
<1> QED
    BY <1>3, <1>5, <1>6

\* Where the byte at the position of a call on an unshared file lies.
LEMMA AtPosition ==
    ASSUME IInv, NEW t \in Alone, op[t] # Idle, op[t].at = "copying"
    PROVE  /\ Pos(t) \in Nat /\ Pos(t) < Cap(Chains[fileOf[t]])
           /\ Pos(t) \in Positions
           /\ (Pos(t) \div ClusterSize) + 1 \in 1 .. Len(Chains[fileOf[t]])
           /\ op[t].cur = Chains[fileOf[t]][(Pos(t) \div ClusterSize) + 1]
<1> DEFINE w == Chains[fileOf[t]]
           pos == Pos(t)
<1>1. /\ op[t] \in Calls /\ fileOf[t] \in Files /\ t \in Threads
      /\ Where(next, Chains, fileOf[t], op[t])
      /\ Follows(next, w, fileOf[t], content[fileOf[t]], op[t])
    BY InCall DEF Alone
<1>2. /\ Len(op[t].buf) \in Nat /\ op[t].off \in Nat /\ op[t].stop \in Nat
      /\ op[t].size \in Nat /\ op[t].done \in Nat /\ Cap(w) \in Nat
      /\ w \in Seq(Clusters) /\ Len(w) \in Nat
      /\ Cap(w) <= ClusterSize * NoC /\ ClusterSize * NoC \in Nat
    <2>1. Len(w) \in 1 .. NoC
        BY <1>1, ChainFacts DEF IInv
    <2>2. Len(w) \in Nat
        BY <2>1, Finite
    <2> QED
        BY <1>1, <2>2, CallBuf, ChainFacts DEF IInv
<1>3. pos \in Nat /\ pos < op[t].stop
    BY <1>1, <1>2 DEF Where, InLoop, Pos
<1>4. /\ op[t].stop = Min2(op[t].off + Len(op[t].buf), LimitOf(w, fileOf[t], op[t]))
      /\ op[t].size <= Cap(w) /\ op[t].cur = w[(pos \div ClusterSize) + 1]
    BY <1>1 DEF Follows, InLoop, Pos
<1>5. pos < Cap(w)
    <2> HIDE DEF w, pos
    <2>1. LimitOf(w, fileOf[t], op[t]) \in Nat /\ LimitOf(w, fileOf[t], op[t]) <= Cap(w)
        BY <1>2, <1>4 DEF LimitOf
    <2> QED
        BY <1>2, <1>3, <1>4, <2>1 DEF Min2
<1>6. pos \div ClusterSize \in Nat /\ pos \div ClusterSize < Len(w)
    <2>1. PICK i \in Nat, k \in Nat : i = pos /\ k = Len(w)
        BY <1>2, <1>3
    <2>2. i \div ClusterSize \in Nat /\ (i < ClusterSize * k => i \div ClusterSize < k)
        BY Division, IndexBelow
    <2> QED
        BY <1>5, <2>1, <2>2 DEF Cap
<1>7. (pos \div ClusterSize) + 1 \in 1 .. Len(w)
    BY <1>2, <1>6
<1>8. pos \in Positions
    <2> HIDE DEF w, pos
    <2> QED
        BY <1>2, <1>3, <1>5 DEF Positions
<1> QED
    BY <1>3, <1>4, <1>5, <1>7, <1>8

LEMMA ReadByteKeeps ==
    ASSUME IInv, NEW t \in Threads, ReadByte(t)
    PROVE  IInv'
<1> DEFINE w == Chains[fileOf[t]]
           i == op[t].done + 1
           byte == data[op[t].cur][Pos(t) % ClusterSize]
<1>1. op[t] # Idle /\ op[t].at = "copying" /\ op[t].fn = "read_at"
    BY BusyIsCall DEF ReadByte
<1>2. /\ op[t] \in Calls /\ fileOf[t] \in Files
      /\ Where(next, Chains, fileOf[t], op[t])
      /\ t \in Alone => /\ Follows(next, w, fileOf[t], content[fileOf[t]], op[t])
                        /\ Holding(w, data, content[fileOf[t]])
      /\ size \in [Files -> Nat]
      /\ \A g \in Files : ~Shared(g) => size[g] <= Cap(Chains[g])
    BY <1>1, InCall
<1>3. /\ Len(op[t].buf) \in Nat /\ op[t].off \in Nat /\ op[t].stop \in Nat
      /\ op[t].size \in Nat /\ op[t].done \in Nat /\ Cap(w) \in Nat
    BY <1>2, CallBuf, ChainFacts DEF IInv
<1>4. /\ Own(next, Chains, fileOf[t], op[t].cur) /\ op[t].done < Len(op[t].buf)
      /\ Pos(t) \in Nat
    <2>1. op[t].off + op[t].done < op[t].stop /\ op[t].stop <= op[t].off + Len(op[t].buf)
          /\ Own(next, Chains, fileOf[t], op[t].cur)
        BY <1>1, <1>2 DEF Where, InLoop
    <2>2. PICK a \in Nat, b \in Nat, c \in Nat, d \in Nat :
             a = op[t].off /\ b = op[t].done /\ c = op[t].stop /\ d = Len(op[t].buf)
        BY <1>3
    <2>3. a + b \in Nat /\ b < d
        <3>1. a + b < c /\ c <= a + d
            BY <2>1, <2>2
        <3> QED
            BY <3>1
    <2> QED
        BY <2>1, <2>2, <2>3 DEF Pos
<1>5. byte \in Bytes
    <2>1. op[t].cur \in Clusters
        BY <1>4 DEF Own
    <2>2. Pos(t) % ClusterSize \in 0 .. ClusterSize - 1
        <3>1. PICK k \in Nat : k = Pos(t)
            BY <1>4
        <3>2. k % ClusterSize \in 0 .. ClusterSize - 1
            BY Division
        <3> QED
            BY <3>1, <3>2
    <2> QED
        BY <2>1, <2>2 DEF IInv, Types
<1>6. t \in Alone => byte = content[fileOf[t]][Pos(t)]
    <2> SUFFICES ASSUME t \in Alone PROVE byte = content[fileOf[t]][Pos(t)]
        OBVIOUS
    <2>1. Pos(t) \in Nat /\ Pos(t) < Cap(w) /\ op[t].cur = w[(Pos(t) \div ClusterSize) + 1]
        BY <1>1, AtPosition
    <2>2. Pos(t) \in 0 .. Cap(w) - 1
        BY <1>3, <2>1
    <2> QED
        BY <1>2, <2>1, <2>2 DEF Holding
<1> HIDE DEF byte
<1>7. PICK b : b = [op[t] EXCEPT !.buf[i] = byte]
    OBVIOUS
<1>8. PICK buf : buf = [op[t].buf EXCEPT ![i] = byte]
    OBVIOUS
<1>9. /\ buf \in Seq(Bytes) /\ Len(buf) = Len(op[t].buf) /\ buf[i] = byte
      /\ \A j \in 1 .. Len(op[t].buf) : j # i => buf[j] = op[t].buf[j]
    <2>1. op[t].buf \in Seq(Bytes) /\ i \in 1 .. Len(op[t].buf)
        BY <1>2, <1>3, <1>4 DEF Calls
    <2>2. PICK s, k, e : s = op[t].buf /\ k = i /\ e = byte
        OBVIOUS
    <2> HIDE DEF i
    <2>4. s \in Seq(Bytes) /\ k \in 1 .. Len(s) /\ e \in Bytes
        BY <1>5, <2>1, <2>2
    <2>3. /\ [s EXCEPT ![k] = e] \in Seq(Bytes) /\ Len([s EXCEPT ![k] = e]) = Len(s)
          /\ \A j \in 1 .. Len(s) : [s EXCEPT ![k] = e][j] = IF j = k THEN e ELSE s[j]
        BY <2>4, ExceptSeq
    <2> QED
        BY <1>8, <2>1, <2>2, <2>3
<1>10. /\ b \in Calls /\ b.at = op[t].at /\ b.num = op[t].num /\ b.last = op[t].last
       /\ b.cur = op[t].cur /\ b.fn = op[t].fn /\ b.off = op[t].off /\ b.buf = buf
       /\ b.size = op[t].size /\ b.done = op[t].done /\ b.stop = op[t].stop
    <2>1. b = [op[t] EXCEPT !.buf = buf]
        BY <1>2, <1>7, <1>8 DEF Calls
    <2> QED
        BY <1>2, <1>9, <2>1 DEF Calls
<1>11. Where(next, Chains, fileOf[t], b)
    BY <1>1, <1>2, <1>9, <1>10 DEF Where, InLoop, Early
<1>12. t \in Alone => /\ Follows(next, w, fileOf[t], content[fileOf[t]], b)
                      /\ b.buf[b.done + 1] = content[fileOf[t]][b.off + b.done]
    <2> SUFFICES ASSUME t \in Alone
                 PROVE  /\ Follows(next, w, fileOf[t], content[fileOf[t]], b)
                        /\ b.buf[b.done + 1] = content[fileOf[t]][b.off + b.done]
        OBVIOUS
    <2>1. \A j \in 1 .. b.done : b.buf[j] = content[fileOf[t]][b.off + j - 1]
        <3> TAKE j \in 1 .. b.done
        <3>1. j \in 1 .. Len(op[t].buf) /\ j # i /\ j \in 1 .. op[t].done
            BY <1>3, <1>4, <1>10
        <3> QED
            BY <1>1, <1>2, <1>9, <1>10, <3>1 DEF Follows
    <2>2. SumsFit => Asked(next, w, b)
        BY <1>1, <1>2, <1>10 DEF Follows, Asked, InLoop
    <2>3. Follows(next, w, fileOf[t], content[fileOf[t]], b)
        BY <1>1, <1>2, <1>9, <1>10, <2>1, <2>2 DEF Follows, InLoop, LimitOf
    <2> QED
        BY <1>6, <1>9, <1>10, <2>3 DEF Pos
<1>13. PICK o : o = Advanced(b)
    OBVIOUS
<1>14. op' = [op EXCEPT ![t] = o] /\ UNCHANGED <<next, data, first, fileOf, size, content>>
    BY <1>7, <1>13 DEF ReadByte, byte
<1>15. /\ o \in Calls /\ Where(next, Chains, fileOf[t], o)
       /\ t \in Alone => Follows(next, w, fileOf[t], content[fileOf[t]], o)
    <2>1. PICK n, C, f, c, v : n = next /\ C = Chains /\ f = fileOf[t] /\ c = content[fileOf[t]] /\ v = w
        OBVIOUS
    <2>2. w \in Seq(Clusters)
        BY <1>2, ChainFacts DEF IInv
    <2> HIDE DEF w, i
    <2>3. b.at = "copying" /\ Where(n, C, f, b) /\ v \in Seq(Clusters)
        BY <1>1, <1>10, <1>11, <2>1, <2>2
    <2>4. /\ o \in Calls /\ Where(n, C, f, o)
          /\ Follows(n, v, f, c, b) /\ (b.fn = "read_at" => b.buf[b.done + 1] = c[b.off + b.done])
                     => Follows(n, v, f, c, o)
        BY <1>10, <1>13, <2>3, Advancing
    <2> QED
        BY <1>12, <2>1, <2>4
<1> QED
    BY <1>2, <1>14, <1>15, LocalStep

LEMMA SamePlace ==
    ASSUME NEW i \in Nat, NEW j \in Nat, i \div ClusterSize = j \div ClusterSize,
           i % ClusterSize = j % ClusterSize
    PROVE  i = j
<1>1. i = ClusterSize * (i \div ClusterSize) + (i % ClusterSize)
    BY Division
<1>2. j = ClusterSize * (j \div ClusterSize) + (j % ClusterSize)
    BY Division
<1>3. ClusterSize * (i \div ClusterSize) + (i % ClusterSize)
        = ClusterSize * (j \div ClusterSize) + (j % ClusterSize)
    OBVIOUS
<1> QED
    BY <1>1, <1>2, <1>3

\* A byte written at the position p of a chain shows there and nowhere else.
LEMMA HoldingWritten ==
    ASSUME NEW n, NEW a, NEW w, Proper(n, a, w), Cap(w) <= ClusterSize * NoC,
           NEW d \in [Clusters -> [0 .. ClusterSize - 1 -> Bytes]],
           NEW c \in [Positions -> Bytes], Holding(w, d, c),
           NEW p \in Nat, p < Cap(w), NEW byte,
           NEW e, e = [d EXCEPT ![w[(p \div ClusterSize) + 1]] = [@ EXCEPT ![p % ClusterSize] = byte]]
    PROVE  Holding(w, e, [c EXCEPT ![p] = byte])
<1> DEFINE cur == w[(p \div ClusterSize) + 1]
           x == [c EXCEPT ![p] = byte]
<1>1. /\ w \in Seq(Clusters) /\ Len(w) \in Nat \ {0}
      /\ \A i, j \in 1 .. Len(w) : w[i] = w[j] => i = j
    BY DEF Proper
<1>2. Cap(w) \in Nat /\ NoC \in Nat /\ ClusterSize * NoC \in Nat
    <2>1. NoC \in Nat
        BY Finite
    <2> QED
        BY <1>1, <2>1, CapFacts, SizesAssumption DEF SizesAssumption
<1>3. ASSUME NEW i \in Nat, i < Cap(w)
      PROVE  /\ (i \div ClusterSize) + 1 \in 1 .. Len(w) /\ i % ClusterSize \in 0 .. ClusterSize - 1
             /\ w[(i \div ClusterSize) + 1] \in Clusters
    <2>1. PICK k \in Nat : k = Len(w)
        BY <1>1
    <2>2. i \div ClusterSize \in Nat /\ i % ClusterSize \in 0 .. ClusterSize - 1
          /\ i \div ClusterSize < k
        BY <1>3, <2>1, Division, IndexBelow DEF Cap
    <2>3. (i \div ClusterSize) + 1 \in 1 .. Len(w)
        BY <2>1, <2>2
    <2> QED
        BY <1>1, <2>2, <2>3, ElementOfSeq
<1>4. cur \in Clusters /\ p % ClusterSize \in 0 .. ClusterSize - 1
    BY <1>3
<1>5. e[cur][p % ClusterSize] = byte
    <2>1. d[cur] \in [0 .. ClusterSize - 1 -> Bytes]
        BY <1>4
    <2> HIDE DEF cur
    <2>2. e = [d EXCEPT ![cur] = [@ EXCEPT ![p % ClusterSize] = byte]]
        BY DEF cur
    <2>3. e[cur] = [d[cur] EXCEPT ![p % ClusterSize] = byte]
        BY <1>4, <2>2
    <2> QED
        BY <1>4, <2>1, <2>3
<1>6. \A b \in Clusters : \A k \in 0 .. ClusterSize - 1 :
         b # cur \/ k # p % ClusterSize => e[b][k] = d[b][k]
    <2> SUFFICES ASSUME NEW b \in Clusters, NEW k \in 0 .. ClusterSize - 1,
                        b # cur \/ k # p % ClusterSize
                 PROVE  e[b][k] = d[b][k]
        OBVIOUS
    <2> HIDE DEF cur
    <2>1. e = [d EXCEPT ![cur] = [d[cur] EXCEPT ![p % ClusterSize] = byte]]
        BY DEF cur
    <2>2. CASE b # cur
        BY <2>1, <2>2
    <2>3. CASE b = cur
        <3>1. e[b] = [d[cur] EXCEPT ![p % ClusterSize] = byte]
            BY <1>4, <2>1, <2>3
        <3>2. d[cur] \in [0 .. ClusterSize - 1 -> Bytes]
            BY <1>4
        <3> QED
            BY <2>3, <3>1, <3>2
    <2> QED
        BY <2>2, <2>3
<1>7. p \in Positions
    <2>1. PICK m \in Nat : m = Cap(w)
        BY <1>2
    <2> QED
        BY <1>2, <2>1 DEF Positions
<1>8. x[p] = byte /\ \A i \in Positions : i # p => x[i] = c[i]
    BY <1>7
<1> HIDE DEF x
<1>9. ASSUME NEW i \in 0 .. Cap(w) - 1
      PROVE  e[w[(i \div ClusterSize) + 1]][i % ClusterSize] = x[i]
    <2>1. i \in Nat /\ i < Cap(w) /\ i \in Positions
        <3>1. PICK m \in Nat : m = Cap(w)
            BY <1>2
        <3> QED
            BY <1>2, <3>1 DEF Positions
    <2>2. CASE i = p
        BY <1>5, <1>8, <2>2
    <2>3. CASE i # p
        <3>1. w[(i \div ClusterSize) + 1] # cur \/ i % ClusterSize # p % ClusterSize
            <4>1. SUFFICES ASSUME w[(i \div ClusterSize) + 1] = cur, i % ClusterSize = p % ClusterSize
                           PROVE  FALSE
                OBVIOUS
            <4>2. (i \div ClusterSize) + 1 = (p \div ClusterSize) + 1
                BY <1>1, <1>3, <2>1, <4>1
            <4>3. i \div ClusterSize = p \div ClusterSize
                <5>1. PICK u \in Nat, v \in Nat : u = i \div ClusterSize /\ v = p \div ClusterSize
                    BY <2>1, Division
                <5>2. u + 1 = v + 1
                    BY <4>2, <5>1
                <5>3. u = v
                    BY <5>2
                <5> QED
                    BY <5>1, <5>3
            <4> QED
                BY <2>1, <2>3, <4>1, <4>3, SamePlace
        <3>2. e[w[(i \div ClusterSize) + 1]][i % ClusterSize]
                = d[w[(i \div ClusterSize) + 1]][i % ClusterSize]
            <4>1. w[(i \div ClusterSize) + 1] \in Clusters /\ i % ClusterSize \in 0 .. ClusterSize - 1
                BY <1>3, <2>1
            <4> QED
                BY <1>6, <3>1, <4>1
        <3> QED
            BY <1>8, <2>1, <2>3, <3>2 DEF Holding
    <2> QED
        BY <2>2, <2>3
<1>10. ASSUME NEW i \in Positions, i >= Cap(w) PROVE x[i] = 0
    <2>1. i # p
        <3>1. PICK m \in Nat : m = Cap(w)
            BY <1>2
        <3>2. i \in Nat
            BY <1>2 DEF Positions
        <3> QED
            BY <1>10, <3>1, <3>2
    <2> QED
        BY <1>8, <1>10, <2>1 DEF Holding
<1>11. Holding(w, e, x)
    BY <1>9, <1>10 DEF Holding
<1> QED
    BY <1>11 DEF x

\* A write to a cluster that is not in a chain does not show there.
LEMMA HoldingStays ==
    ASSUME NEW w \in Seq(Clusters), NEW d, NEW c, Holding(w, d, c), NEW e,
           \A i \in 1 .. Len(w) : e[w[i]] = d[w[i]]
    PROVE  Holding(w, e, c)
<1>1. Cap(w) \in Nat /\ Len(w) \in Nat
    BY CapFacts
<1>2. ASSUME NEW i \in 0 .. Cap(w) - 1
      PROVE  e[w[(i \div ClusterSize) + 1]][i % ClusterSize] = c[i]
    <2>1. (i \div ClusterSize) + 1 \in 1 .. Len(w)
        <3>1. PICK k \in Nat, m \in Nat : k = Len(w) /\ m = Cap(w)
            BY <1>1
        <3>2. i \in Nat /\ i < m
            BY <3>1
        <3>3. i \div ClusterSize \in Nat /\ i \div ClusterSize < k
            BY <3>1, <3>2, Division, IndexBelow DEF Cap
        <3> QED
            BY <3>1, <3>3
    <2> QED
        BY <2>1 DEF Holding
<1> QED
    BY <1>2 DEF Holding

LEMMA WriteByteKeeps ==
    ASSUME IInv, NEW t \in Threads, WriteByte(t)
    PROVE  IInv'
<1> DEFINE f == fileOf[t]
           w == Chains[f]
           cur == op[t].cur
           pos == Pos(t)
           byte == op[t].buf[op[t].done + 1]
<1>1. op[t] # Idle /\ op[t].at = "copying" /\ op[t].fn = "write_at"
    BY BusyIsCall DEF WriteByte
<1>2. /\ op[t] \in Calls /\ f \in Files
      /\ Where(next, Chains, f, op[t])
      /\ t \in Alone => /\ Follows(next, w, f, content[f], op[t])
                        /\ Holding(w, data, content[f])
      /\ size \in [Files -> Nat]
      /\ \A g \in Files : ~Shared(g) => size[g] <= Cap(Chains[g])
    BY <1>1, InCall
<1>3. /\ Own(next, Chains, f, cur) /\ pos \in Nat /\ byte \in Bytes
    <2>1. /\ op[t].off + op[t].done < op[t].stop /\ op[t].stop <= op[t].off + Len(op[t].buf)
          /\ Own(next, Chains, f, cur)
        BY <1>1, <1>2 DEF Where, InLoop
    <2>2. PICK a \in Nat, b \in Nat, c \in Nat, d \in Nat :
             a = op[t].off /\ b = op[t].done /\ c = op[t].stop /\ d = Len(op[t].buf)
        BY <1>2, CallBuf
    <2>3. a + b \in Nat /\ b + 1 \in 1 .. d
        <3>1. a + b < c /\ c <= a + d
            BY <2>1, <2>2
        <3> QED
            BY <3>1
    <2>4. op[t].buf \in Seq(Bytes) /\ op[t].done + 1 \in 1 .. Len(op[t].buf)
        BY <1>2, <2>2, <2>3 DEF Calls
    <2>5. byte \in Bytes
        BY <2>4, ElementOfSeq
    <2> QED
        BY <2>1, <2>2, <2>3, <2>5 DEF Pos
<1>4. /\ data \in [Clusters -> [0 .. ClusterSize - 1 -> Bytes]]
      /\ content \in [Files -> [Positions -> Bytes]]
      /\ Structure(next, first, Chains)
    BY DEF IInv, Types
<1>5. /\ data' = [data EXCEPT ![cur] = [@ EXCEPT ![pos % ClusterSize] = byte]]
      /\ content' = IF Shared(f) THEN content
                    ELSE [content EXCEPT ![f] = [@ EXCEPT ![pos] = byte]]
      /\ op' = [op EXCEPT ![t] = Advanced(op[t])]
      /\ UNCHANGED <<next, first, fileOf, size>>
    BY DEF WriteByte
<1> HIDE DEF f, w, cur, pos, byte
<1>6. Chains' = Chains /\ Alone' = Alone /\ \A g \in Files : Shared(g)' = Shared(g)
    BY <1>5 DEF Chains, Chain, Alone, Shared
<1>7. cur \in Clusters /\ data[cur] \in [0 .. ClusterSize - 1 -> Bytes]
    BY <1>3, <1>4 DEF Own
<1>8. data' \in [Clusters -> [0 .. ClusterSize - 1 -> Bytes]]
    <2>1. [data[cur] EXCEPT ![pos % ClusterSize] = byte] \in [0 .. ClusterSize - 1 -> Bytes]
        BY <1>3, <1>7
    <2> QED
        BY <1>4, <1>5, <1>7, <2>1
<1>9. content' \in [Files -> [Positions -> Bytes]]
    <2>1. [content[f] EXCEPT ![pos] = byte] \in [Positions -> Bytes]
        BY <1>2, <1>3, <1>4
    <2> QED
        BY <1>2, <1>4, <1>5, <2>1
<1>10. \A g \in Files : g # f => content'[g] = content[g] /\ \A i \in 1 .. Len(Chains[g]) :
                                                     data'[Chains[g][i]] = data[Chains[g][i]]
    <2> SUFFICES ASSUME NEW g \in Files, g # f
                 PROVE  content'[g] = content[g] /\ \A i \in 1 .. Len(Chains[g]) :
                                                     data'[Chains[g][i]] = data[Chains[g][i]]
        OBVIOUS
    <2>1. content'[g] = content[g]
        BY <1>4, <1>5
    <2>2. ASSUME NEW i \in 1 .. Len(Chains[g]) PROVE data'[Chains[g][i]] = data[Chains[g][i]]
        <3>1. Chains[g][i] # cur
            BY <1>3 DEF Own
        <3>2. Chains[g][i] \in Clusters
            BY <1>4 DEF Structure, Own
        <3> QED
            BY <1>4, <1>5, <3>1, <3>2
    <2> QED
        BY <2>1, <2>2
<1>11. ASSUME NEW g \in Files, ~Shared(g) PROVE Holding(Chains[g], data', content'[g])
    <2>1. CASE g # f
        <3>1. PICK v, d, c, e : v = Chains[g] /\ d = data /\ c = content[g] /\ e = data'
            OBVIOUS
        <3>2. v \in Seq(Clusters) /\ Holding(v, d, c) /\ \A i \in 1 .. Len(v) : e[v[i]] = d[v[i]]
            BY <1>4, <1>10, <1>11, <2>1, <3>1, ChainFacts DEF IInv
        <3>3. Holding(v, e, c)
            BY <3>2, HoldingStays
        <3> QED
            BY <1>10, <2>1, <3>1, <3>3
    <2>2. CASE g = f
        <3>1. t \in Alone /\ ~Shared(f)
            BY <1>11, <2>2 DEF Alone, f
        <3>2. pos < Cap(w) /\ cur = w[(pos \div ClusterSize) + 1]
            BY <1>1, <3>1, AtPosition DEF pos, cur, w, f
        <3>3. PICK n, a, v, d, c, p, b : /\ n = next /\ a = first[f] /\ v = w /\ d = data
                                         /\ c = content[f] /\ p = pos /\ b = byte
            OBVIOUS
        <3>4. PICK e : e = [d EXCEPT ![v[(p \div ClusterSize) + 1]] = [@ EXCEPT ![p % ClusterSize] = b]]
            OBVIOUS
        <3>5. Proper(n, a, v) /\ Cap(v) <= ClusterSize * NoC
            BY <1>2, <1>4, <3>3, ChainFacts DEF w
        <3>6. /\ d \in [Clusters -> [0 .. ClusterSize - 1 -> Bytes]]
              /\ c \in [Positions -> Bytes] /\ Holding(v, d, c)
              /\ p \in Nat /\ p < Cap(v)
            BY <1>2, <1>3, <1>4, <3>1, <3>2, <3>3
        <3>7. Holding(v, e, [c EXCEPT ![p] = b])
            BY <3>4, <3>5, <3>6, HoldingWritten
        <3>8. content'[f] = [c EXCEPT ![p] = b]
            BY <1>2, <1>4, <1>5, <3>1, <3>3
        <3>9. data' = e
            BY <1>5, <3>2, <3>3, <3>4
        <3> QED
            BY <2>2, <3>3, <3>7, <3>8, <3>9 DEF w
    <2> QED
        BY <2>1, <2>2
<1>12. PICK o : o = Advanced(op[t])
    OBVIOUS
<1>13. /\ o \in Calls /\ Where(next, Chains, f, o)
       /\ t \in Alone => Follows(next, w, f, content'[f], o)
    <2>1. PICK n, C, g, c, v, b : /\ n = next /\ C = Chains /\ g = f /\ c = content'[f]
                                  /\ v = w /\ b = op[t]
        OBVIOUS
    <2>2. w \in Seq(Clusters)
        BY <1>2, <1>4, ChainFacts DEF w
    <2>3. b \in Calls /\ b.at = "copying" /\ Where(n, C, g, b) /\ v \in Seq(Clusters)
        BY <1>1, <1>2, <2>1, <2>2
    <2>4. /\ o \in Calls /\ Where(n, C, g, o)
          /\ Follows(n, v, g, c, b) /\ (b.fn = "read_at" => b.buf[b.done + 1] = c[b.off + b.done])
                     => Follows(n, v, g, c, o)
        BY <1>12, <2>1, <2>3, Advancing
    <2>5. t \in Alone => Follows(n, v, g, c, b)
        BY <1>1, <1>2, <2>1 DEF Follows
    <2> QED
        BY <1>1, <2>1, <2>4, <2>5
<1>14. op' \in [Threads -> {Idle} \cup Calls] /\ op'[t] = o /\ \A u \in Threads \ {t} : op'[u] = op[u]
    BY <1>5, <1>12, <1>13 DEF IInv, Types
<1>15. Types'
    BY <1>5, <1>8, <1>9, <1>14 DEF IInv, Types
<1>16. ASSUME NEW u \in Threads PROVE Thread(u)'
    <2>1. CASE u = t
        BY <1>5, <1>6, <1>13, <1>14, <2>1 DEF Thread, f, w
    <2>2. CASE u # t
        <3>1. u \in Alone => content'[fileOf[u]] = content[fileOf[u]]
            <4> SUFFICES ASSUME u \in Alone PROVE content'[fileOf[u]] = content[fileOf[u]]
                OBVIOUS
            <4>1. fileOf[u] # f
                BY <2>2 DEF Alone, Shared, f
            <4>2. fileOf[u] \in Files
                BY FilesAssumption DEF IInv, Types, FilesAssumption
            <4> QED
                BY <1>10, <4>1, <4>2
        <3>2. Thread(u) /\ op'[u] = op[u]
            BY <1>14, <2>2 DEF IInv
        <3> QED
            BY <1>5, <1>6, <3>1, <3>2 DEF Thread
    <2> QED
        BY <2>1, <2>2
<1>17. ((\A g \in Files : ~Shared(g)) => AllOwned(next, Chains))'
    BY <1>5, <1>6 DEF IInv
<1>18. Structure(next, first, Chains)'
    BY <1>4, <1>5, <1>6
<1>19. (\A g \in Files : ~Shared(g) => /\ size[g] <= Cap(Chains[g])
                                       /\ Holding(Chains[g], data, content[g]))'
    BY <1>2, <1>5, <1>6, <1>11
<1> QED
    BY <1>15, <1>16, <1>17, <1>18, <1>19 DEF IInv

-----------------------------------------------------------------------------
(* Growth.                                                                 *)

LEMMA ChainsAre ==
    ASSUME NEW n, NEW a, NEW D \in [Files -> Seq(Clusters)], Structure(n, a, D)
    PROVE  [f \in Files |-> ChainFrom(n, a[f])] = D
<1>1. ASSUME NEW f \in Files PROVE ChainFrom(n, a[f]) = D[f]
    <2>1. PICK b, w : b = a[f] /\ w = D[f]
        OBVIOUS
    <2>2. Proper(n, b, w) /\ b \in Clusters
        BY <2>1 DEF Structure
    <2>3. ChainFrom(n, b) = w
        BY <2>2, ProperIsChain
    <2> QED
        BY <2>1, <2>3
<1> QED
    BY <1>1

\* Linking takes free clusters and frees none.
Takes(n, m, last, new) ==
    /\ Len(new) \in Nat \ {0} /\ m \in [Clusters -> Entries]
    /\ \A i \in 1 .. Len(new) : new[i] \in Clusters /\ n[new[i]] = FREE
    /\ \A c \in Clusters : n[c] # FREE => m[c] # FREE
    /\ \A c \in Clusters : m[c] # FREE => \/ n[c] # FREE \/ c = last
                                          \/ \E i \in 1 .. Len(new) : new[i] = c

LEMMA LinkUses ==
    ASSUME NEW n \in [Clusters -> Entries], NEW last \in Clusters, NEW new, NEW m,
           Linking(n, last, new, m)
    PROVE  Takes(n, m, last, new)
<1>1. new \in Seq(Clusters) /\ Len(new) >= 1 /\ m[last] = new[1] /\ m \in [Clusters -> Entries]
      /\ \A i \in 1 .. Len(new) : n[new[i]] = FREE
    BY DEF Linking
<1>2. Len(new) \in Nat \ {0} /\ \A i \in 1 .. Len(new) : new[i] \in Clusters
    <2>1. Len(new) \in Nat
        BY <1>1, LenProperties
    <2> QED
        BY <1>1, <2>1, ElementOfSeq
<1>3. m[last] # FREE
    <2>1. 1 \in 1 .. Len(new)
        BY <1>2
    <2> QED
        BY <1>1, <1>2, <2>1, EntriesAssumption DEF EntriesAssumption
<1>4. \A c \in Clusters : n[c] # FREE => m[c] # FREE
    <2> SUFFICES ASSUME NEW c \in Clusters, n[c] # FREE PROVE m[c] # FREE
        OBVIOUS
    <2>1. CASE c = last
        BY <1>3, <2>1
    <2>2. CASE c # last
        BY <1>1, <2>2 DEF Linking
    <2> QED
        BY <2>1, <2>2
<1> QED
    BY <1>1, <1>2, <1>4 DEF Linking, Takes

LEMMA DeniedStays ==
    ASSUME NEW n, NEW m, \A c \in Clusters : n[c] # FREE => m[c] # FREE, NEW num \in Nat,
           Denied(n, num)
    PROVE  Denied(m, num)
<1>1. Free(m) \subseteq Free(n) /\ Free(n) \subseteq Clusters
    BY DEF Free
<1>2. IsFiniteSet(Free(n))
    BY <1>1, VolumeAssumption, FS_Subset DEF VolumeAssumption
<1>3. Cardinality(Free(m)) <= Cardinality(Free(n)) /\ IsFiniteSet(Free(m))
    BY <1>1, <1>2, FS_Subset
<1>4. Cardinality(Free(m)) \in Nat /\ Cardinality(Free(n)) \in Nat
    BY <1>2, <1>3, FS_CardinalityType
<1> QED
    BY <1>3, <1>4 DEF Denied

LEMMA OwnStays ==
    ASSUME NEW n \in [Clusters -> Entries], NEW a, NEW C, Structure(n, a, C),
           NEW f \in Files, NEW last \in Clusters, NEW new, NEW m, Linking(n, last, new, m),
           NEW D, Grown(C, f, last, new, D), NEW g \in Files, NEW c, Own(n, C, g, c)
    PROVE  Own(m, D, g, c)
<1>0. Takes(n, m, last, new)
    BY LinkUses
<1>1. c \in Clusters /\ m[c] # FREE /\ n[c] # FREE
    BY <1>0 DEF Own, Takes
<1>2. ASSUME NEW h \in Files, h # g, NEW i \in 1 .. Len(D[h]) PROVE D[h][i] # c
    <2>1. CASE h # f
        <3>1. D[h] = C[h]
            BY <2>1 DEF Grown
        <3> QED
            BY <1>2, <3>1 DEF Own
    <2>2. CASE h = f
        <3>1. Len(C[f]) \in Nat /\ Len(new) \in Nat
            BY <1>0 DEF Structure, Proper, Takes
        <3>2. \/ \E j \in 1 .. Len(C[f]) : D[f][i] = C[f][j]
              \/ \E j \in 1 .. Len(new) : D[f][i] = new[j]
            BY <1>2, <2>2, <3>1, GrownElements
        <3>3. ASSUME NEW j \in 1 .. Len(C[f]), D[f][i] = C[f][j] PROVE D[h][i] # c
            BY <1>2, <2>2, <3>3 DEF Own
        <3>4. ASSUME NEW j \in 1 .. Len(new), D[f][i] = new[j] PROVE D[h][i] # c
            <4>1. n[new[j]] = FREE
                BY <1>0 DEF Takes
            <4> QED
                BY <1>1, <2>2, <3>4, <4>1
        <3> QED
            BY <3>2, <3>3, <3>4
    <2> QED
        BY <2>1, <2>2
<1> QED
    BY <1>1, <1>2 DEF Own

\* A chain with cleared clusters at its end.
Clears(d, e, w, new) ==
    /\ \A i \in 1 .. Len(w) : e[w[i]] = d[w[i]]
    /\ \A i \in 1 .. Len(new) : \A k \in 0 .. ClusterSize - 1 : e[new[i]][k] = 0

LEMMA HoldingGrows ==
    ASSUME NEW w \in Seq(Clusters), NEW new \in Seq(Clusters), NEW v \in Seq(Clusters),
           Len(w) >= 1, Splice(v, w, Len(w), new), Cap(v) <= ClusterSize * NoC,
           NEW d, NEW c, Holding(w, d, c),
           NEW e, Clears(d, e, w, new)
    PROVE  Holding(v, e, c) /\ Cap(v) = Cap(w) + ClusterSize * Len(new) /\ Cap(w) <= Cap(v)
<1>1. /\ Len(w) \in Nat /\ Len(new) \in Nat /\ Len(v) = Len(w) + Len(new)
      /\ Cap(w) \in Nat /\ Cap(v) \in Nat
    BY CapFacts DEF Splice
<1>2. Cap(v) = Cap(w) + ClusterSize * Len(new) /\ ClusterSize * Len(new) \in Nat
    <2>1. PICK x \in Nat, y \in Nat, z \in Nat : x = Len(w) /\ y = Len(new) /\ z = Len(v)
        BY <1>1
    <2>2. ClusterSize * (x + y) = ClusterSize * x + ClusterSize * y /\ ClusterSize * y \in Nat
        BY SizesAssumption DEF SizesAssumption
    <2> QED
        BY <1>1, <2>1, <2>2 DEF Cap
<1>3. Cap(w) <= Cap(v)
    <2>1. PICK x \in Nat, y \in Nat, z \in Nat : x = Cap(w) /\ y = ClusterSize * Len(new) /\ z = Cap(v)
        BY <1>1, <1>2
    <2> QED
        BY <1>2, <2>1
<1>4. ASSUME NEW i \in 0 .. Cap(v) - 1
      PROVE  e[v[(i \div ClusterSize) + 1]][i % ClusterSize] = c[i]
    <2>1. PICK x \in Nat, y \in Nat, z \in Nat :
             x = Len(w) /\ y = Len(new) /\ z = Len(v)
        BY <1>1
    <2>2. i \in Nat /\ i < ClusterSize * z
        <3>1. PICK k \in Nat : k = Cap(v)
            BY <1>1
        <3>2. i \in Nat /\ i < k
            BY <3>1
        <3> QED
            BY <2>1, <3>1, <3>2 DEF Cap
    <2>3. PICK q \in Nat : q = i \div ClusterSize
        BY <2>2, Division
    <2>4. q < z /\ (q < x => i < Cap(w)) /\ (i < Cap(w) => q < x)
        BY <2>1, <2>2, <2>3, IndexBelow DEF Cap
    <2>5. i % ClusterSize \in 0 .. ClusterSize - 1
        BY <2>2, Division
    <2>6. CASE q < x
        <3>1. q + 1 \in 1 .. Len(w) /\ i \in 0 .. Cap(w) - 1
            <4>1. PICK k \in Nat : k = Cap(w)
                BY <1>1
            <4>2. i \in 0 .. k - 1
                BY <2>2, <2>4, <2>6, <4>1
            <4> QED
                BY <2>1, <2>6, <4>1, <4>2
        <3>2. v[q + 1] = w[q + 1] /\ e[w[q + 1]] = d[w[q + 1]]
            BY <3>1 DEF Splice, Clears
        <3> QED
            BY <2>3, <3>1, <3>2 DEF Holding
    <2>7. CASE q >= x
        <3>1. q + 1 - x \in 1 .. Len(new) /\ Len(w) + (q + 1 - x) = q + 1
            <4>1. z = x + y
                BY <1>1, <2>1
            <4> QED
                BY <2>1, <2>4, <2>7, <4>1
        <3>2. v[q + 1] = new[q + 1 - x]
            BY <3>1 DEF Splice
        <3>3. e[v[q + 1]][i % ClusterSize] = 0
            BY <2>5, <3>1, <3>2 DEF Clears
        <3>4. i \in Positions /\ i >= Cap(w)
            <4>1. PICK k \in Nat, l \in Nat : k = Cap(w) /\ l = Cap(v)
                BY <1>1
            <4>2. i >= k
                BY <2>2, <2>4, <2>7, <4>1
            <4>3. i < l
                BY <2>1, <2>2, <4>1 DEF Cap
            <4>4. NoC \in Nat /\ ClusterSize * NoC \in Nat
                BY Finite, SizesAssumption DEF SizesAssumption
            <4>5. i \in 0 .. ClusterSize * NoC - 1
                <5>1. PICK r \in Nat : r = ClusterSize * NoC
                    BY <4>4
                <5>2. l <= r
                    BY <4>1, <5>1
                <5> QED
                    BY <2>2, <4>3, <5>1, <5>2
            <4> QED
                BY <4>1, <4>2, <4>5 DEF Positions
        <3> QED
            BY <2>3, <3>3, <3>4 DEF Holding
    <2> QED
        BY <2>6, <2>7
<1>5. ASSUME NEW i \in Positions, i >= Cap(v) PROVE c[i] = 0
    <2>1. i >= Cap(w)
        <3>1. PICK k \in Nat, l \in Nat : k = Cap(w) /\ l = Cap(v)
            BY <1>1
        <3>2. i \in Int
            BY DEF Positions
        <3>3. i >= k
            BY <1>3, <1>5, <3>1, <3>2
        <3> QED
            BY <3>1, <3>3
    <2> QED
        BY <2>1 DEF Holding
<1> QED
    BY <1>2, <1>3, <1>4, <1>5 DEF Holding

LEMMA LinkedFacts ==
    ASSUME NEW last \in Clusters, next \in [Clusters -> Entries], next[last] # FREE,
           NEW num \in Nat \ {0}, NEW new \in [1 .. num -> FreeClusters], IsInjective(new)
    PROVE  /\ new \in Seq(Clusters) /\ Len(new) = num
           /\ Linking(next, last, new, LinkedBehind(last, new))
           /\ Range(new) = {new[i] : i \in 1 .. num}
<1>1. new \in [1 .. num -> Clusters] /\ \A i \in 1 .. num : next[new[i]] = FREE
    BY DEF FreeClusters
<1>2. new \in Seq(Clusters)
    BY <1>1, SeqDef
<1>3. Len(new) = num
    <2>1. Len(new) \in Nat /\ DOMAIN new = 1 .. Len(new) /\ DOMAIN new = 1 .. num
        BY <1>1, <1>2, LenProperties
    <2>2. PICK k \in Nat : k = Len(new)
        BY <2>1
    <2>3. num \in 1 .. k
        BY <2>1, <2>2
    <2>4. k = 0 \/ k \in 1 .. num
        BY <2>1, <2>2
    <2> QED
        BY <2>2, <2>3, <2>4
<1>4. \A i, j \in 1 .. num : new[i] = new[j] => i = j
    BY <1>1 DEF IsInjective
<1>5. Range(new) = {new[i] : i \in 1 .. num} /\ DOMAIN new = 1 .. num
    BY <1>1 DEF Range
<1>6. \A i \in 1 .. num : (CHOOSE j \in DOMAIN new : new[j] = new[i]) = i
    <2> TAKE i \in 1 .. num
    <2>1. \E j \in DOMAIN new : new[j] = new[i]
        BY <1>5
    <2>2. PICK k : k = CHOOSE j \in DOMAIN new : new[j] = new[i]
        OBVIOUS
    <2>3. k \in 1 .. num /\ new[k] = new[i]
        BY <1>5, <2>1, <2>2
    <2> QED
        BY <1>4, <2>2, <2>3
<1>7. PICK m : m = LinkedBehind(last, new)
    OBVIOUS
<1>8. \A i \in 1 .. num : m[new[i]] = IF i = num THEN END ELSE new[i + 1]
    <2> TAKE i \in 1 .. num
    <2>1. new[i] \in Clusters /\ new[i] \in Range(new)
        BY <1>1, <1>5
    <2>2. PICK k : k = CHOOSE j \in DOMAIN new : new[j] = new[i]
        OBVIOUS
    <2>3. m[new[i]] = IF k = Len(new) THEN END ELSE new[k + 1]
        BY <1>7, <2>1, <2>2 DEF LinkedBehind
    <2>4. k = i
        BY <1>6, <2>2
    <2> QED
        BY <1>3, <2>3, <2>4
<1>9. last \notin Range(new)
    BY <1>1, <1>5
<1>10. m[last] = new[1] /\ \A c \in Clusters : c # last /\ (\A i \in 1 .. num : new[i] # c) => m[c] = next[c]
    BY <1>5, <1>7, <1>9 DEF LinkedBehind
<1>11. m \in [Clusters -> Entries]
    <2>1. \A c \in Clusters : m[c] \in Entries
        <3> TAKE c \in Clusters
        <3>1. CASE c = last
            <4>1. 1 \in 1 .. num
                OBVIOUS
            <4> QED
                BY <1>1, <1>10, <3>1, <4>1 DEF Entries
        <3>2. ASSUME NEW i \in 1 .. num, new[i] = c PROVE m[c] \in Entries
            <4>1. i # num => i + 1 \in 1 .. num
                OBVIOUS
            <4> QED
                BY <1>1, <1>8, <3>2, <4>1 DEF Entries
        <3>3. CASE c # last /\ \A i \in 1 .. num : new[i] # c
            BY <1>10, <3>3
        <3> QED
            BY <3>1, <3>2, <3>3
    <2>2. m = [c \in Clusters |-> m[c]]
        BY <1>7 DEF LinkedBehind
    <2> QED
        BY <2>1, <2>2
<1>12. \A i \in 1 .. num - 1 : m[new[i]] = new[i + 1]
    <2> TAKE i \in 1 .. num - 1
    <2>1. i \in 1 .. num /\ i # num
        OBVIOUS
    <2> QED
        BY <1>8, <2>1
<1>13. m[new[num]] = END
    <2>1. num \in 1 .. num
        OBVIOUS
    <2> QED
        BY <1>8, <2>1
<1>14. Linking(next, last, new, m)
    BY <1>1, <1>2, <1>3, <1>4, <1>10, <1>11, <1>12, <1>13 DEF Linking
<1> QED
    BY <1>2, <1>3, <1>5, <1>7, <1>14

\* alloc_clusters that adds nothing.
LEMMA RefusalKeeps ==
    ASSUME IInv, NEW t \in Threads, AllocClusters(t), ~Fits(op[t].num)
    PROVE  IInv'
<1> DEFINE w == Chains[fileOf[t]]
<1>1. op[t] # Idle /\ op[t].at = "found" /\ op[t].fn = "write_at"
    BY BusyIsCall DEF AllocClusters
<1>2. /\ op[t] \in Calls /\ fileOf[t] \in Files
      /\ Where(next, Chains, fileOf[t], op[t])
      /\ t \in Alone => Follows(next, w, fileOf[t], content[fileOf[t]], op[t])
      /\ size \in [Files -> Nat]
      /\ \A g \in Files : ~Shared(g) => size[g] <= Cap(Chains[g])
    BY <1>1, InCall
<1>3. /\ Len(op[t].buf) \in Nat /\ op[t].off \in Nat /\ op[t].num \in Nat
      /\ Cap(w) \in Nat
    BY <1>2, CallBuf, ChainFacts DEF IInv
<1> HIDE DEF w
<1>4. PICK o : o = [op[t] EXCEPT !.at = "grown"]
    OBVIOUS
<1>5. op' = [op EXCEPT ![t] = o] /\ UNCHANGED <<next, data, first, fileOf, size, content>>
    BY <1>4 DEF AllocClusters
<1>6. /\ o \in Calls /\ o.at = "grown" /\ o.num = op[t].num
      /\ o.fn = op[t].fn /\ o.off = op[t].off /\ o.buf = op[t].buf
      /\ o.size = op[t].size /\ o.done = op[t].done
    BY <1>2, <1>4 DEF Calls, Labels
<1>7. Where(next, Chains, fileOf[t], o)
    BY <1>1, <1>2, <1>6 DEF Where, InLoop, Early
<1>8. ASSUME t \in Alone PROVE Follows(next, Chains[fileOf[t]], fileOf[t], content[fileOf[t]], o)
    <2>1. ASSUME SumsFit PROVE Asked(next, w, o)
        <3>1. op[t].off + Len(op[t].buf) <= Cap(w) + ClusterSize * op[t].num
            BY <1>1, <1>2, <1>8, <2>1 DEF Follows, Asked
        <3>2. CASE op[t].num = 0
            <4>1. ClusterSize * op[t].num = 0
                BY <3>2, SizesAssumption DEF SizesAssumption
            <4>2. op[t].off + Len(op[t].buf) <= Cap(w)
                BY <1>3, <3>1, <4>1
            <4> QED
                BY <1>6, <4>2 DEF Asked, InLoop
        <3>3. CASE op[t].num # 0
            <4>1. Denied(next, op[t].num)
                BY <1>3, <3>3 DEF Fits, Refused, FreeClusters, Denied, Free
            <4> QED
                BY <1>6, <4>1 DEF Asked, InLoop
        <3> QED
            BY <3>2, <3>3
    <2> QED
        BY <1>1, <1>2, <1>6, <1>8, <2>1 DEF Follows, InLoop, w
<1> QED
    BY <1>2, <1>5, <1>6, <1>7, <1>8, LocalStep

LEMMA GrowthKeeps ==
    ASSUME IInv, NEW t \in Threads, AllocClusters(t), Fits(op[t].num)
    PROVE  IInv'
<1> DEFINE f == fileOf[t]
           last == op[t].last
           num == op[t].num
<1>1. op[t] # Idle /\ op[t].at = "found" /\ op[t].fn = "write_at"
    BY BusyIsCall DEF AllocClusters
<1>2. /\ op[t] \in Calls /\ f \in Files
      /\ Where(next, Chains, f, op[t])
      /\ t \in Alone => Follows(next, Chains[f], f, content[f], op[t])
      /\ size \in [Files -> Nat]
      /\ \A g \in Files : ~Shared(g) => size[g] <= Cap(Chains[g])
      /\ Structure(next, first, Chains)
    BY <1>1, InCall DEF IInv
<1>3. /\ Len(op[t].buf) \in Nat /\ op[t].off \in Nat /\ num \in Nat \ {0}
    <2>1. Len(op[t].buf) \in Nat /\ op[t].off \in Nat /\ num \in Nat
        BY <1>2, CallBuf
    <2>2. num > 0
        BY DEF Fits
    <2> QED
        BY <2>1, <2>2
<1>4. Own(next, Chains, f, last) /\ last \in Clusters /\ next[last] # FREE
    BY <1>1, <1>2 DEF Where, Own
<1>5. next \in [Clusters -> Entries] /\ first \in [Files -> Clusters]
      /\ Chains \in [Files -> Seq(Clusters)]
      /\ data \in [Clusters -> [0 .. ClusterSize - 1 -> Bytes]]
      /\ content \in [Files -> [Positions -> Bytes]]
    <2>1. \A g \in Files : Chains[g] \in Seq(Clusters)
        BY <1>2, ChainFacts
    <2>2. Chains \in [Files -> Seq(Clusters)]
        <3>1. Chains = [g \in Files |-> Chains[g]]
            BY DEF Chains
        <3> QED
            BY <2>1, <3>1
    <2> QED
        BY <1>2, <2>2 DEF Structure, Tables, Entries, IInv, Types
<1>6. PICK new \in [1 .. num -> FreeClusters] :
         IsInjective(new) /\ next' = LinkedBehind(last, new) /\ data' = Cleared(Range(new))
    BY DEF AllocClusters
<1>7. PICK l, k : l = last /\ k = num
    OBVIOUS
<1>8. op' = [op EXCEPT ![t].at = "grown"] /\ UNCHANGED <<first, fileOf, size, content>>
    BY DEF AllocClusters
<1> HIDE DEF f, last, num
<1>9. /\ new \in Seq(Clusters) /\ Len(new) = num
      /\ Linking(next, last, new, next')
      /\ Range(new) = {new[i] : i \in 1 .. num}
    <2>1. l \in Clusters /\ next[l] # FREE /\ k \in Nat \ {0} /\ new \in [1 .. k -> FreeClusters]
        BY <1>3, <1>4, <1>6, <1>7
    <2>2. /\ new \in Seq(Clusters) /\ Len(new) = k
          /\ Linking(next, l, new, LinkedBehind(l, new))
          /\ Range(new) = {new[i] : i \in 1 .. k}
        BY <1>5, <1>6, <2>1, LinkedFacts
    <2> QED
        BY <1>6, <1>7, <2>2
<1>10. PICK n, m, a, C, h : n = next /\ m = next' /\ a = first /\ C = Chains /\ h = f
    OBVIOUS
<1>11. /\ Structure(n, a, C) /\ h \in Files /\ l \in Clusters /\ Own(n, C, h, l)
       /\ C \in [Files -> Seq(Clusters)] /\ n \in [Clusters -> Entries]
       /\ a \in [Files -> Clusters] /\ Linking(n, l, new, m)
    BY <1>2, <1>4, <1>5, <1>7, <1>9, <1>10
<1>12. PICK D \in [Files -> Seq(Clusters)] : Structure(m, a, D) /\ Grown(C, h, l, new, D)
    BY <1>11, StructureGrows
<1>13. Chains' = D
    <2>1. [g \in Files |-> ChainFrom(m, a[g])] = D
        BY <1>11, <1>12, ChainsAre
    <2>2. Chains' = [g \in Files |-> ChainFrom(next', first'[g])]
        BY DEF Chains, Chain
    <2> QED
        BY <1>8, <1>10, <2>1, <2>2
<1>14. /\ Len(new) \in Nat \ {0} /\ m \in [Clusters -> Entries]
       /\ \A i \in 1 .. Len(new) : new[i] \in Clusters /\ n[new[i]] = FREE
       /\ \A c \in Clusters : n[c] # FREE => m[c] # FREE
       /\ \A c \in Clusters : m[c] # FREE => \/ n[c] # FREE \/ c = l
                                             \/ \E i \in 1 .. Len(new) : new[i] = c
    <2>1. n \in [Clusters -> Entries] /\ l \in Clusters /\ Linking(n, l, new, m)
        BY <1>11
    <2>2. Takes(n, m, l, new)
        BY <2>1, LinkUses
    <2> QED
        BY <2>2 DEF Takes
<1>15. Alone' = Alone /\ \A g \in Files : Shared(g)' = Shared(g)
    BY <1>8 DEF Alone, Shared
\* Used clusters keep their bytes, and the new ones are zero.
<1>16. /\ data' \in [Clusters -> [0 .. ClusterSize - 1 -> Bytes]]
       /\ \A c \in Clusters : n[c] # FREE => data'[c] = data[c]
       /\ \A i \in 1 .. Len(new) : \A j \in 0 .. ClusterSize - 1 : data'[new[i]][j] = 0
    <2>1. data' = [c \in Clusters |-> IF c \in Range(new) THEN [i \in 0 .. ClusterSize - 1 |-> 0]
                                      ELSE data[c]]
        BY <1>6 DEF Cleared
    <2>2. [i \in 0 .. ClusterSize - 1 |-> 0] \in [0 .. ClusterSize - 1 -> Bytes]
        BY BytesAssumption DEF BytesAssumption
    <2>3. data' \in [Clusters -> [0 .. ClusterSize - 1 -> Bytes]]
        BY <1>5, <2>1, <2>2
    <2>4. \A c \in Clusters : n[c] # FREE => c \notin Range(new)
        BY <1>9, <1>14
    <2>5. \A i \in 1 .. Len(new) : new[i] \in Range(new) /\ new[i] \in Clusters
        BY <1>9, <1>14
    <2> QED
        BY <2>1, <2>3, <2>4, <2>5
\* The chain of a file that t has alone grows at its end.
<1>17. ASSUME t \in Alone
       PROVE  /\ l = C[h][Len(C[h])] /\ Len(C[h]) \in Nat /\ Len(C[h]) >= 1
              /\ Splice(D[h], C[h], Len(C[h]), new)
              /\ Holding(D[h], data', content[h]) /\ Cap(D[h]) = Cap(C[h]) + ClusterSize * num
              /\ Cap(C[h]) <= Cap(D[h])
    <2>1. l = C[h][Len(C[h])] /\ Holding(C[h], data, content[h])
        <3>1. last = Chains[f][Len(Chains[f])]
            BY <1>1, <1>2, <1>17 DEF Follows, last
        <3>2. Holding(Chains[f], data, content[f])
            BY <1>1, <1>17, InCall DEF f
        <3> QED
            BY <1>7, <1>10, <3>1, <3>2
    <2>2. Len(C[h]) \in Nat \ {0} /\ \A i, j \in 1 .. Len(C[h]) : C[h][i] = C[h][j] => i = j
        BY <1>11 DEF Structure, Proper
    <2>3. Len(C[h]) \in 1 .. Len(C[h])
        BY <2>2
    <2>4. Splice(D[h], C[h], Len(C[h]), new)
        BY <1>12, <2>1, <2>2, <2>3 DEF Grown
    <2>5. PICK w, v, d, c, e : w = C[h] /\ v = D[h] /\ d = data /\ c = content[h] /\ e = data'
        OBVIOUS
    <2>6. w \in Seq(Clusters) /\ v \in Seq(Clusters) /\ Len(w) >= 1 /\ Splice(v, w, Len(w), new)
          /\ Holding(w, d, c)
        BY <1>11, <1>12, <2>1, <2>2, <2>4, <2>5
    <2>7. Cap(v) <= ClusterSize * NoC
        <3>1. PICK b : b = a[h]
            OBVIOUS
        <3>2. Proper(m, b, v) /\ b \in Clusters
            BY <1>11, <1>12, <2>5, <3>1 DEF Structure
        <3>3. Len(v) <= NoC /\ Len(v) \in Nat
            BY <3>2, ProperIsChain DEF Proper
        <3>4. ClusterSize * Len(v) <= ClusterSize * NoC
            BY <3>3, Finite, Monotonic
        <3> QED
            BY <3>4 DEF Cap
    <2>8. \A i \in 1 .. Len(w) : e[w[i]] = d[w[i]]
        <3>1. \A i \in 1 .. Len(C[h]) : C[h][i] \in Clusters /\ n[C[h][i]] # FREE
            BY <1>11 DEF Structure, Own
        <3> QED
            BY <1>16, <2>5, <3>1
    <2>9. \A i \in 1 .. Len(new) : \A j \in 0 .. ClusterSize - 1 : e[new[i]][j] = 0
        BY <1>16, <2>5
    <2>10. Holding(v, e, c) /\ Cap(v) = Cap(w) + ClusterSize * Len(new) /\ Cap(w) <= Cap(v)
        <3>1. new \in Seq(Clusters)
            BY <1>9
        <3>2. Clears(d, e, w, new)
            BY <2>8, <2>9 DEF Clears
        <3> QED
            BY <2>6, <2>7, <3>1, <3>2, HoldingGrows
    <2> QED
        BY <1>9, <2>1, <2>2, <2>4, <2>5, <2>10
<1>18. ASSUME NEW g \in Files, g # h PROVE D[g] = C[g]
    BY <1>12, <1>18 DEF Grown
<1>19. ASSUME NEW g \in Files, ~Shared(g)
       PROVE  size[g] <= Cap(D[g]) /\ Holding(D[g], data', content[g])
    <2>1. CASE g = h
        <3>1. t \in Alone
            BY <1>10, <1>19, <2>1 DEF Alone, f
        <3>2. size[g] \in Nat /\ size[g] <= Cap(C[h]) /\ Cap(C[h]) \in Nat /\ Cap(D[h]) \in Nat
            <4>1. size[g] \in Nat /\ size[g] <= Cap(C[h])
                BY <1>2, <1>10, <1>19, <2>1
            <4>2. PICK w, v : w = C[h] /\ v = D[h]
                OBVIOUS
            <4>3. w \in Seq(Clusters) /\ v \in Seq(Clusters)
                BY <1>11, <1>12, <4>2
            <4>4. Cap(w) \in Nat /\ Cap(v) \in Nat
                BY <4>3, CapFacts
            <4> QED
                BY <4>1, <4>2, <4>4
        <3>3. size[g] <= Cap(D[h])
            <4>1. Cap(C[h]) <= Cap(D[h])
                BY <1>17, <3>1
            <4> QED
                BY <3>2, <4>1
        <3> QED
            BY <1>17, <2>1, <3>1, <3>3
    <2>2. CASE g # h
        <3>1. D[g] = C[g] /\ Holding(C[g], data, content[g]) /\ size[g] <= Cap(C[g])
            BY <1>10, <1>18, <1>19, <2>2 DEF IInv
        <3>2. PICK w, d, c, e : w = C[g] /\ d = data /\ c = content[g] /\ e = data'
            OBVIOUS
        <3>3. \A i \in 1 .. Len(w) : e[w[i]] = d[w[i]]
            <4>1. \A i \in 1 .. Len(C[g]) : C[g][i] \in Clusters /\ n[C[g][i]] # FREE
                BY <1>11 DEF Structure, Own
            <4> QED
                BY <1>16, <3>2, <4>1
        <3>4. w \in Seq(Clusters) /\ Holding(w, d, c)
            BY <1>11, <3>1, <3>2
        <3>5. Holding(w, e, c)
            BY <3>3, <3>4, HoldingStays
        <3> QED
            BY <3>1, <3>2, <3>5
    <2> QED
        BY <2>1, <2>2
<1>20. ASSUME \A g \in Files : ~Shared(g) PROVE AllOwned(m, D)
    <2>1. t \in Alone
        BY <1>2, <1>20 DEF Alone, f
    <2>2. AllOwned(n, C)
        BY <1>10, <1>20 DEF IInv
    <2>3. /\ Len(D[h]) = Len(C[h]) + Len(new) /\ \A i \in 1 .. Len(C[h]) : D[h][i] = C[h][i]
          /\ \A i \in 1 .. Len(new) : D[h][Len(C[h]) + i] = new[i]
          /\ Len(C[h]) \in Nat
        BY <1>17, <2>1 DEF Splice
    <2> SUFFICES ASSUME NEW c \in Clusters, m[c] # FREE
                 PROVE  \E g \in Files : \E i \in 1 .. Len(D[g]) : D[g][i] = c
        BY DEF AllOwned
    <2>4. CASE n[c] # FREE
        <3>1. PICK g \in Files : \E i \in 1 .. Len(C[g]) : C[g][i] = c
            BY <2>2, <2>4 DEF AllOwned
        <3>2. CASE g = h
            <4>1. \A i \in 1 .. Len(C[h]) : i \in 1 .. Len(D[h])
                BY <1>14, <2>3
            <4> QED
                BY <2>3, <3>1, <3>2, <4>1
        <3>3. CASE g # h
            BY <1>18, <3>1, <3>3
        <3> QED
            BY <3>2, <3>3
    <2>5. ASSUME NEW i \in 1 .. Len(new), new[i] = c
          PROVE  \E g \in Files : \E j \in 1 .. Len(D[g]) : D[g][j] = c
        <3>1. Len(C[h]) + i \in 1 .. Len(D[h]) /\ D[h][Len(C[h]) + i] = c
            BY <1>14, <2>3, <2>5
        <3> QED
            BY <1>11, <3>1
    <2>6. CASE c = l
        BY <1>11, <2>4, <2>6 DEF Own
    <2> QED
        BY <1>14, <2>4, <2>5, <2>6
<1>21. PICK o : o = [op[t] EXCEPT !.at = "grown"]
    OBVIOUS
<1>22. /\ o \in Calls /\ o.at = "grown" /\ o.num = num
       /\ o.fn = op[t].fn /\ o.off = op[t].off /\ o.buf = op[t].buf
       /\ o.size = op[t].size /\ o.done = op[t].done
    BY <1>2, <1>21 DEF Calls, Labels, num
<1>23. op' \in [Threads -> {Idle} \cup Calls] /\ op'[t] = o /\ \A u \in Threads \ {t} : op'[u] = op[u]
    <2>1. op' = [op EXCEPT ![t] = o]
        BY <1>8, <1>21
    <2> QED
        BY <1>22, <2>1 DEF IInv, Types
<1>24. Where(m, D, h, o)
    BY <1>1, <1>2, <1>22 DEF Where, InLoop, Early
<1>25. ASSUME t \in Alone PROVE Follows(m, D[h], h, content[h], o)
    <2>1. Cap(C[h]) \in Nat /\ Cap(D[h]) \in Nat
        <3>1. PICK w, v : w = C[h] /\ v = D[h]
            OBVIOUS
        <3>2. w \in Seq(Clusters) /\ v \in Seq(Clusters)
            BY <1>11, <1>12, <3>1
        <3>3. Cap(w) \in Nat /\ Cap(v) \in Nat
            BY <3>2, CapFacts
        <3> QED
            BY <3>1, <3>3
    <2>2. Follows(n, C[h], h, content[h], op[t])
        BY <1>2, <1>10, <1>25
    <2>3. o.size <= Cap(D[h])
        <3>1. op[t].size \in Nat /\ op[t].size <= Cap(C[h]) /\ Cap(C[h]) <= Cap(D[h])
            BY <1>2, <1>17, <1>25, <2>2, CallBuf DEF Follows
        <3> QED
            BY <1>22, <2>1, <3>1
    <2>4. SumsFit => Asked(m, D[h], o)
        <3> SUFFICES ASSUME SumsFit PROVE Asked(m, D[h], o)
            OBVIOUS
        <3>1. op[t].off + Len(op[t].buf) <= Cap(C[h]) + ClusterSize * num
            BY <1>1, <2>2 DEF Follows, Asked, num
        <3>2. op[t].off + Len(op[t].buf) <= Cap(D[h])
            BY <1>17, <1>25, <3>1
        <3> QED
            BY <1>22, <3>2 DEF Asked, InLoop
    <2> QED
        BY <1>1, <1>22, <2>3, <2>4 DEF Follows, InLoop
<1>26. ASSUME NEW u \in Threads PROVE Thread(u)'
    <2>1. CASE u = t
        BY <1>8, <1>10, <1>13, <1>15, <1>23, <1>24, <1>25, <2>1 DEF Thread, f
    <2>2. CASE u # t /\ op[u] # Idle
        <3>1. /\ op[u] \in Calls /\ fileOf[u] \in Files
              /\ Where(n, C, fileOf[u], op[u])
              /\ u \in Alone => Follows(n, C[fileOf[u]], fileOf[u], content[fileOf[u]], op[u])
            BY <1>10, <2>2, InCall
        <3>2. \A c : Own(n, C, fileOf[u], c) => Own(m, D, fileOf[u], c)
            <4>1. PICK g \in Files : g = fileOf[u]
                BY <3>1
            <4>2. \A c : Own(n, C, g, c) => Own(m, D, g, c)
                BY <1>11, <1>12, OwnStays
            <4> QED
                BY <4>1, <4>2
        <3>3. Where(m, D, fileOf[u], op[u])
            BY <3>1, <3>2 DEF Where
        <3>4. ASSUME u \in Alone
              PROVE  Follows(m, D[fileOf[u]], fileOf[u], content[fileOf[u]], op[u])
            <4>1. fileOf[u] # h
                BY <1>10, <2>2, <3>4 DEF Alone, Shared, f
            <4>2. D[fileOf[u]] = C[fileOf[u]]
                BY <1>18, <3>1, <4>1
            <4>3. Denied(n, op[u].num) => Denied(m, op[u].num)
                <5>1. PICK j \in Nat : j = op[u].num
                    BY <3>1, CallBuf
                <5>2. Denied(n, j) => Denied(m, j)
                    BY <1>14, DeniedStays
                <5> QED
                    BY <5>1, <5>2
            <4>4. Asked(n, C[fileOf[u]], op[u]) => Asked(m, C[fileOf[u]], op[u])
                BY <4>3 DEF Asked
            <4> QED
                BY <3>1, <3>4, <4>2, <4>4 DEF Follows
        <3>5. op'[u] = op[u]
            BY <1>23, <2>2
        <3> QED
            BY <1>8, <1>10, <1>13, <1>15, <3>3, <3>4, <3>5 DEF Thread
    <2>3. CASE u # t /\ op[u] = Idle
        BY <1>23, <2>3 DEF Thread
    <2> QED
        BY <2>1, <2>2, <2>3
<1>27. Types'
    BY <1>8, <1>16, <1>23 DEF IInv, Types
<1>28. Structure(next, first, Chains)'
    BY <1>8, <1>10, <1>12, <1>13
<1>29. ((\A g \in Files : ~Shared(g)) => AllOwned(next, Chains))'
    BY <1>10, <1>13, <1>15, <1>20
<1>30. (\A g \in Files : ~Shared(g) => /\ size[g] <= Cap(Chains[g])
                                       /\ Holding(Chains[g], data, content[g]))'
    BY <1>8, <1>13, <1>15, <1>19
<1> QED
    BY <1>26, <1>27, <1>28, <1>29, <1>30 DEF IInv

-----------------------------------------------------------------------------
(* The invariant holds.                                                    *)

LEMMA InitIInv == Init => IInv
<1> SUFFICES ASSUME Init PROVE IInv
    OBVIOUS
<1>1. /\ next \in Tables /\ next \in [Clusters -> Entries] /\ first \in [Files -> Clusters]
      /\ op = [t \in Threads |-> Idle] /\ fileOf \in Assignments
    BY DEF Init, Tables, Entries
<1>2. ASSUME NEW f \in Files
      PROVE  /\ Proper(next, first[f], Chains[f]) /\ Chains[f] \in Seq(Clusters)
             /\ Len(Chains[f]) \in Nat \ {0} /\ DOMAIN Chains[f] = 1 .. Len(Chains[f])
             /\ Chain(f) = Chains[f] /\ Capacity(f) = Cap(Chains[f]) /\ Cap(Chains[f]) \in Nat
    <2>1. Chain(f) = Chains[f]
        BY DEF Chains
    <2>2. PICK n, a : n = next /\ a = first[f]
        OBVIOUS
    <2>3. Chain(f) = ChainFrom(n, a)
        BY <2>2 DEF Chain
    <2>4. /\ n \in [Clusters -> Entries] /\ a \in Clusters
          /\ IsInjective(ChainFrom(n, a)) /\ n[Last(ChainFrom(n, a))] = END
        <3>1. IsInjective(Chain(f)) /\ next[Last(Chain(f))] = END
            BY DEF Init
        <3> QED
            BY <1>1, <2>2, <2>3, <3>1
    <2>5. Proper(n, a, ChainFrom(n, a))
        BY <2>4, ChainIsProper
    <2>6. Proper(next, first[f], Chains[f])
        BY <2>1, <2>2, <2>3, <2>5
    <2>7. PICK w : w = Chains[f]
        OBVIOUS
    <2>8. w \in Seq(Clusters) /\ Len(w) \in Nat \ {0} /\ DOMAIN w = 1 .. Len(w)
        BY <2>6, <2>7, LenProperties DEF Proper
    <2>9. Cap(w) \in Nat
        BY <2>8, CapFacts
    <2> QED
        BY <2>1, <2>6, <2>7, <2>8, <2>9 DEF Capacity, Cap
<1>3. \A f \in Files : \A i \in 1 .. Len(Chains[f]) :
          Chains[f][i] \in Clusters /\ next[Chains[f][i]] # FREE
    <2> SUFFICES ASSUME NEW f \in Files, NEW i \in 1 .. Len(Chains[f])
                 PROVE  Chains[f][i] \in Clusters /\ next[Chains[f][i]] # FREE
        OBVIOUS
    <2>1. PICK n, a, w : n = next /\ a = first[f] /\ w = Chains[f]
        OBVIOUS
    <2>2. Proper(n, a, w) /\ i \in 1 .. Len(w)
        BY <1>2, <2>1
    <2>3. w[i] \in Clusters /\ n[w[i]] # FREE
        BY <2>2, ChainInUse
    <2> QED
        BY <2>1, <2>3
<1>4. \A f, g \in Files : f # g =>
          \A i \in 1 .. Len(Chains[f]), j \in 1 .. Len(Chains[g]) : Chains[f][i] # Chains[g][j]
    <2> SUFFICES ASSUME NEW f \in Files, NEW g \in Files, f # g,
                        NEW i \in 1 .. Len(Chains[f]), NEW j \in 1 .. Len(Chains[g])
                 PROVE  Chains[f][i] # Chains[g][j]
        OBVIOUS
    <2>1. Chains[f][i] \in Range(Chains[f]) /\ Chains[g][j] \in Range(Chains[g])
        BY <1>2 DEF Range
    <2>2. Range(Chains[f]) \cap Range(Chains[g]) = {}
        BY <1>2 DEF Init
    <2> QED
        BY <2>1, <2>2
<1>5. AllOwned(next, Chains)
    <2> SUFFICES ASSUME NEW c \in Clusters, next[c] # FREE
                 PROVE  \E f \in Files : \E i \in 1 .. Len(Chains[f]) : Chains[f][i] = c
        BY DEF AllOwned
    <2>1. PICK f \in Files : c \in Range(Chains[f])
        BY <1>2 DEF Init
    <2> QED
        BY <1>2, <2>1 DEF Range
\* A link leads from a cluster of a chain to the one behind it.
<1>6. ASSUME NEW c \in Clusters, next[c] \in Clusters
      PROVE  \E f \in Files : \E i \in 1 .. Len(Chains[f]) :
                /\ Chains[f][i] = c /\ i + 1 \in 1 .. Len(Chains[f])
                /\ Chains[f][i + 1] = next[c]
    <2>1. next[c] # FREE
        BY <1>6, EntriesAssumption DEF EntriesAssumption
    <2>2. PICK f \in Files : \E i \in 1 .. Len(Chains[f]) : Chains[f][i] = c
        BY <1>5, <2>1 DEF AllOwned
    <2>3. PICK i \in 1 .. Len(Chains[f]) : Chains[f][i] = c
        BY <2>2
    <2>4. i # Len(Chains[f])
        BY <1>2, <1>6, <2>3, EntriesAssumption DEF Proper, EntriesAssumption
    <2>5. i \in 1 .. Len(Chains[f]) - 1 /\ i + 1 \in 1 .. Len(Chains[f])
        BY <1>2, <2>4
    <2>6. next[Chains[f][i]] = Chains[f][i + 1]
        BY <1>2, <2>5 DEF Proper
    <2> QED
        BY <2>3, <2>5, <2>6
<1>7. \A f \in Files : \A i, j \in 1 .. Len(Chains[f]) : Chains[f][i] = Chains[f][j] => i = j
    BY <1>2 DEF Proper
<1>8. Structure(next, first, Chains)
    <2>1. \A f \in Files : \A i \in 1 .. Len(Chains[f]) : Own(next, Chains, f, Chains[f][i])
        BY <1>3, <1>4 DEF Own
    <2>2. ASSUME NEW c \in Clusters, NEW d \in Clusters, next[c] \in Clusters, next[c] = next[d]
          PROVE  c = d
        <3>1. PICK f \in Files : \E i \in 1 .. Len(Chains[f]) :
                 /\ Chains[f][i] = c /\ i + 1 \in 1 .. Len(Chains[f])
                 /\ Chains[f][i + 1] = next[c]
            BY <1>6, <2>2
        <3>2. PICK i \in 1 .. Len(Chains[f]) :
                 /\ Chains[f][i] = c /\ i + 1 \in 1 .. Len(Chains[f])
                 /\ Chains[f][i + 1] = next[c]
            BY <3>1
        <3>3. PICK g \in Files : \E j \in 1 .. Len(Chains[g]) :
                 /\ Chains[g][j] = d /\ j + 1 \in 1 .. Len(Chains[g])
                 /\ Chains[g][j + 1] = next[d]
            BY <1>6, <2>2
        <3>4. PICK j \in 1 .. Len(Chains[g]) :
                 /\ Chains[g][j] = d /\ j + 1 \in 1 .. Len(Chains[g])
                 /\ Chains[g][j + 1] = next[d]
            BY <3>3
        <3>5. f = g
            BY <1>4, <2>2, <3>2, <3>4
        <3>6. i + 1 = j + 1
            BY <1>7, <2>2, <3>2, <3>4, <3>5
        <3>7. i = j
            BY <1>2, <3>2, <3>4, <3>6
        <3> QED
            BY <3>2, <3>4, <3>5, <3>7
    <2>3. ASSUME NEW f \in Files, NEW c \in Clusters, next[c] = first[f] PROVE FALSE
        <3>1. 1 \in 1 .. Len(Chains[f]) /\ Chains[f][1] = first[f] /\ first[f] \in Clusters
            BY <1>1, <1>2 DEF Proper
        <3>2. PICK g \in Files : \E j \in 1 .. Len(Chains[g]) :
                 /\ Chains[g][j] = c /\ j + 1 \in 1 .. Len(Chains[g])
                 /\ Chains[g][j + 1] = next[c]
            BY <1>6, <2>3, <3>1
        <3>3. PICK j \in 1 .. Len(Chains[g]) :
                 /\ Chains[g][j] = c /\ j + 1 \in 1 .. Len(Chains[g])
                 /\ Chains[g][j + 1] = next[c]
            BY <3>2
        <3>4. f = g
            BY <1>4, <2>3, <3>1, <3>3
        <3>5. j + 1 = 1
            BY <1>7, <2>3, <3>1, <3>3, <3>4
        <3> QED
            BY <1>2, <3>3, <3>5
    <2> QED
        BY <1>1, <1>2, <2>1, <2>2, <2>3 DEF Structure
<1>9. NoC \in Nat /\ ClusterSize * NoC \in Nat /\ ClusterSize \in Nat \ {0}
    BY Finite, SizesAssumption DEF SizesAssumption
<1>10. PICK stale \in Bytes \ {0} :
          data = [c \in Clusters |-> [i \in 0 .. ClusterSize - 1 |->
                                         IF next[c] = FREE THEN stale ELSE 0]]
    BY DEF Init
<1>11. content = [f \in Files |-> [i \in Positions |-> 0]]
    BY DEF Init, Positions, NoC
<1>12. Types
    <2>1. data \in [Clusters -> [0 .. ClusterSize - 1 -> Bytes]]
        BY <1>10, BytesAssumption DEF BytesAssumption
    <2>2. content \in [Files -> [Positions -> Bytes]]
        BY <1>11, BytesAssumption DEF BytesAssumption
    <2>3. size \in [Files -> Nat]
        <3>1. size \in [Files -> 0 .. ClusterSize * NoC]
            BY DEF Init, NoC
        <3>2. 0 .. ClusterSize * NoC \subseteq Nat
            BY <1>9
        <3> QED
            BY <3>1, <3>2
    <2> QED
        BY <1>1, <2>1, <2>2, <2>3 DEF Types
<1>13. ASSUME NEW f \in Files PROVE size[f] <= Cap(Chains[f]) /\ Holding(Chains[f], data, content[f])
    <2>1. size[f] <= Cap(Chains[f])
        <3>1. size[f] <= (IF f \in Dirs THEN 0 ELSE Capacity(f)) /\ size[f] \in Nat
            BY <1>12 DEF Init, Types
        <3>2. PICK x \in Nat : x = Cap(Chains[f]) /\ x = Capacity(f)
            BY <1>2
        <3> QED
            BY <3>1, <3>2
    <2>2. \A i \in Positions : content[f][i] = 0
        BY <1>11
    <2>3. ASSUME NEW i \in 0 .. Cap(Chains[f]) - 1
          PROVE  data[Chains[f][(i \div ClusterSize) + 1]][i % ClusterSize] = content[f][i]
        <3>0. PICK w : w = Chains[f]
            OBVIOUS
        <3>1. PICK x \in Nat, k \in Nat : w = Chains[f] /\ x = Cap(w) /\ k = Len(w)
            BY <1>2, <3>0
        <3>2. i \in Nat /\ i < x
            BY <3>1
        <3>3. i \div ClusterSize \in Nat /\ i \div ClusterSize < k
              /\ i % ClusterSize \in 0 .. ClusterSize - 1
            BY <3>1, <3>2, IndexBelow, Division DEF Cap
        <3>4. (i \div ClusterSize) + 1 \in 1 .. Len(w)
            BY <3>1, <3>3
        <3>5. data[Chains[f][(i \div ClusterSize) + 1]][i % ClusterSize] = 0
            <4>1. Chains[f][(i \div ClusterSize) + 1] \in Clusters
                  /\ next[Chains[f][(i \div ClusterSize) + 1]] # FREE
                BY <1>3, <3>1, <3>4
            <4> QED
                BY <1>10, <3>3, <4>1
        <3>6. i \in Positions
            <4>1. PICK p, q : p = next /\ q = first[f]
                OBVIOUS
            <4>2. Proper(p, q, w) /\ q \in Clusters
                BY <1>1, <1>2, <3>1, <4>1
            <4>3. k <= NoC
                BY <3>1, <4>2, ProperIsChain
            <4>4. ClusterSize * k <= ClusterSize * NoC /\ x = ClusterSize * k
                BY <1>9, <3>1, <4>3, Monotonic DEF Cap
            <4>5. PICK r \in Nat : r = ClusterSize * NoC
                BY <1>9
            <4>6. x <= r
                BY <4>4, <4>5
            <4> QED
                BY <3>2, <4>5, <4>6 DEF Positions
        <3> QED
            BY <2>2, <3>5, <3>6
    <2> QED
        BY <2>1, <2>2, <2>3 DEF Holding
<1>14. \A t \in Threads : Thread(t)
    BY <1>1 DEF Thread
<1> QED
    BY <1>5, <1>8, <1>12, <1>13, <1>14 DEF IInv

LEMMA NextIInv == IInv /\ [Next]_vars => IInv'
<1> SUFFICES ASSUME IInv, [Next]_vars PROVE IInv'
    OBVIOUS
<1>1. CASE UNCHANGED vars
    <2>1. /\ next' = next /\ data' = data /\ first' = first /\ fileOf' = fileOf
          /\ size' = size /\ op' = op /\ content' = content
        BY <1>1 DEF vars
    <2>2. Chains' = Chains /\ Alone' = Alone /\ \A f \in Files : Shared(f)' = Shared(f)
        BY <2>1 DEF Chains, Chain, Alone, Shared
    <2>3. Types' /\ \A t \in Threads : Thread(t)'
        BY <2>1, <2>2 DEF IInv, Types, Thread
    <2> QED
        BY <2>1, <2>2, <2>3 DEF IInv
<1>2. ASSUME NEW t \in Threads,
             \/ \E off \in Offsets, buf \in Writes : BeginWrite(t, off, buf)
             \/ ReadCapacity(t) \/ LastCluster(t) \/ AllocClusters(t)
             \/ \E off \in Offsets, len \in Lengths : BeginRead(t, off, len)
             \/ CopyEntry(t) \/ SetBounds(t) \/ FindCluster(t)
             \/ WriteByte(t) \/ ReadByte(t) \/ NextCluster(t)
             \/ FinishWrite(t) \/ FinishRead(t)
      PROVE  IInv'
    <2>1. CASE \/ \E off \in Offsets, buf \in Writes : BeginWrite(t, off, buf)
               \/ \E off \in Offsets, len \in Lengths : BeginRead(t, off, len)
        BY <2>1, BeginKeeps
    <2>2. CASE ReadCapacity(t)
        BY <2>2, ReadCapacityKeeps
    <2>3. CASE LastCluster(t)
        BY <2>3, LastClusterKeeps
    <2>4. CASE AllocClusters(t)
        BY <2>4, RefusalKeeps, GrowthKeeps
    <2>5. CASE CopyEntry(t)
        BY <2>5, CopyEntryKeeps
    <2>6. CASE SetBounds(t)
        BY <2>6, SetBoundsKeeps
    <2>7. CASE FindCluster(t)
        BY <2>7, FindClusterKeeps
    <2>8. CASE WriteByte(t)
        BY <2>8, WriteByteKeeps
    <2>9. CASE ReadByte(t)
        BY <2>9, ReadByteKeeps
    <2>10. CASE NextCluster(t)
        BY <2>10, NextClusterKeeps
    <2>11. CASE FinishWrite(t) \/ FinishRead(t)
        BY <2>11, FinishKeeps
    <2> QED
        BY <1>2, <2>1, <2>2, <2>3, <2>4, <2>5, <2>6, <2>7, <2>8, <2>9, <2>10, <2>11
<1> QED
    BY <1>1, <1>2 DEF Next

\* The inductive invariant holds for every number of clusters, files and
\* threads, every size of cluster, and all offsets, buffers and lengths.
THEOREM Invariance == Spec => []IInv
BY InitIInv, NextIInv, PTL DEF Spec

-----------------------------------------------------------------------------
(* What follows from it.                                                   *)

LEMMA TypesFollow == IInv => TypeOK
<1> SUFFICES ASSUME IInv PROVE TypeOK
    OBVIOUS
<1>1. /\ next \in [Clusters -> Clusters \cup {FREE, END}] /\ first \in [Files -> Clusters]
      /\ data \in [Clusters -> [0 .. ClusterSize - 1 -> Bytes]] /\ fileOf \in Assignments
      /\ size \in [Files -> Nat]
    BY DEF IInv, Types, Structure, Tables
<1>2. ASSUME NEW t \in Threads, op[t] # Idle
      PROVE  /\ op[t].at \in Labels /\ op[t].fn \in {"write_at", "read_at"}
             /\ op[t].off \in Nat /\ op[t].buf \in Seq(Bytes)
             /\ op[t].num \in 0 .. UsizeMax /\ op[t].size \in Nat
             /\ op[t].last \in Clusters \cup {END} /\ op[t].cur \in Clusters \cup {END}
             /\ op[t].done \in 0 .. Len(op[t].buf)
    <2>1. op[t] \in Calls /\ Where(next, Chains, fileOf[t], op[t])
        BY <1>2, InCall
    <2>2. op[t].done \in Nat /\ Len(op[t].buf) \in Nat /\ op[t].done <= Len(op[t].buf)
        BY <2>1, CallBuf DEF Where
    <2> QED
        BY <2>1, <2>2 DEF Calls
<1> QED
    BY <1>1, <1>2 DEF TypeOK

LEMMA PrivacyFollows == IInv => ChainsPrivate
<1> SUFFICES ASSUME IInv PROVE ChainsPrivate
    OBVIOUS
<1>1. ASSUME NEW f \in Files
      PROVE  /\ Chain(f) = Chains[f] /\ Range(Chain(f)) = {Chains[f][i] : i \in 1 .. Len(Chains[f])}
             /\ IsInjective(Chain(f)) /\ next[Last(Chain(f))] = END
    <2>1. Chain(f) = Chains[f] /\ Chains[f] \in Seq(Clusters) /\ Proper(next, first[f], Chains[f])
        BY ChainFacts DEF IInv
    <2>2. DOMAIN Chains[f] = 1 .. Len(Chains[f])
        BY <2>1, LenProperties
    <2> QED
        BY <2>1, <2>2 DEF Range, IsInjective, Proper, Last
<1>2. ASSUME NEW f \in Files, NEW g \in Files, f # g
      PROVE  Range(Chain(f)) \cap Range(Chain(g)) = {}
    <2>1. \A i \in 1 .. Len(Chains[f]), j \in 1 .. Len(Chains[g]) : Chains[f][i] # Chains[g][j]
        BY <1>2 DEF IInv, Structure, Own
    <2> QED
        BY <1>1, <2>1
<1>3. ASSUME \A f \in Files : ~Shared(f), NEW c \in Clusters, next[c] # FREE
      PROVE  \E f \in Files : c \in Range(Chain(f))
    <2>1. AllOwned(next, Chains)
        BY <1>3 DEF IInv
    <2>2. PICK f \in Files : \E i \in 1 .. Len(Chains[f]) : Chains[f][i] = c
        BY <1>3, <2>1 DEF AllOwned
    <2> QED
        BY <1>1, <2>2
<1> QED
    BY <1>1, <1>2, <1>3 DEF ChainsPrivate

LEMMA ContentFollows == IInv => HoldsWhatWasWritten
<1> SUFFICES ASSUME IInv, NEW f \in Files, ~Shared(f), NEW i \in 0 .. Capacity(f) - 1
             PROVE  data[Chain(f)[(i \div ClusterSize) + 1]][i % ClusterSize] = content[f][i]
    BY DEF HoldsWhatWasWritten
<1>1. Chain(f) = Chains[f] /\ Capacity(f) = Cap(Chains[f])
    BY ChainFacts DEF IInv
<1>2. Holding(Chains[f], data, content[f])
    BY DEF IInv
<1> QED
    BY <1>1, <1>2 DEF Holding

LEMMA ReadsFollow == IInv => ReadsLatest
<1> SUFFICES ASSUME IInv, NEW t \in Alone, op[t].at # "idle", op[t].fn = "read_at",
                    NEW i \in 1 .. op[t].done
             PROVE  op[t].buf[i] = content[fileOf[t]][op[t].off + i - 1]
    BY DEF ReadsLatest
<1>1. op[t] # Idle /\ t \in Threads
    BY DEF Idle, Alone
<1>2. Follows(next, Chains[fileOf[t]], fileOf[t], content[fileOf[t]], op[t])
    BY <1>1, InCall
<1> QED
    BY <1>2 DEF Follows

\* A call that is done, on a file that nobody else uses.
LEMMA AtDone ==
    ASSUME IInv, NEW t \in Alone, NEW fns, At(t, fns, "done")
    PROVE  LET o    == op[t]
               stop == Min2(o.off + Len(o.buf), Limit(t))
           IN  /\ o.done = (IF o.off < stop THEN stop - o.off ELSE 0)
               /\ o \in Calls /\ Capacity(fileOf[t]) = Cap(Chains[fileOf[t]])
               /\ Follows(next, Chains[fileOf[t]], fileOf[t], content[fileOf[t]], o)
               /\ Limit(t) = LimitOf(Chains[fileOf[t]], fileOf[t], o) /\ o.at = "done"
               /\ Cap(Chains[fileOf[t]]) \in Nat /\ o.stop = stop
<1>1. op[t] # Idle /\ t \in Threads /\ op[t].at = "done"
    BY BusyIsCall DEF Alone
<1>2. /\ op[t] \in Calls /\ fileOf[t] \in Files
      /\ Follows(next, Chains[fileOf[t]], fileOf[t], content[fileOf[t]], op[t])
    BY <1>1, InCall
<1>3. Capacity(fileOf[t]) = Cap(Chains[fileOf[t]]) /\ Cap(Chains[fileOf[t]]) \in Nat
    BY <1>2, ChainFacts DEF IInv
<1>4. Limit(t) = LimitOf(Chains[fileOf[t]], fileOf[t], op[t])
    BY <1>3 DEF Limit, LimitOf
<1>5. /\ op[t].stop = Min2(op[t].off + Len(op[t].buf), Limit(t))
      /\ op[t].done = IF op[t].off < op[t].stop THEN op[t].stop - op[t].off ELSE 0
    BY <1>1, <1>2, <1>4 DEF Follows
<1> QED
    BY <1>1, <1>2, <1>3, <1>4, <1>5

LEMMA EndFollows == IInv => ReadsToTheEnd
<1> SUFFICES ASSUME IInv PROVE ReadsToTheEnd
    OBVIOUS
<1>1. \A f \in Files : ~Shared(f) => size[f] <= Capacity(f)
    BY ChainFacts DEF IInv
<1>2. ASSUME NEW t \in Alone, At(t, {"read_at"}, "done")
      PROVE  LET o    == op[t]
                 stop == Min2(o.off + Len(o.buf), Limit(t))
             IN  o.done = (IF o.off < stop THEN stop - o.off ELSE 0)
    BY <1>2, AtDone
<1> QED
    BY <1>1, <1>2 DEF ReadsToTheEnd

LEMMA ShortFollows == SumsFit /\ IInv => ShortOnlyWhenFull
<1> SUFFICES ASSUME SumsFit, IInv, NEW t \in Alone, At(t, {"write_at"}, "done"),
                    op[t].done < Len(op[t].buf)
             PROVE  Refused(op[t].num) /\ Capacity(fileOf[t]) < op[t].off + Len(op[t].buf)
    BY DEF ShortOnlyWhenFull
<1> DEFINE w == Chains[fileOf[t]]
<1>1. /\ op[t].done = (IF op[t].off < op[t].stop THEN op[t].stop - op[t].off ELSE 0)
      /\ op[t].stop = Min2(op[t].off + Len(op[t].buf), Limit(t))
      /\ op[t] \in Calls /\ Capacity(fileOf[t]) = Cap(w)
      /\ Follows(next, w, fileOf[t], content[fileOf[t]], op[t])
      /\ Limit(t) = LimitOf(w, fileOf[t], op[t]) /\ op[t].at = "done" /\ Cap(w) \in Nat
    BY AtDone
<1>2. op[t].fn = "write_at"
    BY DEF At
<1>3. Limit(t) = Cap(w) /\ (op[t].off + Len(op[t].buf) <= Cap(w) \/ Denied(next, op[t].num))
    BY <1>1, <1>2 DEF LimitOf, Follows, Asked, InLoop
<1>4. /\ Len(op[t].buf) \in Nat /\ op[t].off \in Nat /\ op[t].stop \in Nat
      /\ op[t].done \in Nat
    BY <1>1, CallBuf
<1> HIDE DEF w
<1>5. Cap(w) < op[t].off + Len(op[t].buf)
    <2>1. SUFFICES ASSUME op[t].off + Len(op[t].buf) <= Cap(w) PROVE FALSE
        BY <1>1, <1>4
    <2>2. op[t].stop = op[t].off + Len(op[t].buf)
        BY <1>1, <1>3, <2>1 DEF Min2
    <2> QED
        BY <1>1, <1>4, <2>2
<1>6. Denied(next, op[t].num)
    BY <1>1, <1>3, <1>4, <1>5
<1> QED
    BY <1>1, <1>5, <1>6 DEF Denied, Refused, Free, FreeClusters

\* Every variable stays in its type.
THEOREM TypeCorrect == Spec => []TypeOK
BY Invariance, TypesFollow, PTL

\* Files that grow at the same time keep clusters of their own, every chain ends,
\* and without shared files no cluster is lost: the last cluster that
\* adjust_capacity read before it asks for fs.write() is still its file's
\* (vfs.rs:430-437).
THEOREM ChainsStayPrivate == Spec => []ChainsPrivate
BY Invariance, PrivacyFollows, PTL

\* Each byte of a file that is not shared lies where pos and the loops look for it,
\* and what was never written reads as zero (dir_entry.rs:227-236, 340-372,
\* runfs.rs:107-110).
THEOREM BytesStay == Spec => []HoldsWhatWasWritten
BY Invariance, ContentFollows, PTL

\* read_at returns what was last written, across clusters and whatever other threads
\* do (dir_entry.rs:274-309).
THEOREM ReadsAreLatest == Spec => []ReadsLatest
BY Invariance, ReadsFollow, PTL

\* read_at ends at the size or the capacity, never for want of a cluster
\* (dir_entry.rs:269, 306).
THEOREM ReadsComplete == Spec => []ReadsToTheEnd
BY Invariance, EndFollows, PTL

\* write_at stops short only when the allocator refused, provided that the
\* sums of adjust_capacity fit a usize (vfs.rs:424-439).
THEOREM ShortWritesMeanFull ==
    ASSUME SumsFit
    PROVE  Spec => []ShortOnlyWhenFull
<1>1. IInv => ShortOnlyWhenFull
    BY ShortFollows
<1> QED
    BY <1>1, Invariance, PTL
=============================================================================
