------------------------------ MODULE FATWalk ------------------------------
(***************************************************************************)
(* The walks of src/fat.rs along a chain, each with the loop it has in the *)
(* code, and the allocator seen through them: FAT implements ClusterPool   *)
(* when a chain is what all_clusters returns.                              *)
(*                                                                         *)
(* The loops of the code have no bound; a walk here takes Fuel steps,      *)
(* enough for every chain that does not repeat a cluster (ChainsEnd).      *)
(***************************************************************************)
EXTENDS FAT, Sequences

Fuel == TotalClusters

\* next_cluster: the successor, or None.
NextCluster(f, c) == IF IsNext(f[c]) THEN f[c] ELSE NONE

AllClusters(f, start) ==
    LET walk[n \in 0 .. Fuel] ==
            IF n = 0 THEN <<start>>
            ELSE LET seen == walk[n - 1]
                     next == NextCluster(f, seen[Len(seen)])
                 IN  IF next = NONE THEN seen ELSE Append(seen, next)
    IN  walk[Fuel]

CountClusters(f, start) ==
    LET walk[n \in 0 .. Fuel] ==
            IF n = 0 THEN [cur |-> start, num |-> 1]
            ELSE LET w == walk[n - 1] IN
                 IF NextCluster(f, w.cur) = NONE THEN w
                 ELSE [cur |-> NextCluster(f, w.cur), num |-> w.num + 1]
    IN  walk[Fuel].num

\* last_cluster, and final_cluster, which differs in a mask.
LastCluster(f, start) ==
    LET walk[n \in 0 .. Fuel] ==
            IF n = 0 THEN start
            ELSE IF NextCluster(f, walk[n - 1]) = NONE THEN walk[n - 1]
            ELSE NextCluster(f, walk[n - 1])
    IN  walk[Fuel]

\* Mutant: the walk takes one step too many.
SearchClusterOffByOne(f, start, index) ==
    LET walk[n \in 0 .. index] ==
            IF n = 0 THEN NextCluster(f, start)
            ELSE IF walk[n - 1] = NONE THEN NONE
            ELSE NextCluster(f, walk[n - 1])
    IN  walk[index]

\* The index-th cluster of a chain, or None past its end.
SearchCluster(f, start, index) ==
    LET walk[n \in 0 .. index] ==
            IF n = 0 THEN start
            ELSE IF walk[n - 1] = NONE THEN NONE
            ELSE NextCluster(f, walk[n - 1])
    IN  walk[index]

-----------------------------------------------------------------------------
\* The walks agree with each other on every chain a caller holds, in every
\* table the calls can produce, and all_clusters visits no cluster twice:
\* data.rs finds a file's n-th cluster with search_cluster, vfs.rs sizes a
\* file with count_clusters and appends to last_cluster.
WalksAgree ==
    \A h \in Roots(fat) :
        LET all == AllClusters(fat, h) IN
        /\ \A i, j \in DOMAIN all : all[i] = all[j] => i = j
        /\ CountClusters(fat, h) = Len(all)
        /\ LastCluster(fat, h) = all[Len(all)]
        /\ LastCluster(fat, h) \in Tails(fat)
        /\ \A n \in 0 .. TotalClusters :
               SearchCluster(fat, h, n) = IF n < Len(all) THEN all[n + 1] ELSE NONE

Pool == INSTANCE ClusterPool WITH
            Clusters <- DataClusters,
            free     <- FreeClusters(fat),
            chains   <- {AllClusters(fat, h) : h \in Roots(fat)}

\* Every step of the manager, an iteration of a loop or a panic in one
\* included, starts a chain, grows one at its end, takes one cluster out of
\* one, or leaves all of them alone (fat.rs:276-348).
ImplementsPool == Pool!Spec
=============================================================================
