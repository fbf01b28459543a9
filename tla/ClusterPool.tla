---------------------------- MODULE ClusterPool ----------------------------
(***************************************************************************)
(* What a cluster allocator promises, without table, hint or count: a pool *)
(* of free clusters and a set of chains.  Chains grow by one free cluster  *)
(* at their end, start from one free cluster, and lose one cluster at a    *)
(* time, which goes back to the pool; no other chain is touched.           *)
(***************************************************************************)
EXTENDS Naturals, Sequences

CONSTANT Clusters

VARIABLES free, chains

\* The nonempty ones of a set of sequences.
NonEmpty(seqs) == seqs \ {<<>>}

\* Free clusters and chains share nothing, and chains do not repeat.
Disjoint ==
    /\ \A s \in chains : \A i \in DOMAIN s : s[i] \in Clusters \ free
    /\ \A s, t \in chains : \A i \in DOMAIN s, j \in DOMAIN t :
           s[i] = t[j] => s = t /\ i = j

Init ==
    /\ free \subseteq Clusters
    /\ \A s \in chains : s # <<>>
    /\ Disjoint

\* Cluster c leaves, or goes back to, the pool.
Take(c) == free' = free \ {c}
Give(c) == free' = free \cup {c}

StartChain == \E c \in free \ free' :
    /\ Take(c)
    /\ chains' = chains \cup {<<c>>}

Grow == \E c \in free \ free' :
    /\ Take(c)
    /\ \E s \in chains : chains' = (chains \ {s}) \cup {Append(s, c)}

\* A cluster leaves its chain; what is before and after it stays.
Cut == \E c \in free' \ free :
    /\ Give(c)
    /\ \E s \in chains : \E k \in DOMAIN s :
        /\ s[k] = c
        /\ chains' = (chains \ {s})
                        \cup NonEmpty({SubSeq(s, 1, k - 1), SubSeq(s, k + 1, Len(s))})

Next == StartChain \/ Grow \/ Cut

Spec == Init /\ [][Next]_<<free, chains>>
=============================================================================
