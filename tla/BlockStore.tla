----------------------------- MODULE BlockStore -----------------------------
(***************************************************************************)
(* What a block cache promises to the code above it.  There is one current *)
(* content of every block (mem) and one that survives a crash (stable).    *)
(* Writes change the current content only.  The cache may make any part of *)
(* a block stable when it likes, a crash falls back to what is stable, and *)
(* an orderly shutdown happens only once everything is stable.  An error   *)
(* of the device may take one block back to what is stable of it.          *)
(***************************************************************************)
CONSTANTS Blocks, Parts, Values

VARIABLES mem, stable, open

svars == <<mem, stable, open>>

Contents == [Blocks -> [Parts -> Values]]

Init == mem \in Contents /\ stable = mem /\ open = TRUE

Write(b, p, v) ==
    /\ open
    /\ mem' = [mem EXCEPT ![b] = [mem[b] EXCEPT ![p] = v]]
    /\ UNCHANGED <<stable, open>>

Persist(b, p) ==
    /\ open
    /\ stable' = [stable EXCEPT ![b] = [stable[b] EXCEPT ![p] = mem[b][p]]]
    /\ UNCHANGED <<mem, open>>

Crash == mem' = stable /\ open' = TRUE /\ UNCHANGED stable

Lose(b) ==
    /\ open
    /\ mem' = [mem EXCEPT ![b] = stable[b]]
    /\ UNCHANGED <<stable, open>>

Shutdown == open /\ stable = mem /\ open' = FALSE /\ UNCHANGED <<mem, stable>>

Open == ~open /\ open' = TRUE /\ UNCHANGED <<mem, stable>>

Next == \/ \E b \in Blocks, p \in Parts, v \in Values : Write(b, p, v)
        \/ \E b \in Blocks, p \in Parts : Persist(b, p)
        \/ \E b \in Blocks : Lose(b)
        \/ Crash \/ Shutdown \/ Open

Spec == Init /\ [][Next]_svars
=============================================================================
