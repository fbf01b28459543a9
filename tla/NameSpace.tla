----------------------------- MODULE NameSpace ------------------------------
(***************************************************************************)
(* What a directory promises: a map from names to files, changed only by   *)
(* the calls that say so, and only at the name they are given.             *)
(***************************************************************************)
CONSTANTS Names, Kinds, Clusters, NONE

VARIABLES
    map,    \* by name: kind and first cluster of its file, or NONE
    ret     \* what the last create or lookup returned

vars == <<map, ret>>

File == [kind : {"file", "dir"}, first : Clusters]
Live == {n \in Names : map[n] # NONE}

Init == map = [n \in Names |-> NONE] /\ ret = NONE

\* A new file is of a kind callers ask for, and has a cluster no other has.
Create(n) ==
    /\ ret' \in File /\ <<n, ret'.kind>> \in Kinds
    /\ map[n] = NONE
    /\ map' = [map EXCEPT ![n] = ret']
    /\ \A m \in Live : map[m].first # ret'.first

CreateExisting(n) == map[n] # NONE /\ ret' = NONE /\ UNCHANGED map

Lookup(n) == ret' = map[n] /\ UNCHANGED map

Delete(n) == map[n] # NONE /\ map' = [map EXCEPT ![n] = NONE] /\ ret' = NONE

\* A deletion that does not return takes the name away, too.
DeleteStops(n) == map[n] # NONE /\ map' = [map EXCEPT ![n] = NONE] /\ UNCHANGED ret

Next == \E n \in Names :
    Create(n) \/ CreateExisting(n) \/ Lookup(n) \/ Delete(n) \/ DeleteStops(n)

Spec == Init /\ [][Next]_vars
=============================================================================
