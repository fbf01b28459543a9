------------------------------- MODULE Locks -------------------------------
(***************************************************************************)
(* The locks of the file system and the order in which its calls take      *)
(* them.  Every VFile holds the same RwLock of the RunFileSystem (fs), and *)
(* that one holds a lock of the FAT manager (fat), of the data manager     *)
(* (data) and, inside the latter, of the root's own entry (root).          *)
(*                                                                         *)
(* A call of vfs.rs or dir_entry.rs never keeps a guard over a whole       *)
(* operation: it is a sequence of sections, each of which takes a few      *)
(* guards one after the other, and drops them in the reverse order at the  *)
(* end of its statement or block.  Each kind of section is an operator     *)
(* here; a thread runs sections in any order, which includes the order of  *)
(* every call.                                                             *)
(***************************************************************************)
EXTENDS Naturals, Sequences

CONSTANTS
  Threads,      \* threads that call methods of VFiles of one file system
  FILECLUSTERS, \* the most clusters one call of alloc_clusters adds
  MAXSECTIONS   \* bound: sections a thread runs

ASSUME BoundsAssumption == FILECLUSTERS \in Nat /\ MAXSECTIONS \in Nat

VARIABLES
  held,  \* held[t]: the guards of t, in the order in which it took them
  todo,  \* todo[t]: the steps its section still has
  left   \* left[t]: sections t may still begin

vars == <<held, todo, left>>

Read(l)  == [lock |-> l, mode |-> "read"]
Write(l) == [lock |-> l, mode |-> "write"]
Guards   == {Read(l) : l \in {"fs", "fat", "data", "root"}}
              \cup {Write(l) : l \in {"fs", "fat", "data", "root"}}
Drop     == [lock |-> "last", mode |-> "drop"]

(***************************************************************************)
(* Sections.  Holding takes guards, runs a body and drops the guards.      *)
(***************************************************************************)
Holding(guards, body) == guards \o body \o [i \in 1..Len(guards) |-> Drop]

Alone(guards) == Holding(guards, <<>>)

\* The geometry of the volume: fs.read().bpb().
ReadBpb == Alone(<<Read("fs")>>)

\* MUTANT: the walk of the chain runs while the guard of the entry is kept.
TouchDataThenWalk == Alone(<<Read("fs"), Write("data"), Write("fat")>>)

\* One byte, or one entry, of the data area: fs.read().data_manager_modify().
TouchData == Alone(<<Read("fs"), Write("data")>>)

\* One walk along a chain: fs.read().fat_manager_modify(); pos binds the first
\* guard to a variable and keeps it to its end.
Walk == Alone(<<Read("fs"), Write("fat")>>)

\* next_free_cluster, free_clusters and fsinfo of a RunFileSystem.
ReadFsinfo == Alone(<<Read("fs"), Read("fat")>>)

\* The root's own entry, kept in the data manager and not on disk.
RootDirent(fsGuard) == Alone(<<fsGuard, Read("data"), Read("root")>>)

\* first_data_cluster of a root, and of any other file.
FirstDataCluster == {ReadBpb, TouchData}

\* An absolute path begins in find_vfile_bypath: root_vfile takes fs again while
\* the guard of the call lives.
RootVFile == Holding(<<Read("fs")>>, ReadBpb)

\* capacity and adjust_capacity: the guard of fs and the one of fat are taken
\* before the argument, first_data_cluster(), takes fs again and then data.
WalkFromEntry == {Holding(<<Read("fs"), Write("fat")>>, first) : first \in FirstDataCluster}

\* RunFileSystem::alloc_cluster(s): the scrutinee's guard of fat lives while each
\* new cluster is cleared under a guard of data of its own.
AllocClusters(n) ==
  Holding(<<Write("fs"), Write("fat")>>,
          [i \in 1..(2 * n) |-> IF i % 2 = 1 THEN Write("data") ELSE Drop])

\* The same for no cluster: it returns before it asks for fat.
AllocNone == Alone(<<Write("fs")>>)

DeallocClusters == Alone(<<Write("fs"), Write("fat")>>)

Sections ==
  {ReadBpb, TouchData, Walk, ReadFsinfo, RootVFile, AllocNone, DeallocClusters}
    \cup {RootDirent(Read("fs")), RootDirent(Write("fs"))}
    \cup WalkFromEntry
    \cup {AllocClusters(n) : n \in 0..FILECLUSTERS}

(***************************************************************************)
(* spin::RwLock: a writer wants the lock alone, a reader wants no writer;  *)
(* one that waits spins and is not seen by the others.  A thread's own     *)
(* guard counts as anyone's: the lock knows no owners.                     *)
(***************************************************************************)
Wants(t) == IF todo[t] # <<>> /\ Head(todo[t]) \in Guards THEN {Head(todo[t])} ELSE {}

HoldsOf(t) == {held[t][i] : i \in 1..Len(held[t])}

Conflict(g, h) == g.lock = h.lock /\ (g.mode = "write" \/ h.mode = "write")

\* MUTANT: a lock that lets no reader in while a writer waits.
BlocksPreferringWriters(u, t) ==
  \E g \in Wants(t) :
    \/ \E h \in HoldsOf(u) : Conflict(g, h)
    \/ g.mode = "read" /\ Write(g.lock) \in Wants(u)

\* u holds what keeps t from the guard it wants.
Blocks(u, t) == \E g \in Wants(t), h \in HoldsOf(u) : Conflict(g, h)

Init ==
  /\ held = [t \in Threads |-> <<>>]
  /\ todo = [t \in Threads |-> <<>>]
  /\ left = [t \in Threads |-> MAXSECTIONS]

Begin(t) ==
  /\ todo[t] = <<>> /\ left[t] > 0
  /\ \E section \in Sections : todo' = [todo EXCEPT ![t] = section]
  /\ left' = [left EXCEPT ![t] = @ - 1]
  /\ UNCHANGED held

Take(t) ==
  /\ \E g \in Wants(t) : held' = [held EXCEPT ![t] = Append(@, g)]
  /\ \A u \in Threads : ~Blocks(u, t)
  /\ todo' = [todo EXCEPT ![t] = Tail(@)]
  /\ UNCHANGED left

DropLast(t) ==
  /\ todo[t] # <<>> /\ Head(todo[t]) = Drop
  /\ held' = [held EXCEPT ![t] = SubSeq(@, 1, Len(@) - 1)]
  /\ todo' = [todo EXCEPT ![t] = Tail(@)]
  /\ UNCHANGED left

Run(t) == Begin(t) \/ Take(t) \/ DropLast(t)

Next == \E t \in Threads : Run(t)

Spec == Init /\ [][Next]_vars

\* A thread that can take its next step does so in the end.
FairSpec == Spec /\ \A t \in Threads : WF_vars(Run(t))

(***************************************************************************)
(* Properties                                                              *)
(***************************************************************************)

\* No threads wait for each other in a circle, and none waits for itself: not
\* even where capacity, adjust_capacity and find_vfile_bypath take fs a second time,
\* with a writer already spinning for it, nor where fat is held while data is waited for.
NoCyclicWait ==
  \A circle \in SUBSET Threads :
    circle # {} => \E t \in circle : \A u \in circle : ~Blocks(u, t)

\* Every section that begins ends with all its guards dropped, however the
\* sections of the other threads fall between its steps.
CallsReturn ==
  \A t \in Threads : todo[t] # <<>> ~> todo[t] = <<>> /\ held[t] = <<>>
=============================================================================
