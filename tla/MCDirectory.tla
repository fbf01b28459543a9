---------------------------- MODULE MCDirectory -----------------------------
(* Instances of Directory for TLC: pieces of two characters, short names of *)
(* two and one.                                                             *)
EXTENDS Directory, TLC

CONSTANTS c1, c2, c3, c4

MCUppercase == "q" :> "Q" @@ "Q" :> "Q" @@ "_" :> "_"

\* Names of one, two and three pieces with one short name.  The last piece of
\* one is an inner piece of the others, two begin alike on disk, one fills
\* its last piece.
qq    == <<"q", "q">>
qqq   == <<"q", "q", "q">>
qqqqq == <<"q", "q", "q", "q", "q">>
QQ    == <<"Q", "Q">>

MCNames      == {qq, qqq, qqqqq}
MCOneName    == {qq}
MCShortNames == {qq, QQ}
MCKinds      == {<<qq, "file">>, <<qqq, "dir">>, <<qqqqq, "file">>}
MCBothKinds  == {<<qq, "file">>, <<qq, "dir">>}
MCFile       == {<<qq, "file">>}
MCClusters   == {c1, c2, c3, c4}
MCDrift      == {-1, 0, 1}
MCExact      == {0}
Sym          == Permutations(MCClusters)

\* Every name of up to five of these characters.
MCAllNames == SeqOf({"q", "Q", Dot, Space, "+"}, 5) \ {<<>>}

\* The main instance has the names that the theorems ask for.
ASSUME MainNamesApart == Names = MCNames /\ Kinds = MCKinds => NamesApart

\* name_format gives back what long_name_split was given, whether the last
\* piece is full or not (vfs.rs:16-32, dir_entry.rs:446-474).
ASSUME SplitsAndJoins ==
    \A n \in MCAllNames : Joined(Reverse(LongNameSplit(n))) = n

\* The short name of a short name is itself: a file whose name is one is
\* found by it (vfs.rs:34-83, dir_entry.rs:164-186), unless it is blank.
ASSUME ShortNamesAreStable ==
    \A n \in MCAllNames :
        LET short == GenerateShortName(n) IN
        short.base # <<>> => GenerateShortName(ShortName(short)) = short
=============================================================================
