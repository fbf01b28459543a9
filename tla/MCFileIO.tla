------------------------------ MODULE MCFileIO ------------------------------
(* Instances of FileIO for TLC.                                            *)
EXTENDS FileIO, TLC

CONSTANTS c1, c2, c3, c4, f1, f2, t1, t2

MCClusters == {c1, c2, c3, c4}
MCOneFile  == {f1}
MCTwoFiles == {f1, f2}
MCNoDir    == {}
MCDir      == {f2}
MCOne      == {t1}
MCTwo      == {t1, t2}
MCOneOf    == {t1 :> f1}
\* Each its own file, the directory together, or the file together.
MCAnyOf    == [MCTwo -> MCTwoFiles]
MCWrites   == {<<>>, <<1>>, <<2, 1, 2>>}
MCPair     == {<<2, 1>>}
Sym        == Permutations(MCClusters) \cup Permutations(MCTwo)
=============================================================================
