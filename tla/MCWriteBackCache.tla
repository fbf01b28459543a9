-------------------------- MODULE MCWriteBackCache --------------------------
(* Instances of WriteBackCache for TLC.                                    *)
EXTENDS WriteBackCache, TLC

CONSTANTS b1, b2, b3, x1, x2, x3, h1, h2, h3

MCBlocks  == {b1, b2, b3}
MCBuffers == {x1, x2, x3}
MCThree   == {h1, h2, h3}
Sym == Permutations(MCBlocks) \cup Permutations(MCBuffers) \cup Permutations(MCThree)
=============================================================================
