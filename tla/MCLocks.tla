------------------------------ MODULE MCLocks ------------------------------
(* Three threads: a circle of two, and one that comes in between. *)
EXTENDS Locks

CONSTANTS t1, t2, t3
MCThreads == {t1, t2, t3}
=============================================================================
