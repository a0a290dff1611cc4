------------------------------ MODULE MCRwLock ------------------------------
(* RwLock with interchangeable threads.                                    *)
EXTENDS RwLock, TLC

Symmetry == Permutations(Threads)
=============================================================================
