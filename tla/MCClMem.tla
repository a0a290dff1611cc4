------------------------------- MODULE MCClMem -------------------------------
(* ClMem with interchangeable buffers.                                     *)
EXTENDS ClMem, TLC

Symmetry == Permutations(Buffers)
=============================================================================
