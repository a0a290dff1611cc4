------------------------------ MODULE MCClipIf ------------------------------
(* ClipIf with interchangeable connections.                                *)
EXTENDS ClipIf, TLC

Symmetry == Permutations(Conns)
=============================================================================
