------------------------------- MODULE MCAppIf -------------------------------
(* AppIf with interchangeable applications.                                *)
EXTENDS AppIf, TLC

Symmetry == Permutations(Conns)
=============================================================================
