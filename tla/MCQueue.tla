------------------------------- MODULE MCQueue -------------------------------
(* One producer pushes twice, the other once.                               *)
EXTENDS Queue
CONSTANTS p1, p2

MCMaxPush == [p \in {p1, p2} |-> IF p = p1 THEN 2 ELSE 1]
=============================================================================
