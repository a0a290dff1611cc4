----------------------------- MODULE MCTimeSync -----------------------------
(* A chain of clipboards: the second one forwards what it gets.             *)
EXTENDS TimeSync
CONSTANTS r, a, b

MCParent == [n \in {a, b} |-> IF n = a THEN r ELSE a]
MCOffset == [n \in {r, a, b} |-> IF n = r THEN 0 ELSE IF n = a THEN 7 ELSE 12]
=============================================================================
