------------------------------ MODULE FifoQueue ------------------------------
(***************************************************************************)
(* What the broadcast queue promises: messages leave in the order in which *)
(* they were accepted, none twice and none left out.                       *)
(***************************************************************************)
EXTENDS Sequences

CONSTANT Messages

VARIABLES items,    \* accepted and not taken
          out       \* taken, in order

Init == items = <<>> /\ out = <<>>

Push(m) == items' = Append(items, m) /\ UNCHANGED out

Pop ==
  /\ items # <<>>
  /\ out' = Append(out, Head(items))
  /\ items' = Tail(items)

Next == Pop \/ \E m \in Messages : Push(m)

Spec == Init /\ [][Next]_<<items, out>>
=============================================================================
