----------------------------- MODULE LwwRegister -----------------------------
(***************************************************************************)
(* What a memory region of the clipboard promises: a register in which the *)
(* copy with the highest time stamp wins (the later one of a tie), read    *)
(* and written in one piece.  A payload is known by its size in bytes.     *)
(***************************************************************************)
EXTENDS Naturals

CONSTANTS Clients,    \* threads that copy and paste
          Sizes,      \* payloads
          Caps,       \* room the readers have
          Stamps      \* time stamps

VARIABLES
  val,      \* the payload, or 0: nothing was copied, or the region was closed
  stamp,    \* time stamp of the last accepted copy
  res       \* res[c]: what the last operation of c brought: payload and bytes

Nothing == <<0, 0>>

AtMost(cap, v) == IF cap > v THEN v ELSE cap

Init ==
  /\ val = 0
  /\ stamp = 0
  /\ res = [c \in Clients |-> Nothing]

\* A copy older than what the region holds brings 0 bytes.
Put(c, v, t) ==
  \/ /\ val = 0 \/ stamp <= t
     /\ val' = v
     /\ stamp' = t
     /\ res' = [res EXCEPT ![c] = <<v, v>>]
  \/ /\ val # 0 /\ stamp > t
     /\ res' = [res EXCEPT ![c] = Nothing]
     /\ UNCHANGED <<val, stamp>>

\* A paste with no room brings nothing.
Get(c, cap) ==
  /\ res' = [res EXCEPT ![c] = IF AtMost(cap, val) = 0 THEN Nothing ELSE <<val, AtMost(cap, val)>>]
  /\ UNCHANGED <<val, stamp>>

Clear ==
  /\ val' = 0
  /\ UNCHANGED <<stamp, res>>

Next ==
  \/ \E c \in Clients, v \in Sizes, t \in Stamps : Put(c, v, t)
  \/ \E c \in Clients, cap \in Caps : Get(c, cap)
  \/ Clear

Spec == Init /\ [][Next]_<<val, stamp, res>>
=============================================================================
