---------------------------- MODULE ClipIfProofs ----------------------------
(***************************************************************************)
(* For every number of slots and of connections: the slots of clipif.c are *)
(* accounted for, the broadcaster sends to whom it saw, there is one clock *)
(* for each root, and everyone connected at the end was sent the goodbye.  *)
(***************************************************************************)
EXTENDS ClipIf, FiniteSetTheorems, TLAPS

\* clipif->lock: a slave has it from CloseLock to CloseCount, or for good when it was
\* cancelled in close; the listener has it while it looks for a slot, or for good.
ClipHolds == {"c_slot", "c_close", "c_count", "killed"}
OwnerInv ==
  /\ \A c \in Conns : pc[c] \in ClipHolds <=> lock = c
  /\ apc \in {"a_body", "a_try", "a_start"} => lock = "listener"
  /\ mpc \in {"f_clock", "f_count"} <=> lock = "main"

\* The locks of the slots: of the broadcaster while it sends, of the listener while
\* it fills the slot; a slave takes one and gives it back in one step.
SlotLockInv ==
  \A i \in Slots :
    /\ slotLock[i] = "broadcaster" <=> bpc = "b_send" /\ bslot = i
    /\ slotLock[i] = "listener" <=> apc = "a_start" /\ aslot = i

\* What the listener and the main thread found stays as it was until they use it.
PlaceInv ==
  /\ newConn # None => pc[newConn] = "none"
  /\ apc \in {"a_try", "a_start"} => newConn # None /\ nConnections < MaxClips
  /\ apc = "a_start" => aslot \in Slots /\ sock[aslot] = None
  /\ mpc = "f_cancel" => scan \in Slots /\ thread[scan] # None
  /\ \A i \in Slots : sock[i] # None => thread[i] = sock[i]
  /\ \A c \in Conns : InSlot(c) => index[c] \in Slots

ClipIInv == ClipTypeOK /\ OwnerInv /\ SlotLockInv /\ SlotAccounting /\ PlaceInv

SlavePlaces == {"none", "refused", "recv", "serve", "c_lock", "c_slot", "c_close",
                "c_count", "c_signal", "end", "killed"}

\* Slots in use and leaving slaves can be counted.
LEMMA Countable ==
  /\ IsFiniteSet(Used) /\ IsFiniteSet(Leaving)
  /\ Cardinality(Used) \in Nat /\ Cardinality(Leaving) \in Nat
<1>1. IsFiniteSet(Slots)
  BY ClipAssumption, FS_Interval DEF Slots
<1>2. IsFiniteSet(Used) /\ IsFiniteSet(Leaving)
  BY <1>1, ClipAssumption, FS_Subset DEF Used, Leaving
<1> QED
  BY <1>2, FS_CardinalityType

\* The state of clipif_init, with or without a parent.
LEMMA ClipInitInv == ClipInit => ClipIInv
<1> SUFFICES ASSUME ClipInit PROVE ClipIInv
  OBVIOUS
<1> USE ClipAssumption
<1>1. PICK p \in Conns \cup {None} :
        /\ nConnections = (IF p = None THEN 0 ELSE 1)
        /\ sock = [i \in Slots |-> IF i = 1 THEN p ELSE None]
        /\ thread = sock
        /\ parent = p
        /\ pc = [c \in Conns |-> IF c = p THEN "recv" ELSE "none"]
        /\ index = [c \in Conns |-> IF c = p THEN 1 ELSE 0]
        /\ clock = (IF p = None THEN "sleep" ELSE "none")
  BY DEF ClipInit
<1>2. /\ lock = None /\ slotLock = [i \in Slots |-> None]
      /\ canCancel = [c \in Conns |-> TRUE] /\ cancelled = {}
      /\ queue = <<>> /\ terminated = FALSE /\ leaked = FALSE /\ pushes = 0
      /\ bpc = "pop" /\ bslot = 1 /\ msg = [from |-> None, goodbye |-> FALSE]
      /\ apc = "accept" /\ aslot = 1 /\ newConn = None
      /\ mpc = "run" /\ scan = 1 /\ woken = FALSE /\ bye = {}
  BY DEF ClipInit
<1>3. 1 \in Slots
  BY DEF Slots
<1>4. ClipTypeOK
  <2>1. sock \in [Slots -> Conns \cup {None}] /\ slotLock \in [Slots -> {"broadcaster", "listener", None}]
    BY <1>1, <1>2
  <2>2. pc \in [Conns -> SlavePlaces] /\ index \in [Conns -> Slots \cup {0}] /\ canCancel \in [Conns -> BOOLEAN]
    BY <1>1, <1>2, <1>3 DEF SlavePlaces
  <2>3. queue \in Seq(Broadcasts) /\ msg \in Broadcasts
    BY <1>2 DEF Broadcasts
  <2>4. nConnections \in 0..MaxClips /\ pushes \in 0..MaxPush
    BY <1>1, <1>2
  <2>5. bslot \in Slots /\ aslot \in 1..MaxClips + 1 /\ scan \in 1..MaxClips + 1
    BY <1>2, <1>3
  <2>6. /\ lock \in Conns \cup {"listener", "main", None} /\ thread \in [Slots -> Conns \cup {None}]
        /\ parent \in Conns \cup {None} /\ newConn \in Conns \cup {None}
        /\ clock \in {"none", "sleep", "push", "end"} /\ cancelled \subseteq Conns /\ bye \subseteq Conns
    BY <1>1, <1>2, <2>1
  <2> QED
    BY <1>2, <2>1, <2>2, <2>3, <2>4, <2>5, <2>6 DEF ClipTypeOK, SlavePlaces
<1>5. OwnerInv /\ SlotLockInv /\ PlaceInv
  BY <1>1, <1>2, <1>3 DEF OwnerInv, SlotLockInv, PlaceInv, ClipHolds, InSlot
<1>6. SlotAccounting
  <2>1. Leaving = {}
    BY <1>1 DEF Leaving
  <2>2. Used = IF p = None THEN {} ELSE {1}
    BY <1>1, <1>3 DEF Used
  <2>3. Cardinality(Used) = nConnections /\ Cardinality(Leaving) = 0
    BY <1>1, <2>1, <2>2, FS_EmptySet, FS_Singleton
  <2>4. \A i \in Slots, c \in Conns : sock[i] = c <=> InSlot(c) /\ index[c] = i
    BY <1>1 DEF InSlot
  <2> QED
    BY <1>1, <2>3, <2>4 DEF SlotAccounting
<1> QED
  BY <1>4, <1>5, <1>6 DEF ClipIInv

\* What a step that moves no connection keeps.
LEMMA SameSlots ==
  ASSUME SlotAccounting, UNCHANGED <<nConnections, sock, pc, index>>
  PROVE  SlotAccounting'
<1>1. Used' = Used /\ Leaving' = Leaving
  BY DEF Used, Leaving
<1> QED
  BY <1>1 DEF SlotAccounting, InSlot

\* What a slave keeps that stays on the same side of the accounting.
LEMMA SlaveMoves ==
  ASSUME ClipTypeOK, SlotAccounting, NEW c \in Conns,
         NEW from \in SlavePlaces, NEW to \in SlavePlaces, Goto(c, from, to),
         from \in {"c_close", "c_count", "killed"} <=> to \in {"c_close", "c_count", "killed"},
         from \in {"recv", "serve", "c_lock", "c_slot"} <=> to \in {"recv", "serve", "c_lock", "c_slot"},
         UNCHANGED <<nConnections, sock, index>>
  PROVE  SlotAccounting' /\ \A d \in Conns : InSlot(d)' <=> InSlot(d)
<1>1. Used' = Used
  BY DEF Used
<1>2. Leaving' = Leaving
  BY DEF Leaving, Goto, ClipTypeOK
<1>3. \A d \in Conns : InSlot(d)' <=> InSlot(d)
  BY DEF InSlot, Goto, ClipTypeOK
<1> QED
  BY <1>1, <1>2, <1>3 DEF SlotAccounting

\* The broadcasts, the clock and the broadcaster move no connection.
LEMMA CastInv ==
  ASSUME ClipIInv, AppPush \/ ClockTick \/ ClockPush \/ Broadcaster
  PROVE  ClipIInv'
<1> USE ClipAssumption DEF ClipIInv, OwnerInv, PlaceInv, InSlot, slots, slaves, queued, broadcaster,
                           listener, main
<1>1. UNCHANGED <<nConnections, sock, thread, pc, index, lock, canCancel, cancelled, parent, listener, main>>
  BY DEF AppPush, ClockTick, ClockPush, Broadcaster, BroadcastPop, BroadcastEnd, BroadcastLock, BroadcastSend
<1>2. SlotAccounting'
  BY <1>1, SameSlots
<1>3. OwnerInv' /\ PlaceInv'
  BY <1>1
<1>4. SlotLockInv'
  <2>1. CASE AppPush \/ ClockTick \/ ClockPush \/ BroadcastPop \/ BroadcastEnd
    BY <1>1, <2>1 DEF AppPush, ClockTick, ClockPush, BroadcastPop, BroadcastEnd, SlotLockInv
  <2>2. CASE BroadcastLock
    BY <1>1, <2>2 DEF BroadcastLock, SlotLockInv, ClipTypeOK
  <2>3. CASE BroadcastSend
    <3>1. /\ bpc = "b_send" /\ bpc' # "b_send"
          /\ slotLock' = [slotLock EXCEPT ![bslot] = None]
      BY <2>3 DEF BroadcastSend, NextSlot
    <3> QED
      BY <1>1, <3>1 DEF SlotLockInv, ClipTypeOK
  <2> QED
    BY <2>1, <2>2, <2>3 DEF Broadcaster
<1>5. ClipTypeOK'
  <2>1. CASE AppPush \/ ClockTick \/ ClockPush
    <3>1. queue' \in Seq(Broadcasts) /\ terminated' \in BOOLEAN /\ leaked' \in BOOLEAN /\ pushes' \in 0..MaxPush
      <4>1. CASE PushFrom(None)
        <5>1. pushes' \in 0..MaxPush
          BY <4>1 DEF PushFrom, ClipTypeOK
        <5>2. [from |-> None, goodbye |-> FALSE] \in Broadcasts
          BY DEF Broadcasts
        <5>3. queue' \in Seq(Broadcasts)
          BY <4>1, <5>2 DEF PushFrom, Push, ClipTypeOK
        <5> QED
          BY <4>1, <5>1, <5>3 DEF PushFrom, Push, ClipTypeOK
      <4>2. CASE UNCHANGED queued
        BY <4>2 DEF ClipTypeOK
      <4> QED
        BY <2>1, <4>1, <4>2 DEF AppPush, ClockTick, ClockPush
    <3>2. clock' \in {"none", "sleep", "push", "end"} /\ UNCHANGED <<slotLock, broadcaster, bye>>
      BY <2>1 DEF AppPush, ClockTick, ClockPush, ClipTypeOK
    <3> QED
      BY <1>1, <3>1, <3>2 DEF ClipTypeOK
  <2>2. CASE BroadcastPop
    <3>1. queue' \in Seq(Broadcasts) /\ msg' \in Broadcasts
      BY <2>2 DEF BroadcastPop, ClipTypeOK
    <3>2. bslot' \in Slots /\ bpc' = "b_lock" /\ UNCHANGED <<slotLock, clock, terminated, leaked, pushes, bye>>
      BY <2>2 DEF BroadcastPop, Slots
    <3> QED
      BY <1>1, <3>1, <3>2 DEF ClipTypeOK
  <2>3. CASE BroadcastEnd
    BY <1>1, <2>3 DEF BroadcastEnd, ClipTypeOK
  <2>4. CASE BroadcastLock
    BY <1>1, <2>4 DEF BroadcastLock, ClipTypeOK
  <2>5. CASE BroadcastSend
    <3>1. bslot' \in Slots /\ bpc' \in {"pop", "b_lock"}
      BY <2>5 DEF BroadcastSend, NextSlot, ClipTypeOK, Slots
    <3>2. bye' \subseteq Conns
      BY <2>5 DEF BroadcastSend, Target, ClipTypeOK
    <3>3. slotLock' \in [Slots -> {"broadcaster", "listener", None}]
      BY <2>5 DEF BroadcastSend, ClipTypeOK
    <3>4. UNCHANGED <<clock, queue, terminated, leaked, pushes, msg>>
      BY <2>5 DEF BroadcastSend
    <3> QED
      BY <1>1, <3>1, <3>2, <3>3, <3>4 DEF ClipTypeOK
  <2> QED
    BY <2>1, <2>2, <2>3, <2>4, <2>5 DEF Broadcaster
<1> QED
  BY <1>2, <1>3, <1>4, <1>5

\* The listener keeps the invariant, also when it gives up with the lock.
LEMMA ListenInv ==
  ASSUME ClipIInv, (\E c \in Conns \cup {None} : Accept(c)) \/ Listen
  PROVE  ClipIInv'
<1> USE ClipAssumption DEF ClipIInv, ClipTypeOK, OwnerInv, SlotLockInv, PlaceInv, ClipHolds, InSlot,
                           slots, slaves, queued, broadcaster, main
<1>1. ASSUME NEW c \in Conns \cup {None}, Accept(c) PROVE ClipIInv'
  <2>1. SlotAccounting'
    BY <1>1, SameSlots DEF Accept
  <2> QED
    BY <1>1, <2>1 DEF Accept
<1>2. CASE ListenLock
  <2>1. SlotAccounting'
    BY <1>2, SameSlots DEF ListenLock
  <2> QED
    BY <1>2, <2>1 DEF ListenLock
<1>3. CASE ListenRefuse
  <2>1. Used' = Used /\ Leaving' = Leaving
    BY <1>3 DEF ListenRefuse, Used, Leaving
  <2>2. SlotAccounting'
    BY <1>3, <2>1 DEF ListenRefuse, SlotAccounting
  <2> QED
    BY <1>3, <2>2 DEF ListenRefuse
<1>4. CASE ListenHello
  <2>1. SlotAccounting'
    BY <1>4, SameSlots DEF ListenHello
  <2>2. nConnections < MaxClips
    BY <1>4 DEF ListenHello, Full
  <2> QED
    BY <1>4, <2>1, <2>2 DEF ListenHello
<1>5. CASE ListenTry
  <2>1. CASE aslot > MaxClips
    <3>1. Used' = Used /\ Leaving' = Leaving
      BY <1>5, <2>1 DEF ListenTry, Used, Leaving
    <3>2. SlotAccounting'
      BY <1>5, <2>1, <3>1 DEF ListenTry, SlotAccounting
    <3> QED
      BY <1>5, <2>1, <3>2 DEF ListenTry
  <2>2. CASE aslot <= MaxClips /\ FreeSlot(aslot)
    <3>1. SlotAccounting'
      BY <1>5, <2>2, SameSlots DEF ListenTry
    <3>2. aslot \in Slots /\ sock[aslot] = None /\ slotLock[aslot] = None
      BY <2>2 DEF Slots, FreeSlot
    <3> QED
      BY <1>5, <2>2, <3>1, <3>2 DEF ListenTry
  <2>3. CASE aslot <= MaxClips /\ ~FreeSlot(aslot)
    <3>1. SlotAccounting'
      BY <1>5, <2>3, SameSlots DEF ListenTry
    <3>2. aslot' \in 1..MaxClips + 1
      BY <1>5, <2>3 DEF ListenTry
    <3> QED
      BY <1>5, <2>3, <3>1, <3>2 DEF ListenTry
  <2>4. aslot > MaxClips \/ aslot <= MaxClips
    OBVIOUS
  <2> QED
    BY <2>1, <2>2, <2>3, <2>4, Zenon
<1>6. CASE ListenStart
  <2>1. /\ aslot \in Slots /\ sock[aslot] = None /\ newConn \in Conns /\ pc[newConn] = "none"
        /\ nConnections < MaxClips
    BY <1>6 DEF ListenStart
  <2>2. Used' = Used \cup {aslot} /\ aslot \notin Used /\ Leaving' = Leaving
    BY <1>6, <2>1 DEF ListenStart, Used, Leaving
  <2>3. Cardinality(Used') = Cardinality(Used) + 1
    BY <2>2, Countable, FS_AddElement
  <2>4. nConnections' = Cardinality(Used') + Cardinality(Leaving')
    BY <1>6, <2>2, <2>3, Countable DEF SlotAccounting, ListenStart
  <2>5. \A i \in Slots, c \in Conns : sock'[i] = c <=> InSlot(c)' /\ index'[c] = i
    BY <1>6, <2>1 DEF SlotAccounting, ListenStart
  <2>6. SlotAccounting'
    BY <2>4, <2>5 DEF SlotAccounting
  <2> QED
    BY <1>6, <2>1, <2>6 DEF ListenStart
<1> QED
  BY <1>1, <1>2, <1>3, <1>4, <1>5, <1>6 DEF Listen

\* A slave that is served and its clean-up keep the invariant.
LEMMA SlaveInv ==
  ASSUME ClipIInv, NEW c \in Conns, Recv(c) \/ RecvEnd(c) \/ RecvCancelled(c) \/ Serve(c) \/ Close(c)
  PROVE  ClipIInv'
<1> USE ClipAssumption DEF ClipIInv, ClipTypeOK, OwnerInv, SlotLockInv, PlaceInv, ClipHolds, SlavePlaces,
                           slots, slaves, queued, broadcaster, listener, main
<1>1. CASE Recv(c)
  <2>1. SlotAccounting' /\ \A d \in Conns : InSlot(d)' <=> InSlot(d)
    BY <1>1, SlaveMoves DEF Recv
  <2> QED
    BY <1>1, <2>1 DEF Recv, Goto
<1>2. CASE RecvEnd(c)
  <2>1. SlotAccounting' /\ \A d \in Conns : InSlot(d)' <=> InSlot(d)
    BY <1>2, SlaveMoves DEF RecvEnd
  <2> QED
    BY <1>2, <2>1 DEF RecvEnd, Goto
<1>3. CASE RecvCancelled(c)
  <2>1. SlotAccounting' /\ \A d \in Conns : InSlot(d)' <=> InSlot(d)
    BY <1>3, SlaveMoves DEF RecvCancelled
  <2> QED
    BY <1>3, <2>1 DEF RecvCancelled, Goto
<1>4. CASE ServePush(c)
  <2>1. SlotAccounting' /\ \A d \in Conns : InSlot(d)' <=> InSlot(d)
    BY <1>4, SlaveMoves DEF ServePush
  <2>2. pushes' \in 0..MaxPush
    BY <1>4 DEF ServePush, PushFrom
  <2>3. [from |-> c, goodbye |-> FALSE] \in Broadcasts
    BY DEF Broadcasts
  <2>4. queue' \in Seq(Broadcasts) /\ terminated' \in BOOLEAN /\ leaked' \in BOOLEAN
    BY <1>4, <2>3 DEF ServePush, PushFrom, Push
  <2>5. /\ Goto(c, "serve", "recv")
        /\ canCancel' = [canCancel EXCEPT ![c] = TRUE]
        /\ UNCHANGED <<lock, slotLock, slots, parent, index, cancelled, clock, broadcaster, listener, main, bye>>
    BY <1>4 DEF ServePush
  <2> QED
    BY <2>1, <2>2, <2>4, <2>5 DEF Goto
<1>5. CASE ServeDrop(c)
  <2>1. SlotAccounting' /\ \A d \in Conns : InSlot(d)' <=> InSlot(d)
    BY <1>5, SlaveMoves DEF ServeDrop
  <2> QED
    BY <1>5, <2>1 DEF ServeDrop, Goto
<1>6. CASE ServeLast(c)
  <2>1. SlotAccounting' /\ \A d \in Conns : InSlot(d)' <=> InSlot(d)
    BY <1>6, SlaveMoves DEF ServeLast
  <2> QED
    BY <1>6, <2>1 DEF ServeLast, Goto
<1>7. CASE CloseLock(c)
  <2>1. SlotAccounting' /\ \A d \in Conns : InSlot(d)' <=> InSlot(d)
    BY <1>7, SlaveMoves DEF CloseLock
  <2> QED
    BY <1>7, <2>1 DEF CloseLock, Goto
<1>8. CASE CloseSlot(c)
  <2>1. pc[c] = "c_slot" /\ lock = c /\ Leaving = {} /\ InSlot(c)
    BY <1>8 DEF CloseSlot, Goto, Leaving, InSlot
  <2>2. index[c] \in Used /\ sock[index[c]] = c
    BY <2>1 DEF SlotAccounting, Used
  <2>3. Leaving' = {c} /\ Used' = Used \ {index[c]}
    BY <1>8, <2>1, <2>2 DEF CloseSlot, Goto, Leaving, Used
  <2>4. Cardinality(Leaving) = 0 /\ Cardinality(Leaving') = 1
    BY <2>1, <2>3, FS_EmptySet, FS_Singleton
  <2>5. Cardinality(Used') = Cardinality(Used) - 1
    BY <2>2, <2>3, Countable, FS_RemoveElement
  <2>6. \A d \in Conns : InSlot(d)' <=> InSlot(d) /\ d # c
    BY <1>8, <2>1 DEF CloseSlot, Goto, InSlot
  <2>7. \A i \in Slots, d \in Conns : sock'[i] = d <=> InSlot(d)' /\ index'[d] = i
    BY <1>8, <2>1, <2>2, <2>6 DEF CloseSlot, SlotAccounting
  <2>8. SlotAccounting'
    BY <1>8, <2>4, <2>5, <2>7, Countable DEF CloseSlot, SlotAccounting
  <2>9. apc \notin {"a_body", "a_try", "a_start"} /\ mpc \notin {"f_clock", "f_count"}
    BY <2>1
  <2>10. /\ pc' = [pc EXCEPT ![c] = "c_close"]
         /\ sock' = [sock EXCEPT ![index[c]] = None]
         /\ UNCHANGED <<lock, slotLock, nConnections, thread, parent, index, canCancel, cancelled, clock, queued,
                       broadcaster, listener, main, bye>>
    BY <1>8 DEF CloseSlot, Goto
  <2>11. ClipTypeOK'
    <3>1. pc' \in [Conns -> SlavePlaces] /\ sock' \in [Slots -> Conns \cup {None}]
      BY <2>10
    <3> QED
      BY <2>10, <3>1
  <2>12. OwnerInv'
    BY <2>1, <2>10
  <2>13. SlotLockInv'
    BY <2>10
  <2>14. PlaceInv'
    <3>1. \A d \in Conns : InSlot(d)' => index'[d] \in Slots
      BY <2>6, <2>10
    <3>2. newConn # None => pc'[newConn] = "none"
      BY <2>1, <2>10
    <3> QED
      BY <2>9, <2>10, <3>1, <3>2
  <2> QED
    BY <2>8, <2>11, <2>12, <2>13, <2>14
<1>9. CASE CloseSocket(c)
  <2>1. PICK to \in {"killed", "c_count"} : Goto(c, "c_close", to)
    BY <1>9 DEF CloseSocket
  <2>2. UNCHANGED <<lock, slotLock, slots, parent, index, canCancel, cancelled, clock, queued, broadcaster, listener, main, bye>>
    BY <1>9 DEF CloseSocket
  <2>3. SlotAccounting' /\ \A d \in Conns : InSlot(d)' <=> InSlot(d)
    BY <2>1, <2>2, SlaveMoves
  <2>4. pc' \in [Conns -> SlavePlaces] /\ \A d \in Conns : pc'[d] \in ClipHolds <=> pc[d] \in ClipHolds
    BY <2>1 DEF Goto
  <2>5. newConn # None => pc'[newConn] = "none"
    BY <2>1 DEF Goto
  <2> QED
    BY <2>2, <2>3, <2>4, <2>5
<1>10. CASE CloseCount(c)
  <2>1. pc[c] = "c_count" /\ lock = c /\ Leaving = {c}
    BY <1>10 DEF CloseCount, Goto, Leaving
  <2>2. Leaving' = {} /\ Used' = Used
    BY <1>10, <2>1 DEF CloseCount, Goto, Leaving, Used
  <2>3. Cardinality(Leaving) = 1 /\ Cardinality(Leaving') = 0
    BY <2>1, <2>2, FS_EmptySet, FS_Singleton
  <2>4. \A d \in Conns : InSlot(d)' <=> InSlot(d)
    BY <1>10, <2>1 DEF CloseCount, Goto, InSlot
  <2>5. nConnections # 0 /\ nConnections' = nConnections - 1
    BY <1>10, <2>3, Countable DEF SlotAccounting, CloseCount
  <2>6. SlotAccounting'
    BY <1>10, <2>2, <2>3, <2>4, <2>5, Countable DEF CloseCount, SlotAccounting
  <2>7. parent' \in Conns \cup {None} /\ clock' \in {"none", "sleep", "push", "end"}
    BY <1>10 DEF CloseCount, BecomeRoot
  <2>8. apc \notin {"a_body", "a_try", "a_start"} /\ mpc \notin {"f_clock", "f_count"}
    BY <2>1
  <2>9. nConnections' \in 0..MaxClips
    BY <2>5
  <2> QED
    BY <1>10, <2>1, <2>4, <2>6, <2>7, <2>8, <2>9 DEF CloseCount, Goto
<1>11. CASE CloseSignal(c)
  <2>1. SlotAccounting' /\ \A d \in Conns : InSlot(d)' <=> InSlot(d)
    BY <1>11, SlaveMoves DEF CloseSignal
  <2> QED
    BY <1>11, <2>1 DEF CloseSignal, Goto
<1> QED
  BY <1>1, <1>2, <1>3, <1>4, <1>5, <1>6, <1>7, <1>8, <1>9, <1>10, <1>11 DEF Serve, Close

\* The main thread keeps the invariant.
LEMMA MainInv ==
  ASSUME ClipIInv, StopListening \/ Finalize \/ FinalizeWake
  PROVE  ClipIInv'
<1> USE ClipAssumption DEF ClipIInv, ClipTypeOK, OwnerInv, SlotLockInv, PlaceInv, ClipHolds, InSlot,
                           Main, slots, slaves, queued, broadcaster, listener
<1>1. SlotAccounting'
  <2>1. UNCHANGED <<nConnections, sock, pc, index>>
    BY DEF StopListening, Finalize, FinalizeBye, FinalizeLock, FinalizeClock, FinalizeTerminate, FinalizeJoin,
           FinalizeTest, FinalizeCancel, FinalizeLockAgain, FinalizeWait, FinalizeWake, FinalizeFree
  <2> QED
    BY <2>1, SameSlots
<1>2. CASE StopListening
  BY <1>1, <1>2 DEF StopListening
<1>3. CASE FinalizeBye
  <2>1. [from |-> None, goodbye |-> TRUE] \in Broadcasts
    BY DEF Broadcasts
  <2>2. queue' \in Seq(Broadcasts) /\ terminated' \in BOOLEAN /\ leaked' \in BOOLEAN
    BY <1>3, <2>1 DEF FinalizeBye, Push
  <2> QED
    BY <1>1, <1>3, <2>2 DEF FinalizeBye
<1>4. CASE FinalizeLock
  BY <1>1, <1>4 DEF FinalizeLock
<1>5. CASE FinalizeClock
  BY <1>1, <1>5 DEF FinalizeClock
<1>6. CASE FinalizeTerminate
  BY <1>1, <1>6 DEF FinalizeTerminate
<1>7. CASE FinalizeJoin
  BY <1>1, <1>7 DEF FinalizeJoin
<1>8. CASE FinalizeTest
  <2>1. CASE scan > MaxClips
    BY <1>1, <1>8, <2>1 DEF FinalizeTest
  <2>2. CASE scan <= MaxClips /\ sock[scan] # None
    <3>1. scan \in Slots /\ thread[scan] # None
      BY <2>2 DEF Slots
    <3> QED
      BY <1>1, <1>8, <2>2, <3>1 DEF FinalizeTest
  <2>3. CASE scan <= MaxClips /\ sock[scan] = None
    <3>1. scan' \in 1..MaxClips + 1
      BY <1>8, <2>3 DEF FinalizeTest
    <3> QED
      BY <1>1, <1>8, <2>3, <3>1 DEF FinalizeTest
  <2>4. scan > MaxClips \/ scan <= MaxClips
    OBVIOUS
  <2> QED
    BY <2>1, <2>2, <2>3, <2>4, Zenon
<1>9. CASE FinalizeCancel
  <2>1. scan \in Slots /\ thread[scan] \in Conns
    BY <1>9 DEF FinalizeCancel
  <2>2. scan' \in 1..MaxClips + 1
    BY <1>9, <2>1 DEF FinalizeCancel, Slots
  <2>3. cancelled' \subseteq Conns
    BY <1>9, <2>1 DEF FinalizeCancel
  <2> QED
    BY <1>1, <1>9, <2>2, <2>3 DEF FinalizeCancel
<1>10. CASE FinalizeLockAgain
  BY <1>1, <1>10 DEF FinalizeLockAgain
<1>11. CASE FinalizeWait
  <2>1. woken' \in BOOLEAN /\ lock' \in {lock, None}
    BY <1>11 DEF FinalizeWait
  <2>2. ClipTypeOK' /\ SlotLockInv' /\ PlaceInv'
    BY <1>11, <2>1 DEF FinalizeWait
  <2>3. OwnerInv'
    BY <1>11 DEF FinalizeWait
  <2> QED
    BY <1>1, <2>2, <2>3
<1>12. CASE FinalizeWake
  <2>1. woken' \in BOOLEAN /\ lock' \in {lock, None}
    BY <1>12 DEF FinalizeWake
  <2>2. ClipTypeOK' /\ SlotLockInv' /\ PlaceInv'
    BY <1>12, <2>1 DEF FinalizeWake
  <2>3. OwnerInv'
    BY <1>12 DEF FinalizeWake
  <2> QED
    BY <1>1, <2>2, <2>3
<1>13. CASE FinalizeFree
  BY <1>1, <1>13 DEF FinalizeFree
<1> QED
  BY <1>2, <1>3, <1>4, <1>5, <1>6, <1>7, <1>8, <1>9, <1>10, <1>11, <1>12, <1>13 DEF Finalize

\* The accounting of connections and of the locks, with the types, is an invariant of
\* the clipboards interface.
THEOREM ClipInvariant == ClipSpec => [](ClipTypeOK /\ OwnerInv /\ SlotLockInv /\ SlotAccounting /\ PlaceInv)
<1>1. ClipIInv /\ [ClipNext]_clipVars => ClipIInv'
  <2> SUFFICES ASSUME ClipIInv, [ClipNext]_clipVars PROVE ClipIInv'
    OBVIOUS
  <2>1. ASSUME NEW c \in Conns, Recv(c) \/ RecvEnd(c) \/ RecvCancelled(c) \/ Serve(c) \/ Close(c)
        PROVE  ClipIInv'
    BY <2>1, SlaveInv
  <2>2. CASE UNCHANGED clipVars
    <3> USE <2>2 DEF clipVars, slots, slaves, queued, broadcaster, listener, main
    <3>1. SlotAccounting'
      BY SameSlots DEF ClipIInv
    <3> QED
      BY <3>1 DEF ClipIInv, ClipTypeOK, OwnerInv, SlotLockInv, PlaceInv, InSlot
  <2> QED
    BY <2>1, <2>2, CastInv, ListenInv, MainInv DEF ClipNext
<1> QED
  BY ClipInitInv, <1>1, PTL DEF ClipSpec, ClipIInv

\* Every variable keeps its type; in particular n_connections stays in 0..MAX_CLIPBOARDS
\* and no walk through the slots leaves the array.
THEOREM ClipTypes == ClipSpec => []ClipTypeOK
BY ClipInvariant, PTL

\* clipif.c:139 is right for any number of connections: the socket that the
\* broadcaster tested is the one it sends to.
THEOREM ClipSendStable == ClipSpec => SendStable
<1>1. ClipIInv /\ [ClipNext]_clipVars => [bpc = "b_send" => sock'[bslot] = sock[bslot]]_clipVars
  <2> SUFFICES ASSUME ClipIInv, ClipNext, bpc = "b_send" PROVE sock'[bslot] = sock[bslot]
    OBVIOUS
  <2> USE ClipAssumption DEF slots, slaves
  <2>1. bslot \in Slots /\ slotLock[bslot] = "broadcaster"
    BY DEF ClipIInv, ClipTypeOK, SlotLockInv
  <2>2. CASE ListenStart
    <3>1. aslot \in Slots /\ slotLock[aslot] = "listener"
      BY <2>2 DEF ListenStart, ClipIInv, PlaceInv, SlotLockInv
    <3> QED
      BY <2>1, <2>2, <3>1 DEF ListenStart, ClipIInv, ClipTypeOK
  <2>3. ASSUME NEW c \in Conns, CloseSlot(c) PROVE sock'[bslot] = sock[bslot]
    BY <2>1, <2>3 DEF CloseSlot, ClipIInv, ClipTypeOK
  <2>4. CASE ~ListenStart /\ ~(\E c \in Conns : CloseSlot(c))
    BY <2>4 DEF ClipNext, AppPush, ClockTick, ClockPush, Broadcaster, BroadcastPop, BroadcastEnd, BroadcastLock,
       BroadcastSend, Accept, Listen, ListenLock, ListenRefuse, ListenHello, ListenTry, Recv, RecvEnd,
       RecvCancelled, Serve, ServePush, ServeDrop, ServeLast, Close, CloseLock, CloseSocket, CloseCount,
       CloseSignal, StopListening, Finalize, FinalizeBye, FinalizeLock, FinalizeClock, FinalizeTerminate,
       FinalizeJoin, FinalizeTest, FinalizeCancel, FinalizeLockAgain, FinalizeWait, FinalizeWake, FinalizeFree
  <2> QED
    BY <2>2, <2>3, <2>4
<1>2. ClipSpec => []ClipIInv
  BY ClipInvariant, PTL DEF ClipIInv
<1> QED
  BY <1>1, <1>2, PTL DEF ClipSpec, SendStable
-----------------------------------------------------------------------------
(* The clock.                                                              *)

ClockInv == OneClock /\ (Finalizing => parent = None)

\* Every step keeps the number of clocks right.
LEMMA ClockStep ==
  ASSUME ClipIInv, ClockInv, [ClipNext]_clipVars
  PROVE  ClockInv'
<1> USE ClipAssumption DEF ClockInv, OneClock, Finalizing, Main, main
<1>1. CASE ClockTick
  BY <1>1 DEF ClockTick
<1>2. CASE ClockPush
  BY <1>2 DEF ClockPush
<1>3. ASSUME NEW c \in Conns, CloseCount(c) PROVE ClockInv'
  BY <1>3 DEF CloseCount, BecomeRoot
<1>4. CASE StopListening
  BY <1>4 DEF StopListening
<1>5. CASE FinalizeClock
  BY <1>5 DEF FinalizeClock, ClipIInv, ClipTypeOK
<1>6. CASE (Finalize \/ FinalizeWake) /\ ~FinalizeClock
  BY <1>6 DEF Finalize, FinalizeBye, FinalizeLock, FinalizeTerminate, FinalizeJoin, FinalizeTest, FinalizeCancel,
              FinalizeLockAgain, FinalizeWait, FinalizeWake, FinalizeFree
<1>7. CASE UNCHANGED <<parent, clock, mpc>>
  BY <1>7
<1>8. CASE AppPush \/ Broadcaster \/ Listen \/ \E c \in Conns \cup {None} : Accept(c)
  BY <1>7, <1>8 DEF AppPush, Broadcaster, BroadcastPop, BroadcastEnd, BroadcastLock, BroadcastSend, Listen,
     ListenLock, ListenRefuse, ListenHello, ListenTry, ListenStart, Accept
<1>9. ASSUME NEW c \in Conns, Recv(c) \/ RecvEnd(c) \/ RecvCancelled(c) \/ Serve(c) \/ Close(c) PROVE ClockInv'
  BY <1>3, <1>7, <1>9 DEF Recv, RecvEnd, RecvCancelled, Serve, ServePush, ServeDrop, ServeLast, Close,
     CloseLock, CloseSlot, CloseSocket, CloseSignal
<1>10. CASE UNCHANGED clipVars
  BY <1>7, <1>10 DEF clipVars
<1> QED
  BY <1>1, <1>2, <1>4, <1>5, <1>6, <1>8, <1>9, <1>10 DEF ClipNext

\* A clipboard without a parent runs one clock thread and one with a parent none,
\* whether the parent hangs up before, while or after clipif_finalize deals with the
\* clock, and none is left behind (clipif.c:95-101, 519-532).
THEOREM ClipOneClock == ClipSpec => []OneClock
<1>1. ClipInit => ClockInv
  BY ClipAssumption DEF ClipInit, ClockInv, OneClock, Finalizing
<1>2. ClipIInv /\ ClockInv /\ [ClipNext]_clipVars => ClockInv'
  BY ClockStep
<1>3. ClockInv => OneClock
  BY DEF ClockInv
<1>4. ClipSpec => []ClipIInv
  BY ClipInvariant, PTL DEF ClipIInv
<1> QED
  BY <1>1, <1>2, <1>3, <1>4, PTL DEF ClipSpec
-----------------------------------------------------------------------------
(* The end of the interface.                                               *)

\* No connection is made after the 'q'; the broadcaster has ended when the slaves are
\* cancelled; who is left when clipif is freed has counted itself out.
Over(c) == pc[c] \in {"none", "refused", "c_signal", "end"}
EndInv ==
  /\ mpc # "run" => apc = "stopped"
  /\ mpc \in {"f_test", "f_cancel", "f_lock2", "f_count", "f_wait", "freed"} => bpc = "end"
  /\ mpc = "freed" => \A c \in Conns : Over(c)

\* The moment when clipif_finalize stops waiting, with the lock.
LEMMA NobodyLeft ==
  ASSUME ClipIInv, FinalizeFree
  PROVE  \A c \in Conns : Over(c)
<1> SUFFICES ASSUME NEW c \in Conns PROVE Over(c)
  OBVIOUS
<1>1. nConnections = 0 /\ lock = "main"
  BY DEF FinalizeFree, Main, ClipIInv, OwnerInv
<1>2. \A d \in Conns : pc[d] \notin ClipHolds
  BY <1>1, ClipAssumption DEF ClipIInv, OwnerInv
<1>3. Cardinality(Used) = 0
  BY <1>1, Countable DEF ClipIInv, SlotAccounting
<1>4. Used = {}
  BY <1>3, Countable, FS_EmptySet
<1>5. ~InSlot(c)
  BY <1>4, ClipAssumption DEF ClipIInv, PlaceInv, SlotAccounting, Used
<1> QED
  BY <1>2, <1>5 DEF Over, InSlot, ClipHolds, ClipIInv, ClipTypeOK

\* Every step keeps EndInv.
LEMMA EndStep ==
  ASSUME ClipIInv, EndInv, [ClipNext]_clipVars
  PROVE  EndInv'
<1> USE ClipAssumption DEF EndInv, Over, Main, slaves, listener, main, broadcaster
<1>1. CASE Broadcaster
  BY <1>1 DEF Broadcaster, BroadcastPop, BroadcastEnd, BroadcastLock, BroadcastSend
<1>2. CASE Listen \/ \E c \in Conns \cup {None} : Accept(c)
  <2>1. mpc = "run" /\ mpc' = "run"
    BY <1>2 DEF Listen, ListenLock, ListenRefuse, ListenHello, ListenTry, ListenStart, Accept
  <2> QED
    BY <2>1
<1>3. ASSUME NEW c \in Conns, Recv(c) \/ RecvEnd(c) \/ RecvCancelled(c) \/ Serve(c) \/ Close(c) PROVE EndInv'
  <2>1. UNCHANGED <<mpc, apc, bpc>>
    BY <1>3 DEF Recv, RecvEnd, RecvCancelled, Serve, ServePush, ServeDrop, ServeLast, Close, CloseLock,
       CloseSlot, CloseSocket, CloseCount, CloseSignal
  <2>2. ASSUME mpc = "freed", NEW d \in Conns PROVE Over(d)'
    <3>1. CloseSignal(c)
      BY <1>3, <2>2 DEF Recv, RecvEnd, RecvCancelled, Serve, ServePush, ServeDrop, ServeLast, Close,
         CloseLock, CloseSlot, CloseSocket, CloseCount, Goto
    <3> QED
      BY <2>2, <3>1 DEF CloseSignal, Goto, ClipIInv, ClipTypeOK
  <2> QED
    BY <2>1, <2>2
<1>4. CASE StopListening
  BY <1>4 DEF StopListening
<1>5. CASE FinalizeFree
  BY <1>5, NobodyLeft DEF FinalizeFree
<1>6. CASE (Finalize \/ FinalizeWake) /\ ~FinalizeFree
  BY <1>6 DEF Finalize, FinalizeBye, FinalizeLock, FinalizeClock, FinalizeTerminate, FinalizeJoin, FinalizeTest,
              FinalizeCancel, FinalizeLockAgain, FinalizeWait, FinalizeWake
<1>7. CASE AppPush \/ ClockTick \/ ClockPush
  BY <1>7 DEF AppPush, ClockTick, ClockPush
<1>8. CASE UNCHANGED clipVars
  BY <1>8 DEF clipVars
<1> QED
  BY <1>1, <1>2, <1>3, <1>4, <1>5, <1>6, <1>7, <1>8 DEF ClipNext

\* When clipif is freed everybody has ended or counted himself out.
LEMMA EndInvariant == ClipSpec => []EndInv
<1>1. ClipInit => EndInv
  BY DEF ClipInit, EndInv
<1>2. ClipIInv /\ EndInv /\ [ClipNext]_clipVars => EndInv'
  BY EndStep
<1>3. ClipSpec => []ClipIInv
  BY ClipInvariant, PTL DEF ClipIInv
<1> QED
  BY <1>1, <1>2, <1>3, PTL DEF ClipSpec

\* clipif is freed when neither the broadcaster nor a slave will lock it or change it
\* any more (clipif.c:536-583), for any number of slots and of connections.
THEOREM ClipFreedUnused == ClipSpec => []FreedUnused
<1>1. EndInv => FreedUnused
  BY DEF EndInv, Over, FreedUnused
<1> QED
  BY EndInvariant, <1>1, PTL
-----------------------------------------------------------------------------
(* The goodbye.                                                            *)

\* The goodbye is queued, or the broadcaster has not passed the slot i with it.
Pending(i) ==
  \/ \E j \in DOMAIN queue : queue[j].goodbye
  \/ msg.goodbye /\ bpc \in {"b_lock", "b_send"} /\ bslot <= i

\* It is of nobody, so it is for everybody; it is queued before the queue is
\* terminated; and from then on each connection has it or will get it.
GoodbyeInv ==
  /\ \A j \in DOMAIN queue : queue[j].goodbye => queue[j].from = None
  /\ msg.goodbye => msg.from = None
  /\ terminated => mpc \notin {"run", "f_bye", "f_lock", "f_clock", "f_term"}
  /\ bpc = "end" => terminated /\ queue = <<>>
  /\ mpc \notin {"run", "f_bye"} => \A i \in Slots : sock[i] # None => sock[i] \in bye \/ Pending(i)

\* Steps that change neither broadcasts nor connections, except to close one.
LEMMA GoodbyeSame ==
  ASSUME ClipIInv, GoodbyeInv,
         UNCHANGED <<queue, msg, terminated, bpc, bslot, bye>>,
         \A i \in Slots : sock'[i] \in {sock[i], None},
         mpc' = mpc
  PROVE  GoodbyeInv'
BY DEF GoodbyeInv, Pending

\* A broadcast is queued: what was pending still is.
LEMMA GoodbyePush ==
  ASSUME ClipIInv, GoodbyeInv, NEW m \in Broadcasts, Push(m), m.goodbye => m.from = None,
         UNCHANGED <<msg, bpc, bslot, bye, sock>>,
         mpc' = mpc \/ (mpc' = "f_lock" /\ mpc = "f_bye" /\ m.goodbye)
  PROVE  GoodbyeInv'
<1>1. queue \in Seq(Broadcasts) /\ terminated' = terminated
  BY DEF ClipIInv, ClipTypeOK, Push
<1>2. CASE terminated
  BY <1>1, <1>2 DEF Push, GoodbyeInv, Pending
<1>3. CASE ~terminated
  <2>1. queue' = Append(queue, m)
    BY <1>3 DEF Push
  <2>2. /\ DOMAIN queue' = 1..Len(queue) + 1 /\ DOMAIN queue = 1..Len(queue) /\ Len(queue) \in Nat
        /\ queue'[Len(queue) + 1] = m
        /\ \A j \in 1..Len(queue) : queue'[j] = queue[j]
    BY <1>1, <2>1
  <2>3. \A j \in DOMAIN queue' : queue'[j].goodbye => queue'[j].from = None
    BY <2>2 DEF GoodbyeInv
  <2>4. (\E j \in DOMAIN queue : queue[j].goodbye) => \E j \in DOMAIN queue' : queue'[j].goodbye
    BY <2>2
  <2>5. m.goodbye => \E j \in DOMAIN queue' : queue'[j].goodbye
    BY <2>2
  <2>6. mpc' \notin {"run", "f_bye"} =>
          \A i \in Slots : sock'[i] # None => sock'[i] \in bye' \/ Pending(i)'
    BY <2>4, <2>5 DEF GoodbyeInv, Pending
  <2> QED
    BY <1>1, <1>3, <2>3, <2>6 DEF GoodbyeInv
<1> QED
  BY <1>2, <1>3

\* The broadcaster takes it from the queue and walks through the slots with it.
LEMMA GoodbyeCast ==
  ASSUME ClipIInv, GoodbyeInv, Broadcaster
  PROVE  GoodbyeInv'
<1> USE ClipAssumption DEF slots, main, broadcaster
<1>1. CASE BroadcastPop
  <2>1. /\ queue \in Seq(Broadcasts) /\ queue # <<>> /\ queue' = Tail(queue) /\ msg' = Head(queue)
        /\ bslot' = 1 /\ bpc' = "b_lock" /\ UNCHANGED <<terminated, bye, sock, mpc>>
    BY <1>1 DEF BroadcastPop, ClipIInv, ClipTypeOK
  <2>2. /\ Len(queue) \in Nat \ {0} /\ DOMAIN queue = 1..Len(queue) /\ DOMAIN queue' = 1..Len(queue) - 1
        /\ msg' = queue[1] /\ \A j \in DOMAIN queue' : queue'[j] = queue[j + 1]
    BY <2>1
  <2>3. \A j \in DOMAIN queue' : queue'[j].goodbye => queue'[j].from = None
    BY <2>2 DEF GoodbyeInv
  <2>4. msg'.goodbye => msg'.from = None
    BY <2>2 DEF GoodbyeInv
  <2>5. ASSUME NEW i \in Slots, \E j \in DOMAIN queue : queue[j].goodbye PROVE Pending(i)'
    <3>1. PICK j \in DOMAIN queue : queue[j].goodbye
      BY <2>5
    <3>2. CASE j = 1
      BY <2>1, <2>2, <3>1, <3>2 DEF Pending, Slots
    <3>3. CASE j # 1
      <4>1. j - 1 \in DOMAIN queue' /\ queue'[j - 1].goodbye
        BY <2>2, <3>1, <3>3
      <4> QED
        BY <4>1 DEF Pending
    <3> QED
      BY <3>2, <3>3
  <2>6. bpc = "pop"
    BY <1>1 DEF BroadcastPop
  <2> QED
    BY <2>1, <2>3, <2>4, <2>5, <2>6 DEF GoodbyeInv, Pending
<1>2. CASE BroadcastEnd
  BY <1>2 DEF BroadcastEnd, GoodbyeInv, Pending, queued
<1>3. CASE BroadcastLock
  BY <1>3 DEF BroadcastLock, GoodbyeInv, Pending, queued
<1>4. CASE BroadcastSend
  <2>1. /\ bpc = "b_send" /\ bslot \in Slots /\ UNCHANGED <<queue, terminated, msg, sock, mpc>>
        /\ bye \subseteq bye'
    BY <1>4 DEF BroadcastSend, queued, ClipIInv, ClipTypeOK
  <2>2. bpc' \in {"pop", "b_lock"} /\ (bslot < MaxClips => bpc' = "b_lock" /\ bslot' = bslot + 1)
    BY <1>4, <2>1 DEF BroadcastSend, NextSlot
  <2>3. ASSUME NEW i \in Slots, sock[i] # None, Pending(i) PROVE sock'[i] \in bye' \/ Pending(i)'
    <3>1. CASE \E j \in DOMAIN queue : queue[j].goodbye
      BY <2>1, <3>1 DEF Pending
    <3>2. CASE msg.goodbye /\ bslot = i
      BY <1>4, <2>1, <2>3, <3>2 DEF BroadcastSend, Target, GoodbyeInv
    <3>3. CASE msg.goodbye /\ bslot < i
      <4>1. bslot < MaxClips /\ bslot + 1 <= i
        BY <2>1, <3>3 DEF Slots
      <4> QED
        BY <2>1, <2>2, <3>3, <4>1 DEF Pending
    <3>4. bslot <= i => bslot = i \/ bslot < i
      BY <2>1 DEF Slots
    <3> QED
      BY <2>3, <3>1, <3>2, <3>3, <3>4 DEF Pending
  <2> QED
    BY <2>1, <2>2, <2>3 DEF GoodbyeInv
<1> QED
  BY <1>1, <1>2, <1>3, <1>4 DEF Broadcaster

\* Every step keeps GoodbyeInv.
LEMMA GoodbyeStep ==
  ASSUME ClipIInv, EndInv, GoodbyeInv, [ClipNext]_clipVars
  PROVE  GoodbyeInv'
<1> USE ClipAssumption DEF slots, slaves, listener, main, broadcaster, Main
<1>1. ASSUME NEW c \in Conns \cup {None}, PushFrom(c), UNCHANGED <<msg, bpc, bslot, bye, sock, mpc>>
      PROVE  GoodbyeInv'
  <2>1. [from |-> c, goodbye |-> FALSE] \in Broadcasts
    BY DEF Broadcasts
  <2> QED
    BY <1>1, <2>1, GoodbyePush DEF PushFrom
<1>2. CASE AppPush
  BY <1>1, <1>2 DEF AppPush
<1>3. CASE ClockTick
  BY <1>3, GoodbyeSame DEF ClockTick, queued
<1>4. CASE ClockPush
  <2>1. CASE PushFrom(None)
    BY <1>1, <1>4, <2>1 DEF ClockPush
  <2>2. CASE UNCHANGED queued
    BY <1>4, <2>2, GoodbyeSame DEF ClockPush, queued
  <2> QED
    BY <1>4, <2>1, <2>2 DEF ClockPush
<1>5. CASE Broadcaster
  BY <1>5, GoodbyeCast
<1>6. CASE (Listen /\ ~ListenStart) \/ \E c \in Conns \cup {None} : Accept(c)
  <2>1. UNCHANGED <<queue, msg, terminated, bpc, bslot, bye, sock, mpc>>
    BY <1>6 DEF Listen, ListenLock, ListenRefuse, ListenHello, ListenTry, Accept, queued
  <2> QED
    BY <2>1, GoodbyeSame
\* Somebody new is in a slot: not after the 'q'.
<1>7. CASE ListenStart
  <2>1. mpc = "run"
    BY <1>7 DEF ListenStart, EndInv
  <2>2. UNCHANGED <<queue, msg, terminated, bpc, bslot, bye, mpc>>
    BY <1>7 DEF ListenStart, queued
  <2> QED
    BY <2>1, <2>2 DEF GoodbyeInv
<1>8. ASSUME NEW c \in Conns, Recv(c) \/ RecvEnd(c) \/ RecvCancelled(c) \/ Serve(c) \/ Close(c) PROVE GoodbyeInv'
  <2>1. CASE ServePush(c)
    BY <1>1, <2>1 DEF ServePush
  <2>2. CASE ~ServePush(c)
    <3>1. UNCHANGED <<queue, msg, terminated, bpc, bslot, bye, mpc>>
      BY <1>8, <2>2 DEF Recv, RecvEnd, RecvCancelled, Serve, ServeDrop, ServeLast, Close, CloseLock,
         CloseSlot, CloseSocket, CloseCount, CloseSignal, queued
    <3>2. \A i \in Slots : sock'[i] \in {sock[i], None}
      <4>1. CASE CloseSlot(c)
        BY <4>1 DEF CloseSlot, ClipIInv, ClipTypeOK
      <4>2. CASE ~CloseSlot(c)
        BY <1>8, <2>2, <4>2 DEF Recv, RecvEnd, RecvCancelled, Serve, ServeDrop, ServeLast, Close, CloseLock,
           CloseSocket, CloseCount, CloseSignal
      <4> QED
        BY <4>1, <4>2
    <3> QED
      BY <3>1, <3>2, GoodbyeSame
  <2> QED
    BY <2>1, <2>2
<1>9. CASE FinalizeBye
  <2>1. [from |-> None, goodbye |-> TRUE] \in Broadcasts
    BY DEF Broadcasts
  <2>2. UNCHANGED <<msg, bpc, bslot, bye, sock>> /\ mpc = "f_bye" /\ mpc' = "f_lock"
    BY <1>9 DEF FinalizeBye
  <2>3. Push([from |-> None, goodbye |-> TRUE])
    BY <1>9 DEF FinalizeBye
  <2> QED
    BY <2>1, <2>2, <2>3, GoodbyePush
<1>10. CASE StopListening
  BY <1>10 DEF StopListening, GoodbyeInv, Pending, queued
<1>11. CASE FinalizeTerminate
  <2>1. mpc = "f_term" /\ mpc' = "f_join" /\ UNCHANGED <<queue, msg, bpc, bslot, bye, sock>>
    BY <1>11 DEF FinalizeTerminate
  <2> QED
    BY <1>11, <2>1 DEF FinalizeTerminate, GoodbyeInv, Pending
<1>12. CASE (Finalize \/ FinalizeWake) /\ ~FinalizeBye /\ ~FinalizeTerminate
  <2>1. UNCHANGED <<queue, msg, terminated, bpc, bslot, bye, sock>>
    BY <1>12 DEF Finalize, FinalizeLock, FinalizeClock, FinalizeJoin, FinalizeTest, FinalizeCancel,
       FinalizeLockAgain, FinalizeWait, FinalizeWake, FinalizeFree, queued
  <2>2. /\ mpc \notin {"run", "f_bye"} /\ mpc' \notin {"run", "f_bye"}
        /\ mpc' \in {"f_clock", "f_term"} => mpc \in {"f_lock", "f_clock"}
        /\ mpc' \notin {"f_lock"}
    BY <1>12 DEF Finalize, FinalizeLock, FinalizeClock, FinalizeJoin, FinalizeTest, FinalizeCancel,
       FinalizeLockAgain, FinalizeWait, FinalizeWake, FinalizeFree
  <2> QED
    BY <2>1, <2>2 DEF GoodbyeInv, Pending
<1>13. CASE UNCHANGED clipVars
  BY <1>13, GoodbyeSame DEF clipVars, queued
<1> QED
  BY <1>2, <1>3, <1>4, <1>5, <1>6, <1>7, <1>8, <1>9, <1>10, <1>11, <1>12, <1>13 DEF ClipNext

\* Whoever is connected when the broadcaster has ended was sent PACKET_GOODBYE, for any
\* number of connections and whatever else was queued (clipif.c:509-540).
THEOREM ClipGoodbyeSent == ClipSpec => []GoodbyeSent
<1>1. ClipInit => GoodbyeInv
  BY DEF ClipInit, GoodbyeInv
<1>2. ClipIInv /\ EndInv /\ GoodbyeInv /\ [ClipNext]_clipVars => GoodbyeInv'
  BY GoodbyeStep
<1>3. ClipIInv /\ GoodbyeInv => GoodbyeSent
  BY DEF GoodbyeInv, GoodbyeSent, Pending
<1>4. ClipSpec => []ClipIInv
  BY ClipInvariant, PTL DEF ClipIInv
<1> QED
  BY <1>1, <1>2, <1>3, <1>4, EndInvariant, PTL DEF ClipSpec
=============================================================================
