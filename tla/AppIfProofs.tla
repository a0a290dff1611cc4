----------------------------- MODULE AppIfProofs -----------------------------
(***************************************************************************)
(* The slots of appif.c are accounted for, for every number of slots and   *)
(* of applications: the listener never meets the "zombie" of line 309.     *)
(***************************************************************************)
EXTENDS AppIf, FiniteSetTheorems, TLAPS

\* What else the induction needs: the listener is never dead, the connection it
\* holds has no slave yet, and indexes are slots.
PlaceInv ==
  /\ apc # "dead"
  /\ newConn # None => pc[newConn] = "none"
  /\ mpc = "f_cancel" => scan \in Slots /\ thread[scan] # None
  /\ \A c \in Conns : Alive(c) => index[c] \in Slots

AppIInv == AppTypeOK /\ LockOwner /\ SlotAccounting /\ PlaceInv

\* Slots in use and leaving slaves can be counted.
LEMMA Countable ==
  /\ IsFiniteSet(Used) /\ IsFiniteSet(Leaving)
  /\ Cardinality(Used) \in Nat /\ Cardinality(Leaving) \in Nat
  /\ IsFiniteSet(Slots) /\ Cardinality(Slots) = MaxApps
<1>1. IsFiniteSet(Slots) /\ Cardinality(Slots) = MaxApps
  BY AppAssumption, FS_Interval DEF Slots
<1>2. IsFiniteSet(Used) /\ IsFiniteSet(Leaving)
  BY <1>1, AppAssumption, FS_Subset DEF Used, Leaving
<1> QED
  BY <1>1, <1>2, FS_CardinalityType

\* The state of appif_init.
LEMMA AppInitInv == AppInit => AppIInv
<1> SUFFICES ASSUME AppInit PROVE AppIInv
  OBVIOUS
<1> USE AppAssumption DEF AppInit
<1>1. AppTypeOK
  <2>1. nConnections \in 0..MaxApps /\ scan \in 1..MaxApps + 1
    OBVIOUS
  <2>2. /\ sock \in [Slots -> Conns \cup {None}] /\ thread \in [Slots -> Conns \cup {None}]
        /\ index \in [Conns -> Slots \cup {0}] /\ canCancel \in [Conns -> BOOLEAN]
    OBVIOUS
  <2>3. pc \in [Conns -> SlavePlaces]
    BY DEF SlavePlaces
  <2> QED
    BY <2>1, <2>2, <2>3 DEF AppTypeOK
<1>2. LockOwner
  BY DEF LockOwner, HoldsLock
<1>3. Used = {} /\ Leaving = {}
  BY DEF Used, Leaving
<1>4. SlotAccounting
  BY <1>3, FS_EmptySet DEF SlotAccounting, Alive
<1>5. PlaceInv
  BY DEF PlaceInv, Alive
<1> QED
  BY <1>1, <1>2, <1>4, <1>5 DEF AppIInv

\* NoZombie follows from the accounting: nobody else leaves while the listener
\* has the lock, so the counter is the number of slots in use.
LEMMA AccountingNoZombie == AppIInv => NoZombie
<1> SUFFICES ASSUME AppIInv, apc = "a_body", nConnections < MaxApps, Free = {} PROVE FALSE
  BY DEF NoZombie
<1>1. Leaving = {}
  BY AppAssumption DEF AppIInv, LockOwner, HoldsLock, Leaving
<1>2. Used = Slots
  BY DEF Free, Used
<1>3. Cardinality(Leaving) = 0
  BY <1>1, FS_EmptySet
<1> QED
  BY <1>2, <1>3, Countable DEF AppIInv, AppTypeOK, SlotAccounting

\* What a step that moves no connection keeps.
LEMMA SameSlots ==
  ASSUME SlotAccounting, UNCHANGED <<nConnections, sock, thread, pc, index>>
  PROVE  SlotAccounting'
<1>1. Used' = Used /\ Leaving' = Leaving
  BY DEF Used, Leaving
<1> QED
  BY <1>1 DEF SlotAccounting, Alive

\* What a slave keeps that stays on the same side of the accounting.
LEMMA SlaveMoves ==
  ASSUME AppTypeOK, SlotAccounting, NEW c \in Conns,
         NEW from \in SlavePlaces, NEW to \in SlavePlaces, Goto(c, from, to),
         from \in {"c_close", "c_slot", "killed"} <=> to \in {"c_close", "c_slot", "killed"},
         from \in {"none", "refused", "c_unlock", "c_signal", "end"} <=>
           to \in {"none", "refused", "c_unlock", "c_signal", "end"},
         UNCHANGED <<nConnections, sock, thread, index>>
  PROVE  SlotAccounting' /\ \A d \in Conns : Alive(d)' <=> Alive(d)
<1>1. Used' = Used
  BY DEF Used
<1>2. Leaving' = Leaving
  BY DEF Leaving, Goto, AppTypeOK
<1>3. \A d \in Conns : Alive(d)' <=> Alive(d)
  BY DEF Alive, Goto, AppTypeOK
<1> QED
  BY <1>1, <1>2, <1>3 DEF SlotAccounting

\* The listener keeps the invariant.
LEMMA ListenInv ==
  ASSUME AppIInv, (\E c \in Conns \cup {None} : Accept(c)) \/ Listen
  PROVE  AppIInv'
<1> USE AppAssumption DEF AppIInv, AppTypeOK, LockOwner, HoldsLock, PlaceInv, Alive, SlavePlaces,
                          slaveVars, listenVars, mainVars
<1>1. ASSUME NEW c \in Conns \cup {None}, Accept(c) PROVE AppIInv'
  <2>1. SlotAccounting'
    BY <1>1, SameSlots DEF Accept
  <2> QED
    BY <1>1, <2>1 DEF Accept
<1>2. CASE ListenLock
  <2>1. SlotAccounting'
    BY <1>2, SameSlots DEF ListenLock
  <2> QED
    BY <1>2, <2>1 DEF ListenLock
<1>3. CASE ListenRefuse
  <2>1. Used' = Used /\ Leaving' = Leaving
    BY <1>3 DEF ListenRefuse, Used, Leaving
  <2>2. SlotAccounting'
    BY <1>3, <2>1 DEF ListenRefuse, SlotAccounting
  <2> QED
    BY <1>3, <2>2 DEF ListenRefuse
<1>4. CASE ListenStart
  <2>1. Free # {}
    BY <1>4, AccountingNoZombie DEF ListenStart, NoZombie, Full
  <2>2. PICK i \in Free :
          /\ sock' = [sock EXCEPT ![i] = newConn]
          /\ thread' = [thread EXCEPT ![i] = newConn]
          /\ index' = [index EXCEPT ![newConn] = i]
          /\ nConnections' = nConnections + 1
          /\ pc' = [pc EXCEPT ![newConn] = "recv"]
          /\ newConn' = None /\ lock' = None /\ apc' = "accept"
    BY <1>4, <2>1 DEF ListenStart
  <2>3. i \in Slots /\ i \notin Used /\ newConn \in Conns /\ pc[newConn] = "none" /\ nConnections < MaxApps
    BY <1>4, <2>2 DEF Free, Used, ListenStart, Full
  <2>4. UNCHANGED <<canCancel, cancelled, mpc, scan, woken>>
    BY <1>4 DEF ListenStart
  <2>5. Used' = Used \cup {i} /\ Leaving' = Leaving
    BY <2>2, <2>3 DEF Used, Leaving
  <2>6. Cardinality(Used') = Cardinality(Used) + 1
    BY <2>3, <2>5, Countable, FS_AddElement
  <2>7. nConnections' + Cardinality(Leaving') = Cardinality(Used')
    BY <2>2, <2>5, <2>6, Countable DEF SlotAccounting
  <2>8. \A j \in Slots, d \in Conns : sock'[j] = d <=> Alive(d)' /\ index'[d] = j
    BY <2>2, <2>3 DEF SlotAccounting, Free
  <2>9. \A j \in Slots : sock'[j] # None => thread'[j] = sock'[j]
    BY <2>2, <2>3 DEF SlotAccounting
  <2>10. SlotAccounting'
    BY <2>7, <2>8, <2>9 DEF SlotAccounting
  <2>11. AppTypeOK'
    BY <2>2, <2>3, <2>4
  <2>12. LockOwner'
    BY <1>4, <2>2, <2>3, <2>4 DEF ListenStart
  <2>13. PlaceInv'
    BY <2>2, <2>3, <2>4
  <2> QED
    BY <2>10, <2>11, <2>12, <2>13
<1> QED
  BY <1>1, <1>2, <1>3, <1>4 DEF Listen

\* A slave that is served and its clean-up keep the invariant.
LEMMA SlaveInv ==
  ASSUME AppIInv, NEW c \in Conns, Slave(c)
  PROVE  AppIInv'
<1> USE AppAssumption DEF AppIInv, AppTypeOK, LockOwner, HoldsLock, PlaceInv, SlavePlaces,
                          slaveVars, listenVars, mainVars
<1>1. CASE Recv(c)
  <2>1. SlotAccounting' /\ \A d \in Conns : Alive(d)' <=> Alive(d)
    BY <1>1, SlaveMoves DEF Recv
  <2> QED
    BY <1>1, <2>1 DEF Recv, Goto
<1>2. CASE RecvEnd(c)
  <2>1. SlotAccounting' /\ \A d \in Conns : Alive(d)' <=> Alive(d)
    BY <1>2, SlaveMoves DEF RecvEnd
  <2> QED
    BY <1>2, <2>1 DEF RecvEnd, Goto
<1>3. CASE RecvCancelled(c)
  <2>1. SlotAccounting' /\ \A d \in Conns : Alive(d)' <=> Alive(d)
    BY <1>3, SlaveMoves DEF RecvCancelled
  <2> QED
    BY <1>3, <2>1 DEF RecvCancelled, Goto
<1>4. CASE Served(c)
  <2>1. SlotAccounting' /\ \A d \in Conns : Alive(d)' <=> Alive(d)
    BY <1>4, SlaveMoves DEF Served
  <2> QED
    BY <1>4, <2>1 DEF Served, Goto
<1>5. CASE ServedLast(c)
  <2>1. SlotAccounting' /\ \A d \in Conns : Alive(d)' <=> Alive(d)
    BY <1>5, SlaveMoves DEF ServedLast
  <2> QED
    BY <1>5, <2>1 DEF ServedLast, Goto
<1>6. CASE CloseLock(c)
  <2>1. SlotAccounting' /\ \A d \in Conns : Alive(d)' <=> Alive(d)
    BY <1>6, SlaveMoves DEF CloseLock
  <2> QED
    BY <1>6, <2>1 DEF CloseLock, Goto
<1>7. CASE CloseSocket(c)
  <2>1. SlotAccounting' /\ \A d \in Conns : Alive(d)' <=> Alive(d)
    BY <1>7, SlaveMoves DEF CloseSocket
  <2> QED
    BY <1>7, <2>1 DEF CloseSocket, Goto
<1>8. CASE CloseCancelled(c)
  <2>1. SlotAccounting' /\ \A d \in Conns : Alive(d)' <=> Alive(d)
    BY <1>8, SlaveMoves DEF CloseCancelled
  <2> QED
    BY <1>8, <2>1 DEF CloseCancelled, Goto
<1>9. CASE CloseUnlock(c)
  <2>1. SlotAccounting' /\ \A d \in Conns : Alive(d)' <=> Alive(d)
    BY <1>9, SlaveMoves DEF CloseUnlock
  <2> QED
    BY <1>9, <2>1 DEF CloseUnlock, Goto
<1>10. CASE CloseSignal(c)
  <2>1. SlotAccounting' /\ \A d \in Conns : Alive(d)' <=> Alive(d)
    BY <1>10, SlaveMoves DEF CloseSignal
  <2> QED
    BY <1>10, <2>1 DEF CloseSignal, Goto
<1>11. CASE CloseCount(c)
  <2>1. pc[c] = "c_count" /\ lock = c /\ Leaving = {}
    BY <1>11 DEF CloseCount, Goto, Leaving
  <2>2. Leaving' = {c} /\ Used' = Used
    BY <1>11, <2>1 DEF CloseCount, Goto, Leaving, Used
  <2>3. Cardinality(Leaving) = 0 /\ Cardinality(Leaving') = 1
    BY <2>1, <2>2, FS_EmptySet, FS_Singleton
  \* c still has its slot, so somebody is counted.
  <2>4. index[c] \in Used
    BY <2>1 DEF SlotAccounting, Alive, Used
  <2>5. Cardinality(Used) # 0
    BY <2>4, Countable, FS_EmptySet
  <2>6. nConnections # 0 /\ nConnections' = nConnections - 1
    BY <1>11, <2>3, <2>5 DEF SlotAccounting, CloseCount
  <2>7. \A d \in Conns : Alive(d)' <=> Alive(d)
    BY <1>11 DEF CloseCount, Goto, Alive
  <2>8. SlotAccounting'
    BY <1>11, <2>2, <2>3, <2>6, <2>7, Countable DEF CloseCount, SlotAccounting
  <2> QED
    BY <1>11, <2>6, <2>7, <2>8 DEF CloseCount, Goto
<1>12. CASE CloseSlot(c)
  <2>1. pc[c] = "c_slot" /\ lock = c /\ Leaving = {c}
    BY <1>12 DEF CloseSlot, Goto, Leaving
  <2>2. index[c] \in Used
    BY <2>1 DEF SlotAccounting, Alive, Used
  <2>3. Leaving' = {} /\ Used' = Used \ {index[c]}
    BY <1>12, <2>1, <2>2 DEF CloseSlot, Goto, Leaving, Used
  <2>4. Cardinality(Leaving) = 1 /\ Cardinality(Leaving') = 0
    BY <2>1, <2>3, FS_EmptySet, FS_Singleton
  <2>5. Cardinality(Used') = Cardinality(Used) - 1
    BY <2>2, <2>3, Countable, FS_RemoveElement
  <2>6. \A d \in Conns : Alive(d)' <=> Alive(d) /\ d # c
    BY <1>12, <2>1 DEF CloseSlot, Goto, Alive
  <2>7. \A i \in Slots, d \in Conns : sock'[i] = d <=> Alive(d)' /\ index'[d] = i
    BY <1>12, <2>1, <2>2, <2>6 DEF CloseSlot, SlotAccounting, Alive, Used
  <2>8. \A i \in Slots : sock'[i] # None => thread'[i] = sock'[i]
    BY <1>12 DEF CloseSlot, SlotAccounting
  <2>9. SlotAccounting'
    BY <1>12, <2>4, <2>5, <2>7, <2>8, Countable DEF CloseSlot, SlotAccounting
  <2> QED
    BY <1>12, <2>6, <2>9 DEF CloseSlot, Goto
<1> QED
  BY <1>1, <1>2, <1>3, <1>4, <1>5, <1>6, <1>7, <1>8, <1>9, <1>10, <1>11, <1>12 DEF Slave, Close

\* The main thread keeps the invariant.
LEMMA MainInv ==
  ASSUME AppIInv, StopListening \/ Finalize \/ FinalizeWake
  PROVE  AppIInv'
<1> USE AppAssumption DEF AppIInv, AppTypeOK, LockOwner, HoldsLock, PlaceInv, SlavePlaces, Alive,
                          slaveVars, listenVars, mainVars
<1>1. CASE StopListening
  <2>1. SlotAccounting'
    BY <1>1, SameSlots DEF StopListening
  <2> QED
    BY <1>1, <2>1 DEF StopListening
<1>2. CASE FinalizeTest
  <2>1. SlotAccounting'
    BY <1>2, SameSlots DEF FinalizeTest
  <2>2. CASE scan > MaxApps
    BY <1>2, <2>1, <2>2 DEF FinalizeTest
  <2>3. CASE scan <= MaxApps /\ sock[scan] # None
    <3>1. scan \in Slots /\ thread[scan] # None
      BY <2>3 DEF Slots, SlotAccounting
    <3> QED
      BY <1>2, <2>1, <2>3, <3>1 DEF FinalizeTest
  <2>4. CASE scan <= MaxApps /\ sock[scan] = None
    <3>1. scan' \in 1..MaxApps + 1
      BY <1>2, <2>4 DEF FinalizeTest
    <3> QED
      BY <1>2, <2>1, <2>4, <3>1 DEF FinalizeTest
  <2>5. scan > MaxApps \/ scan <= MaxApps
    OBVIOUS
  <2> QED
    BY <2>2, <2>3, <2>4, <2>5, Zenon
<1>3. CASE FinalizeCancel
  <2>1. SlotAccounting'
    BY <1>3, SameSlots DEF FinalizeCancel
  <2>2. scan \in Slots /\ thread[scan] \in Conns
    BY <1>3 DEF FinalizeCancel
  <2>3. scan' \in 1..MaxApps + 1
    BY <1>3, <2>2 DEF FinalizeCancel, Slots
  <2>4. cancelled' \subseteq Conns
    <3>1. CASE pc[thread[scan]] \in {"end", "killed"}
      BY <1>3, <3>1 DEF FinalizeCancel
    <3>2. CASE pc[thread[scan]] \notin {"end", "killed"}
      BY <1>3, <2>2, <3>2 DEF FinalizeCancel
    <3> QED
      BY <3>1, <3>2
  <2>5. mpc' = "f_test" /\ UNCHANGED <<lock, nConnections, sock, thread, slaveVars, listenVars, woken>>
    BY <1>3 DEF FinalizeCancel
  <2> QED
    BY <1>3, <2>1, <2>3, <2>4, <2>5 DEF FinalizeCancel
<1>4. CASE FinalizeLock
  <2>1. SlotAccounting'
    BY <1>4, SameSlots DEF FinalizeLock
  <2> QED
    BY <1>4, <2>1 DEF FinalizeLock
<1>5. CASE FinalizeWait
  <2>1. SlotAccounting'
    BY <1>5, SameSlots DEF FinalizeWait
  <2> QED
    BY <1>5, <2>1 DEF FinalizeWait
<1>6. CASE FinalizeWake
  <2>1. SlotAccounting'
    BY <1>6, SameSlots DEF FinalizeWake
  <2> QED
    BY <1>6, <2>1 DEF FinalizeWake
<1>7. CASE FinalizeUnlock
  <2>1. SlotAccounting'
    BY <1>7, SameSlots DEF FinalizeUnlock
  <2> QED
    BY <1>7, <2>1 DEF FinalizeUnlock
<1>8. CASE FinalizeFree
  <2>1. SlotAccounting'
    BY <1>8, SameSlots DEF FinalizeFree
  <2> QED
    BY <1>8, <2>1 DEF FinalizeFree
<1> QED
  BY <1>1, <1>2, <1>3, <1>4, <1>5, <1>6, <1>7, <1>8 DEF Finalize

\* The accounting of slots and of the lock, with the types, is an invariant of
\* the applications interface.
THEOREM AppInvariant == AppSpec => [](AppTypeOK /\ LockOwner /\ SlotAccounting /\ PlaceInv)
<1>1. AppIInv /\ [AppNext]_appVars => AppIInv'
  <2> SUFFICES ASSUME AppIInv, [AppNext]_appVars PROVE AppIInv'
    OBVIOUS
  <2>1. ASSUME NEW c \in Conns, Slave(c) PROVE AppIInv'
    BY <2>1, SlaveInv
  <2>2. CASE UNCHANGED appVars
    <3>1. SlotAccounting'
      BY <2>2, SameSlots DEF appVars, slaveVars, AppIInv
    <3> QED
      BY <2>2, <3>1 DEF appVars, slaveVars, listenVars, mainVars, AppIInv, AppTypeOK, LockOwner,
                        PlaceInv, Alive
  <2> QED
    BY <2>1, <2>2, ListenInv, MainInv DEF AppNext
<1> QED
  BY AppInitInv, <1>1, PTL DEF AppSpec, AppIInv

\* appif.c:309 is right: with any number of slots and applications, the listener
\* never fails to find a slot when the counter says that there is one.
THEOREM AppNoZombie == AppSpec => []NoZombie
<1>1. AppTypeOK /\ LockOwner /\ SlotAccounting /\ PlaceInv => NoZombie
  BY AccountingNoZombie DEF AppIInv
<1> QED
  BY AppInvariant, <1>1, PTL

\* The variables keep their types, for any number of slots and of applications: in
\* particular n_connections stays between 0 and MAX_APPS (appif.c:59, 313).
THEOREM AppTypes == AppSpec => []AppTypeOK
BY AppInvariant, PTL

\* Whoever is in a critical section of appif->lock owns the lock, and nobody else
\* does (appif.c:54-67, 291-322, 369-373).
THEOREM AppLockOwner == AppSpec => []LockOwner
BY AppInvariant, PTL

\* What keeps the slaves away once appif_finalize has seen no connection: no
\* listener starts one, and those that are left have counted themselves out.
EndInv ==
  /\ mpc # "run" => apc = "stopped"
  /\ mpc \in {"f_free", "freed"} => \A c \in Conns : pc[c] \in {"none", "refused", "c_signal", "end"}

\* The moment when appif_finalize stops waiting, with the lock.
LEMMA NobodyLeft ==
  ASSUME AppIInv, FinalizeUnlock
  PROVE  \A c \in Conns : pc[c] \in {"none", "refused", "c_signal", "end"}
<1> SUFFICES ASSUME NEW c \in Conns PROVE pc[c] \in {"none", "refused", "c_signal", "end"}
  OBVIOUS
<1>1. nConnections = 0 /\ mpc = "f_count" /\ lock = "main"
  BY DEF FinalizeUnlock, AppIInv, LockOwner
<1>2. \A d \in Conns : pc[d] \notin HoldsLock
  BY <1>1, AppAssumption DEF AppIInv, LockOwner
<1>3. Leaving = {}
  BY <1>2 DEF Leaving, HoldsLock
<1>4. Cardinality(Used) = 0
  BY <1>1, <1>3, FS_EmptySet, Countable DEF AppIInv, SlotAccounting
<1>5. Used = {}
  BY <1>4, Countable, FS_EmptySet
<1>6. ~Alive(c)
  <2>1. Alive(c) => index[c] \in Slots /\ sock[index[c]] = c
    BY DEF AppIInv, PlaceInv, SlotAccounting
  <2> QED
    BY <2>1, <1>5, AppAssumption DEF Used
<1> QED
  BY <1>2, <1>6 DEF Alive, HoldsLock

\* Each step keeps EndInv.
LEMMA EndStep ==
  ASSUME AppIInv, EndInv, [AppNext]_appVars
  PROVE  EndInv'
<1> USE AppAssumption DEF EndInv, slaveVars, listenVars, mainVars
<1>1. ASSUME NEW c \in Conns \cup {None}, Accept(c) PROVE EndInv'
  BY <1>1 DEF Accept
<1>2. CASE Listen
  BY <1>2 DEF Listen, ListenLock, ListenRefuse, ListenStart
<1>3. ASSUME NEW c \in Conns, Slave(c) PROVE EndInv'
  <2>1. mpc' = mpc /\ apc' = apc
    BY <1>3 DEF Slave, Close, Recv, RecvEnd, RecvCancelled, Served, ServedLast, CloseLock, CloseCount,
                CloseSocket, CloseCancelled, CloseSlot, CloseUnlock, CloseSignal
  <2>2. mpc \in {"f_free", "freed"} => \A d \in Conns : pc'[d] \in {"none", "refused", "c_signal", "end"}
    <3> SUFFICES ASSUME mpc \in {"f_free", "freed"}, NEW d \in Conns
                 PROVE  pc'[d] \in {"none", "refused", "c_signal", "end"}
      OBVIOUS
    <3>1. pc[c] \in {"none", "refused", "c_signal", "end"}
      OBVIOUS
    <3>2. CloseSignal(c)
      BY <1>3, <3>1 DEF Slave, Close, Recv, RecvEnd, RecvCancelled, Served, ServedLast, CloseLock,
                        CloseCount, CloseSocket, CloseCancelled, CloseSlot, CloseUnlock, Goto
    <3> QED
      BY <3>2 DEF CloseSignal, Goto, AppIInv, AppTypeOK
  <2> QED
    BY <2>1, <2>2
<1>4. CASE StopListening
  BY <1>4 DEF StopListening
<1>5. CASE FinalizeUnlock
  BY <1>5, NobodyLeft DEF FinalizeUnlock
<1>6. CASE (Finalize /\ ~FinalizeUnlock) \/ FinalizeWake
  BY <1>6 DEF Finalize, FinalizeTest, FinalizeCancel, FinalizeLock, FinalizeWait, FinalizeWake, FinalizeFree
<1>7. CASE UNCHANGED appVars
  BY <1>7 DEF appVars
<1> QED
  BY <1>1, <1>2, <1>3, <1>4, <1>5, <1>6, <1>7 DEF AppNext

\* appif_finalize frees the interface only when no slave will lock it or change it
\* any more, for any number of slots and of applications (appif.c:366-383).
THEOREM AppFreedUnused == AppSpec => []FreedUnused
<1>1. AppInit => EndInv
  BY DEF AppInit, EndInv
<1>2. AppIInv /\ EndInv /\ [AppNext]_appVars => EndInv'
  BY EndStep
<1>3. EndInv => FreedUnused
  BY DEF EndInv, FreedUnused
<1>4. AppSpec => []AppIInv
  BY AppInvariant, PTL DEF AppIInv
<1> QED
  BY <1>1, <1>2, <1>3, <1>4, PTL DEF AppSpec
=============================================================================
