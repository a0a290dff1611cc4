----------------------------- MODULE ClMemProofs -----------------------------
(***************************************************************************)
(* The lock of rwlock.c and the region of clmem.c on top of it.            *)
(* First, Exclusion of RwLock for every finite set of threads, as long as  *)
(* none of them calls rw_lock_wait_update.  Then, under the same           *)
(* assumption, HeapOwnership and IsRegister of ClMem for any number of     *)
(* threads, calls and buffers.                                             *)
(***************************************************************************)
EXTENDS ClMem, FiniteSetTheorems, TLAPS

LockIInv == LockTypeOK /\ LockInv

\* The set of counted readers is finite, so its cardinality behaves.
LEMMA CountedFinite ==
  /\ IsFiniteSet(Counted)
  /\ Cardinality(Counted) \in Nat
  /\ Cardinality(Counted) = 0 <=> Counted = {}
<1>1. IsFiniteSet(Counted)
  BY ThreadsAssumption, FS_Subset DEF Counted
<1> QED
  BY <1>1, FS_CardinalityType, FS_EmptySet

\* A step that changes neither n_readers nor who is counted keeps CountInv.
LEMMA SameCount ==
  ASSUME CountInv, nReaders' = nReaders, Counted' = Counted
  PROVE  CountInv'
BY DEF CountInv

\* The initial state of rw_lock_init satisfies the invariant.
LEMMA LockInitInv == LockInit => LockIInv
<1> SUFFICES ASSUME LockInit PROVE LockIInv
  OBVIOUS
<1>1. Counted = {}
  BY DEF LockInit, Counted
<1>2. CountInv
  BY <1>1, CountedFinite DEF CountInv, LockInit
<1>3. LockTypeOK
  BY DEF LockInit, LockTypeOK, Labels
<1>4. MutexInv
  BY ThreadsAssumption DEF LockInit, MutexInv, InSection
<1>5. LoadInv /\ TokenInv /\ HeldInv
  BY DEF LockInit, LoadInv, TokenInv, HeldInv, ReadersHoldToken, Writing
<1> QED
  BY <1>2, <1>3, <1>4, <1>5 DEF LockIInv, LockInv

\* The calls that begin taking or giving back the lock keep the invariant.
LEMMA CallInv ==
  ASSUME LockIInv, NEW t \in Threads, Call(t)
  PROVE  LockIInv'
<1> USE DEF LockIInv, LockInv, LockTypeOK, Labels, MutexInv, InSection, LoadInv, TokenInv,
            ReadersHoldToken, Writing, HeldInv, Goto, Grant
<1>1. ASSUME held[t] = "none", Rlock(t) PROVE LockIInv'
  <2>1. Counted' = Counted
    BY <1>1 DEF Rlock, Counted
  <2>2. CountInv'
    BY <1>1, <2>1, SameCount DEF Rlock
  <2> QED
    BY <1>1, <2>2, ThreadsAssumption DEF Rlock
<1>2. ASSUME held[t] = "none", Wlock(t) PROVE LockIInv'
  <2>1. Counted' = Counted
    BY <1>2 DEF Wlock, Counted
  <2>2. CountInv'
    BY <1>2, <2>1, SameCount DEF Wlock
  <2> QED
    BY <1>2, <2>2, ThreadsAssumption DEF Wlock
<1>3. ASSUME held[t] = "read", Runlock(t) PROVE LockIInv'
  <2>1. Counted' = Counted
    BY <1>3 DEF Runlock, Counted
  <2>2. CountInv'
    BY <1>3, <2>1, SameCount DEF Runlock
  <2> QED
    BY <1>3, <2>2, ThreadsAssumption DEF Runlock
<1>4. ASSUME held[t] = "write", Wunlock(t) PROVE LockIInv'
  <2>1. Counted' = Counted
    BY <1>4 DEF Wunlock, Counted
  <2>2. CountInv'
    BY <1>4, <2>1, SameCount DEF Wunlock
  <2> QED
    BY <1>4, <2>2, ThreadsAssumption DEF Wunlock
<1> QED
  BY <1>1, <1>2, <1>3, <1>4 DEF Call

\* Every step inside the lock functions keeps the invariant.
LEMMA StepInv ==
  ASSUME LockIInv, NEW t \in Threads, LockStep(t)
  PROVE  LockIInv'
<1> USE DEF LockIInv, LockInv, LockTypeOK, Labels, MutexInv, InSection, LoadInv, TokenInv,
            ReadersHoldToken, Writing, HeldInv, Goto, Grant
<1>1. CASE RlockEnter(t)
  <2>1. Counted' = Counted
    BY <1>1 DEF RlockEnter, Counted
  <2>2. CountInv'
    BY <1>1, <2>1, SameCount DEF RlockEnter
  <2> QED
    BY <1>1, <2>2, ThreadsAssumption DEF RlockEnter
<1>2. CASE RlockStore(t)
  <2>1. Counted' = Counted \cup {t} /\ t \notin Counted
    BY <1>2 DEF RlockStore, Counted
  <2>2. CountInv'
    BY <1>2, <2>1, CountedFinite, FS_AddElement DEF RlockStore, CountInv
  \* If somebody was counted already, the readers hold the token.
  <2>3. nReaders # 0 => ReadersHoldToken
    BY <1>2, CountedFinite, ThreadsAssumption DEF RlockStore, Counted, CountInv
  <2> QED
    BY <1>2, <2>2, <2>3, ThreadsAssumption DEF RlockStore
<1>3. CASE RlockTest(t)
  <2>1. Counted' = Counted
    BY <1>3 DEF RlockTest, Counted
  <2>2. CountInv'
    BY <1>3, <2>1, SameCount DEF RlockTest
  <2> QED
    BY <1>3, <2>2, ThreadsAssumption DEF RlockTest
<1>4. CASE RlockSem(t)
  <2>1. Counted' = Counted
    BY <1>4 DEF RlockSem, Counted
  <2>2. CountInv'
    BY <1>4, <2>1, SameCount DEF RlockSem
  <2> QED
    BY <1>4, <2>2, ThreadsAssumption DEF RlockSem
<1>5. CASE RlockExit(t)
  <2>1. Counted' = Counted
    BY <1>5 DEF RlockExit, Counted
  <2>2. CountInv'
    BY <1>5, <2>1, SameCount DEF RlockExit
  <2> QED
    BY <1>5, <2>2, ThreadsAssumption DEF RlockExit
<1>6. CASE RunlockEnter(t)
  <2>1. Counted' = Counted
    BY <1>6 DEF RunlockEnter, Counted
  <2>2. CountInv'
    BY <1>6, <2>1, SameCount DEF RunlockEnter
  <2> QED
    BY <1>6, <2>2, ThreadsAssumption DEF RunlockEnter
<1>7. CASE RunlockStore(t)
  <2>1. Counted' = Counted \ {t} /\ t \in Counted
    BY <1>7 DEF RunlockStore, Counted
  <2>2. nReaders' = nReaders - 1 /\ nReaders # 0
    BY <1>7, <2>1, CountedFinite DEF RunlockStore, CountInv
  <2>3. CountInv'
    BY <2>1, <2>2, CountedFinite, FS_RemoveElement DEF CountInv
  <2> QED
    BY <1>7, <2>2, <2>3, ThreadsAssumption DEF RunlockStore
<1>8. CASE RunlockTest(t)
  <2>1. Counted' = Counted
    BY <1>8 DEF RunlockTest, Counted
  <2>2. CountInv'
    BY <1>8, <2>1, SameCount DEF RunlockTest
  \* The last reader gives the token back: nobody else is counted any more.
  <2>3. nReaders = 0 => sem = 0 /\ ~ReadersHoldToken'
    <3>1. SUFFICES ASSUME nReaders = 0 PROVE sem = 0 /\ ~ReadersHoldToken'
      OBVIOUS
    <3>2. Counted = {}
      BY <3>1, CountedFinite DEF CountInv
    <3> QED
      BY <1>8, <3>1, <3>2, ThreadsAssumption DEF RunlockTest, Counted
  <2>4. ReadersHoldToken' => ReadersHoldToken
    BY <1>8, ThreadsAssumption DEF RunlockTest
  <2> QED
    BY <1>8, <2>2, <2>3, <2>4, ThreadsAssumption DEF RunlockTest
<1>9. CASE RunlockExit(t)
  <2>1. Counted' = Counted
    BY <1>9 DEF RunlockExit, Counted
  <2>2. CountInv'
    BY <1>9, <2>1, SameCount DEF RunlockExit
  <2> QED
    BY <1>9, <2>2, ThreadsAssumption DEF RunlockExit
<1>10. CASE WlockSem(t)
  <2>1. Counted' = Counted
    BY <1>10 DEF WlockSem, Counted
  <2>2. CountInv'
    BY <1>10, <2>1, SameCount DEF WlockSem
  <2> QED
    BY <1>10, <2>2, ThreadsAssumption DEF WlockSem
<1>11. CASE WunlockPost(t)
  <2>1. Counted' = Counted
    BY <1>11 DEF WunlockPost, Counted
  <2>2. CountInv'
    BY <1>11, <2>1, SameCount DEF WunlockPost
  <2> QED
    BY <1>11, <2>2, ThreadsAssumption DEF WunlockPost
<1>12. CASE WunlockBroadcast(t)
  <2>1. lpc' = [lpc EXCEPT ![t] = "out"]
    BY <1>12 DEF WunlockBroadcast
  <2>2. Counted' = Counted
    BY <1>12, <2>1 DEF WunlockBroadcast, Counted
  <2>3. CountInv'
    BY <1>12, <2>2, SameCount DEF WunlockBroadcast
  <2> QED
    BY <1>12, <2>1, <2>3, ThreadsAssumption DEF WunlockBroadcast
<1> QED
  BY <1>1, <1>2, <1>3, <1>4, <1>5, <1>6, <1>7, <1>8, <1>9, <1>10, <1>11, <1>12 DEF LockStep

\* LockInv, with the types, is an invariant of the lock: m_lock guards its
\* section, n_readers counts the readers, the semaphore is a single token.
THEOREM LockInvariant == LockSpec => [](LockTypeOK /\ LockInv)
<1>1. LockIInv /\ [LockNext]_lockVars => LockIInv'
  <2> SUFFICES ASSUME LockIInv, [LockNext]_lockVars PROVE LockIInv'
    OBVIOUS
  <2>1. ASSUME NEW t \in Threads, Call(t) PROVE LockIInv'
    BY <2>1, CallInv
  <2>2. ASSUME NEW t \in Threads, LockStep(t) PROVE LockIInv'
    BY <2>2, StepInv
  <2>3. CASE UNCHANGED lockVars
    BY <2>3 DEF lockVars, LockIInv, LockTypeOK, LockInv, MutexInv, InSection, LoadInv, CountInv,
                Counted, TokenInv, ReadersHoldToken, Writing, HeldInv
  <2> QED
    BY <2>1, <2>2, <2>3 DEF LockNext
<1> QED
  BY LockInitInv, <1>1, PTL DEF LockSpec, LockIInv

\* The variables of the lock keep their types: n_readers never goes below 0, although
\* it is an int that two functions change (rwlock.c:73, 96).
THEOREM LockTypes == LockSpec => []LockTypeOK
BY LockInvariant, PTL

\* Mutual exclusion of rwlock.c, for every finite set of threads: while a
\* thread is between rw_lock_wlock and rw_lock_wunlock no other one is in the
\* guarded section, provided that nobody calls rw_lock_wait_update.
THEOREM LockExclusion == LockSpec => []Exclusion
<1>1. LockTypeOK /\ LockInv => Exclusion
  BY DEF LockInv, TokenInv, Exclusion, Reading, Writing, ReadersHoldToken
<1> QED
  BY LockInvariant, <1>1, PTL

Places == {"idle", "exited", "p_check", "p_dispose", "p_data", "p_size", "done", "g_size",
            "g_copy", "m_run", "m_clear", "m_join", "m_destroy", "m_end"}
Entering == {"r_enter", "r_store", "r_test", "r_sem", "r_exit"}
Leaving == {"x_post", "x_bcast", "u_enter", "u_store", "u_test", "u_exit"}

\* Where a thread is in clmem.c tells what it has of the lock.
PlaceInv ==
  /\ pc \in [Threads -> Places]
  /\ \A t \in Threads :
       \/ pc[t] \in {"idle", "exited", "m_run"} /\ lpc[t] = "out" /\ held[t] = "none"
       \/ pc[t] \in {"p_check", "m_clear", "m_destroy"} /\ lpc[t] = "w_sem"
       \/ pc[t] \in {"p_check", "m_clear", "m_destroy", "p_data", "p_size"} /\ lpc[t] = "out" /\ held[t] = "write"
       \/ pc[t] = "g_size" /\ lpc[t] \in Entering
       \/ pc[t] \in {"g_size", "g_copy"} /\ lpc[t] = "out" /\ held[t] = "read"
       \/ pc[t] \in {"p_dispose", "done", "m_join", "m_end"} /\ lpc[t] \in Leaving \cup {"out"} /\ held[t] = "none"

\* What the calls were given.
ArgInv ==
  /\ arg \in [Slaves -> [size : Nat, stamp : Stamps]]
  /\ \A s \in Slaves : /\ pc[s] \in {"p_check", "p_data", "p_size"} => arg[s].size \in Sizes
                       /\ pc[s] \in {"g_size", "g_copy"} => arg[s].size \in Caps

\* A slave has a private buffer from malloc to the assignment or free, with its payload in it.
BufInv ==
  \A s \in Slaves : /\ buf[s] # Null <=> pc[s] \in {"p_check", "p_dispose", "p_data"}
                    /\ pc[s] \in {"p_check", "p_data"} => heap[buf[s]] = arg[s].size

\* HeapOwnership, buffer by buffer.
OwnInv ==
  /\ \A b \in Buffers : heap[b] # 0 <=> (\E s \in Slaves : buf[s] = b) \/ (~Replacing /\ data = b)
  /\ \A s, u \in Slaves : buf[s] # Null /\ buf[s] = buf[u] => s = u
  /\ ~Replacing /\ data # Null => \A s \in Slaves : buf[s] # data

\* The size belongs to the data, but between the two assignments of mem_put, and the
\* size a reader has seen is still the size when it copies.
RegionInv ==
  /\ ~SomeWriter /\ data # Null => heap[data] = size
  /\ \A s \in Slaves : pc[s] = "p_size" => data # Null /\ heap[data] = arg[s].size
  /\ \A s \in Slaves : pc[s] = "g_copy" => cpSize[s] = AtMost(arg[s].size, size)

MemIInv == MemTypeOK /\ LockInv /\ PlaceInv /\ ArgInv /\ BufInv /\ OwnInv /\ RegionInv
-----------------------------------------------------------------------------
\* What the assumptions say of the constants.
LEMMA MemNumbers ==
  /\ Main \in Threads /\ Slaves \subseteq Threads /\ Main \notin Slaves
  /\ \A v \in Sizes : v \in Nat /\ v # 0
  /\ \A v \in Caps : v \in Nat
  /\ \A v \in Stamps : v \in Nat
  /\ 0 \in Stamps /\ Null \notin Buffers
BY MemAssumption DEF Slaves

\* While a thread has the lock to write, nobody else is at a place where the region is
\* used; while one reads, nobody is where it changes.
LEMMA WriterAlone ==
  ASSUME LockInv, PlaceInv, NEW t \in Threads, held[t] = "write"
  PROVE  \A u \in Threads : u # t => pc[u] \notin {"p_data", "p_size", "g_copy"}
BY DEF LockInv, TokenInv, Writing, ReadersHoldToken, PlaceInv

\* While a thread has the lock to read, nobody is where mem_put changes the region.
LEMMA NoWriter ==
  ASSUME LockInv, PlaceInv, NEW t \in Threads, held[t] = "read"
  PROVE  \A u \in Threads : pc[u] \notin {"p_data", "p_size"}
BY DEF LockInv, TokenInv, Writing, ReadersHoldToken, PlaceInv

\* The writer of the refinement mapping is the only one.
LEMMA OneWriter ==
  ASSUME LockInv, PlaceInv, NEW s \in Slaves, pc[s] \in {"p_data", "p_size"}
  PROVE  SomeWriter /\ Writer = s
<1>1. held[s] = "write" /\ s \in Threads
  BY MemNumbers DEF PlaceInv
<1>2. \A u \in Slaves : pc[u] \in {"p_data", "p_size"} <=> u = s
  BY <1>1, WriterAlone, MemNumbers
<1>3. SomeWriter
  BY DEF SomeWriter
<1> QED BY <1>2, <1>3 DEF Writer

\* After mem_init everything agrees.
THEOREM MemStart == MemInit => MemIInv
<1> SUFFICES ASSUME MemInit PROVE MemIInv
  OBVIOUS
<1>1. LockInv /\ LockTypeOK
  BY LockInitInv DEF MemInit, LockIInv
<1>2. MemTypeOK
  <2>1. 0 \in 0..MaxOps /\ 0 \in Nat
    BY MemAssumption
  <2>2. ops \in [Slaves -> 0..MaxOps] /\ cpSize \in [Slaves -> Nat] /\ aux \in [Slaves -> Stamps]
    BY <2>1, MemNumbers DEF MemInit
  <2>3. buf \in [Slaves -> Buffers \cup {Null}] /\ heap \in [Buffers -> Sizes \cup {0}]
    BY DEF MemInit
  <2> QED BY <1>1, <2>2, <2>3, MemNumbers DEF MemInit, MemTypeOK
<1>3. PlaceInv
  BY MemNumbers DEF MemInit, PlaceInv, Places, LockInit
<1>4. ArgInv /\ BufInv
  BY MemNumbers DEF MemInit, ArgInv, BufInv
<1>5. OwnInv
  BY MemNumbers DEF MemInit, OwnInv
<1>6. RegionInv
  BY MemNumbers DEF MemInit, RegionInv
<1> QED BY <1>1, <1>2, <1>3, <1>4, <1>5, <1>6 DEF MemIInv
-----------------------------------------------------------------------------
(* The lock and the places.                                                *)

\* A thread goes on in clmem.c, or calls the lock.
LEMMA JumpPlace ==
  ASSUME LockTypeOK, LockInv, PlaceInv, NEW t \in Threads, NEW to \in Places, lpc[t] = "out", Jump(t, to),
         \/ Wlock(t) /\ held[t] = "none" /\ to \in {"p_check", "m_clear", "m_destroy"}
         \/ Rlock(t) /\ held[t] = "none" /\ to = "g_size"
         \/ Wunlock(t) /\ held[t] = "write" /\ to \in {"p_dispose", "done", "m_join", "m_end"}
         \/ Runlock(t) /\ held[t] = "read" /\ to = "done"
         \/ UNCHANGED lockVars /\ held[t] = "write" /\ to \in {"p_data", "p_size"}
         \/ UNCHANGED lockVars /\ held[t] = "read" /\ to = "g_copy"
         \/ UNCHANGED lockVars /\ held[t] = "none" /\ to \in {"idle", "exited"}
  PROVE  LockTypeOK' /\ LockInv' /\ PlaceInv'
<1>1. LockTypeOK' /\ LockInv'
  <2>1. CASE UNCHANGED lockVars
    BY <2>1 DEF lockVars, LockTypeOK, LockInv, MutexInv, InSection, LoadInv, CountInv, Counted,
                TokenInv, ReadersHoldToken, Writing, HeldInv
  <2>2. CASE Call(t)
    BY <2>2, CallInv DEF LockIInv
  <2> QED BY <2>1, <2>2 DEF Call
<1>2. pc' = [pc EXCEPT ![t] = to]
  BY DEF Jump
<1>3. /\ \A u \in Threads : u # t => lpc'[u] = lpc[u] /\ held'[u] = held[u] /\ pc'[u] = pc[u]
      /\ pc'[t] = to /\ pc' \in [Threads -> Places]
  BY <1>2 DEF Wlock, Rlock, Wunlock, Runlock, Goto, Grant, lockVars, LockTypeOK, PlaceInv
<1>4. \/ to \in {"idle", "exited", "m_run"} /\ lpc'[t] = "out" /\ held'[t] = "none"
      \/ to \in {"p_check", "m_clear", "m_destroy"} /\ lpc'[t] = "w_sem"
      \/ to \in {"p_check", "m_clear", "m_destroy", "p_data", "p_size"} /\ lpc'[t] = "out" /\ held'[t] = "write"
      \/ to = "g_size" /\ lpc'[t] \in Entering
      \/ to \in {"g_size", "g_copy"} /\ lpc'[t] = "out" /\ held'[t] = "read"
      \/ to \in {"p_dispose", "done", "m_join", "m_end"} /\ lpc'[t] \in Leaving \cup {"out"} /\ held'[t] = "none"
  BY DEF Wlock, Rlock, Wunlock, Runlock, Goto, Grant, lockVars, LockTypeOK, Entering, Leaving
<1> QED BY <1>1, <1>3, <1>4 DEF PlaceInv

\* A step inside the lock.
LEMMA LockingPlace ==
  ASSUME LockTypeOK, LockInv, PlaceInv, NEW t \in Threads, Locking(t)
  PROVE  LockTypeOK' /\ LockInv' /\ PlaceInv'
<1>1. LockStep(t) /\ UNCHANGED pc
  BY DEF Locking, CondWait, Goto, LockInv, HeldInv
<1>2. LockTypeOK' /\ LockInv'
  BY <1>1, StepInv DEF LockIInv
<1>3. held[t] = "none" /\ lpc[t] # "out"
  BY <1>1 DEF LockStep, RlockEnter, RlockStore, RlockTest, RlockSem, RlockExit, RunlockEnter,
              RunlockStore, RunlockTest, RunlockExit, WlockSem, WunlockPost, WunlockBroadcast,
              Goto, LockInv, HeldInv, LockTypeOK
<1>4. \A u \in Threads : u # t => lpc'[u] = lpc[u] /\ held'[u] = held[u]
  BY <1>1 DEF LockStep, RlockEnter, RlockStore, RlockTest, RlockSem, RlockExit, RunlockEnter,
              RunlockStore, RunlockTest, RunlockExit, WlockSem, WunlockPost, WunlockBroadcast,
              Goto, Grant, LockInv, HeldInv, LockTypeOK
<1>5. \/ lpc[t] \in Entering /\ (lpc'[t] \in Entering \/ (lpc'[t] = "out" /\ held'[t] = "read"))
      \/ lpc[t] \in Leaving /\ lpc'[t] \in Leaving \cup {"out"} /\ held'[t] = "none"
      \/ lpc[t] = "w_sem" /\ lpc'[t] = "out" /\ held'[t] = "write"
  <2> USE <1>3 DEF Goto, Grant, LockTypeOK, Entering, Leaving
  <2>1. CASE RlockEnter(t) \/ RlockStore(t)
    BY <2>1 DEF RlockEnter, RlockStore
  <2>7. CASE RlockTest(t)
    <3>1. lpc[t] = "r_test" /\ lpc'[t] \in {"r_sem", "r_exit"}
      BY <2>7 DEF RlockTest
    <3> QED BY <3>1
  <2>2. CASE RlockSem(t)
    BY <2>2 DEF RlockSem
  <2>8. CASE RlockExit(t)
    <3>1. lpc[t] = "r_exit" /\ lpc'[t] = "out" /\ held'[t] = "read"
      BY <2>8 DEF RlockExit
    <3> QED BY <3>1
  <2>3. CASE RunlockEnter(t) \/ RunlockStore(t)
    BY <2>3 DEF RunlockEnter, RunlockStore
  <2>4. CASE RunlockTest(t) \/ RunlockExit(t)
    BY <2>4 DEF RunlockTest, RunlockExit
  <2>5. CASE WlockSem(t)
    BY <2>5 DEF WlockSem
  <2>6. CASE WunlockPost(t) \/ WunlockBroadcast(t)
    BY <2>6 DEF WunlockPost, WunlockBroadcast
  <2> QED BY <1>1, <2>1, <2>2, <2>3, <2>4, <2>5, <2>6, <2>7, <2>8 DEF LockStep
<1>6. PlaceInv'
  <2>1. \A u \in Threads : u # t => pc'[u] = pc[u] /\ lpc'[u] = lpc[u] /\ held'[u] = held[u]
    BY <1>1, <1>4
  <2> QED BY <1>1, <1>3, <1>5, <2>1 DEF PlaceInv, Entering, Leaving
<1> QED BY <1>2, <1>6
-----------------------------------------------------------------------------
(* The region and the buffers: one lemma for each step that changes them.  *)

\* Steps after which the threads have what they had.
LEMMA SameRegion ==
  ASSUME MemIInv, LockTypeOK', LockInv', PlaceInv', UNCHANGED <<zoneVars, heap, localVars>>, crashed' \in BOOLEAN,
         \A s \in Slaves : \/ pc'[s] = pc[s]
                           \/ pc[s] = "p_check" /\ pc'[s] = "p_dispose"
                           \/ pc[s] = "g_copy" /\ pc'[s] = "done"
                           \/ pc[s] \in {"idle", "done"} /\ pc'[s] \in {"idle", "exited"}
  PROVE  MemIInv'
<1> USE DEF MemIInv, zoneVars, localVars
<1>1. MemTypeOK'
  BY DEF MemTypeOK
<1>2. ArgInv' /\ BufInv'
  BY DEF ArgInv, BufInv
<1>3. Replacing' = Replacing /\ SomeWriter' = SomeWriter
  BY DEF Replacing, SomeWriter
<1>4. OwnInv'
  BY <1>3 DEF OwnInv
<1>5. RegionInv'
  BY <1>3 DEF RegionInv
<1> QED BY <1>1, <1>2, <1>4, <1>5

\* malloc returns a buffer nobody uses; it becomes private to the caller of mem_put.
LEMMA PutCallMem ==
  ASSUME MemIInv, NEW s \in Slaves, NEW v \in Sizes, NEW st \in Stamps, NEW b \in Buffers,
         PutCall(s, v, st, b)
  PROVE  MemIInv'
<1> USE DEF MemIInv
<1>1. /\ pc[s] = "idle" /\ lpc[s] = "out" /\ ops[s] < MaxOps /\ heap[b] = 0
      /\ ops' = [ops EXCEPT ![s] = @ + 1]
      /\ arg' = [arg EXCEPT ![s] = [size |-> v, stamp |-> st]]
      /\ heap' = [heap EXCEPT ![b] = v] /\ buf' = [buf EXCEPT ![s] = b]
      /\ Jump(s, "p_check") /\ Wlock(s)
      /\ UNCHANGED <<zoneVars, cpSize, aux, res, crashed>>
  BY DEF PutCall, Begin, At
<1>2. LockTypeOK' /\ LockInv' /\ PlaceInv'
  BY <1>1, JumpPlace, MemNumbers DEF PlaceInv, Places, MemTypeOK
<1>3. /\ pc'[s] = "p_check" /\ \A u \in Slaves : u # s => pc'[u] = pc[u]
      /\ buf'[s] = b /\ \A u \in Slaves : u # s => buf'[u] = buf[u] /\ arg'[u] = arg[u]
      /\ arg'[s].size = v
      /\ \A c \in Buffers : heap'[c] = IF c = b THEN v ELSE heap[c]
      /\ v # 0 /\ v \in Nat
  BY <1>1, MemNumbers DEF Jump, PlaceInv, MemTypeOK, ArgInv
<1>4. MemTypeOK'
  <2>1. ops' \in [Slaves -> 0..MaxOps]
    BY <1>1, MemAssumption DEF MemTypeOK
  <2>2. heap' \in [Buffers -> Sizes \cup {0}] /\ buf' \in [Slaves -> Buffers \cup {Null}]
    BY <1>1 DEF MemTypeOK
  <2> QED BY <2>1, <2>2, <1>1, <1>2 DEF MemTypeOK, zoneVars
<1>5. ArgInv'
  BY <1>1, <1>3 DEF ArgInv
<1>6. Replacing' = Replacing /\ SomeWriter' = SomeWriter
  BY <1>1, <1>3 DEF Replacing, SomeWriter
<1>7. \A u \in Slaves : buf[u] # b
  <2>1. b # Null
    BY MemNumbers
  <2> QED BY <1>1, <2>1 DEF OwnInv
<1>8. BufInv'
  BY <1>1, <1>3, <1>7, MemNumbers DEF BufInv, MemTypeOK
<1>9. ~Replacing => data # b
  BY <1>1 DEF OwnInv
<1>10. OwnInv'
  <2>1. \A c \in Buffers : heap'[c] # 0 <=> (\E u \in Slaves : buf'[u] = c) \/ (~Replacing /\ data = c)
    <3> SUFFICES ASSUME NEW c \in Buffers
                 PROVE  heap'[c] # 0 <=> (\E u \in Slaves : buf'[u] = c) \/ (~Replacing /\ data = c)
      OBVIOUS
    <3>1. CASE c = b
      BY <3>1, <1>3
    <3>2. CASE c # b
      <4>1. (\E u \in Slaves : buf'[u] = c) <=> \E u \in Slaves : buf[u] = c
        BY <3>2, <1>1, <1>3, MemNumbers DEF BufInv
      <4> QED BY <4>1, <3>2, <1>3 DEF OwnInv
    <3> QED BY <3>1, <3>2
  <2>2. \A u, w \in Slaves : buf'[u] # Null /\ buf'[u] = buf'[w] => u = w
    BY <1>3, <1>7 DEF OwnInv
  <2>3. ~Replacing /\ data # Null => \A u \in Slaves : buf'[u] # data
    BY <1>3, <1>9 DEF OwnInv
  <2> QED BY <2>1, <2>2, <2>3, <1>1, <1>6 DEF OwnInv, zoneVars
<1>11. RegionInv'
  <2>1. data \in Buffers \cup {Null}
    BY DEF MemTypeOK
  <2>2. SomeWriter \/ ~Replacing
    BY DEF SomeWriter, Replacing
  <2>3. \A u \in Slaves : pc[u] = "p_size" => ~Replacing
    BY OneWriter DEF Replacing
  <2>4. ~SomeWriter /\ data # Null => heap'[data] = size
    BY <2>1, <2>2, <1>3, <1>9 DEF RegionInv
  <2>5. \A u \in Slaves : pc'[u] = "p_size" => data # Null /\ heap'[data] = arg'[u].size
    BY <2>1, <2>3, <1>3, <1>9 DEF RegionInv
  <2>6. \A u \in Slaves : pc'[u] = "g_copy" => cpSize[u] = AtMost(arg'[u].size, size)
    BY <1>3 DEF RegionInv
  <2> QED BY <2>4, <2>5, <2>6, <1>1, <1>6 DEF RegionInv, zoneVars
<1> QED BY <1>2, <1>4, <1>5, <1>8, <1>10, <1>11

\* The refused copy gives up its private buffer, and nothing else uses that.
LEMMA PutDisposeMem ==
  ASSUME MemIInv, NEW s \in Slaves, PutDispose(s)
  PROVE  MemIInv'
<1> USE DEF MemIInv
<1>1. /\ pc[s] = "p_dispose" /\ lpc[s] = "out"
      /\ heap' = [heap EXCEPT ![buf[s]] = 0] /\ buf' = [buf EXCEPT ![s] = Null]
      /\ Jump(s, "idle")
      /\ UNCHANGED <<lockVars, zoneVars, arg, cpSize, aux, ops, res, crashed>>
  BY DEF PutDispose, At
<1>2. LockTypeOK' /\ LockInv' /\ PlaceInv'
  BY <1>1, JumpPlace, MemNumbers DEF PlaceInv, Places, MemTypeOK
<1>3. buf[s] # Null /\ buf[s] \in Buffers
  BY <1>1 DEF BufInv, MemTypeOK
<1>4. /\ pc'[s] = "idle" /\ \A u \in Slaves : u # s => pc'[u] = pc[u]
      /\ buf'[s] = Null /\ \A u \in Slaves : u # s => buf'[u] = buf[u] /\ buf[u] # buf[s]
      /\ \A c \in Buffers : heap'[c] = IF c = buf[s] THEN 0 ELSE heap[c]
  BY <1>1, <1>3, MemNumbers DEF Jump, PlaceInv, MemTypeOK, OwnInv
<1>5. MemTypeOK'
  <2>1. heap' \in [Buffers -> Sizes \cup {0}] /\ buf' \in [Slaves -> Buffers \cup {Null}]
    BY <1>1 DEF MemTypeOK
  <2> QED BY <2>1, <1>1, <1>2 DEF MemTypeOK, zoneVars
<1>6. ArgInv'
  BY <1>1, <1>4 DEF ArgInv
<1>7. Replacing' = Replacing /\ SomeWriter' = SomeWriter
  BY <1>1, <1>4 DEF Replacing, SomeWriter
<1>8. BufInv'
  BY <1>1, <1>4, MemNumbers DEF BufInv, MemTypeOK
<1>9. OwnInv'
  <2>1. \A c \in Buffers : heap'[c] # 0 <=> (\E u \in Slaves : buf'[u] = c) \/ (~Replacing /\ data = c)
    <3> SUFFICES ASSUME NEW c \in Buffers
                 PROVE  heap'[c] # 0 <=> (\E u \in Slaves : buf'[u] = c) \/ (~Replacing /\ data = c)
      OBVIOUS
    <3>1. CASE c = buf[s]
      <4>1. ~(\E u \in Slaves : buf'[u] = c) /\ ~(~Replacing /\ data = c)
        BY <3>1, <1>3, <1>4 DEF OwnInv
      <4> QED BY <4>1, <3>1, <1>4
    <3>2. CASE c # buf[s]
      <4>1. (\E u \in Slaves : buf'[u] = c) <=> \E u \in Slaves : buf[u] = c
        BY <3>2, <1>4, MemNumbers
      <4> QED BY <4>1, <3>2, <1>4 DEF OwnInv
    <3> QED BY <3>1, <3>2
  <2>2. \A u, w \in Slaves : buf'[u] # Null /\ buf'[u] = buf'[w] => u = w
    BY <1>4 DEF OwnInv
  <2>3. ~Replacing /\ data # Null => \A u \in Slaves : buf'[u] # data
    BY <1>4 DEF OwnInv
  <2> QED BY <2>1, <2>2, <2>3, <1>1, <1>7 DEF OwnInv, zoneVars
<1>10. RegionInv'
  <2>1. data \in Buffers \cup {Null}
    BY DEF MemTypeOK
  <2>2. SomeWriter \/ ~Replacing
    BY DEF SomeWriter, Replacing
  <2>3. \A u \in Slaves : pc[u] = "p_size" => ~Replacing
    BY OneWriter DEF Replacing
  <2>4. ~Replacing /\ data # Null => heap'[data] = heap[data]
    BY <2>1, <1>4 DEF OwnInv
  <2>5. \A u \in Slaves : pc'[u] = "p_size" => data # Null /\ heap'[data] = arg[u].size
    BY <2>3, <2>4, <1>4 DEF RegionInv
  <2>6. \A u \in Slaves : pc'[u] = "g_copy" => cpSize[u] = AtMost(arg[u].size, size)
    BY <1>4 DEF RegionInv
  <2> QED BY <2>2, <2>4, <2>5, <2>6, <1>1, <1>7 DEF RegionInv, zoneVars
<1> QED BY <1>2, <1>5, <1>6, <1>8, <1>9, <1>10

\* The buffer of the region is freed while it alone is writing, before data is assigned.
LEMMA PutAcceptMem ==
  ASSUME MemIInv, NEW s \in Slaves, PutAccept(s)
  PROVE  MemIInv'
<1> USE DEF MemIInv
<1>1. /\ pc[s] = "p_check" /\ lpc[s] = "out"
      /\ heap' = IF data = Null THEN heap ELSE [heap EXCEPT ![data] = 0]
      /\ Jump(s, "p_data")
      /\ UNCHANGED <<lockVars, zoneVars, localVars, crashed>>
  BY DEF PutAccept, At
<1>2. held[s] = "write" /\ s \in Threads
  BY <1>1, MemNumbers DEF PlaceInv
<1>3. LockTypeOK' /\ LockInv' /\ PlaceInv'
  BY <1>1, <1>2, JumpPlace, MemNumbers DEF Places, MemTypeOK
<1>4. /\ pc'[s] = "p_data" /\ \A u \in Slaves : u # s => pc'[u] = pc[u] /\ pc[u] \notin {"p_data", "p_size", "g_copy"}
      /\ data \in Buffers \cup {Null}
      /\ \A c \in Buffers : heap'[c] = IF c = data THEN 0 ELSE heap[c]
  BY <1>1, <1>2, WriterAlone, MemNumbers DEF Jump, PlaceInv, MemTypeOK
<1>5. MemTypeOK'
  <2>1. heap' \in [Buffers -> Sizes \cup {0}]
    BY <1>1 DEF MemTypeOK
  <2> QED BY <2>1, <1>1, <1>3 DEF MemTypeOK, zoneVars, localVars
<1>6. ArgInv'
  BY <1>1, <1>4 DEF ArgInv, localVars
<1>7. ~Replacing /\ Replacing' /\ SomeWriter'
  BY <1>1, <1>4 DEF Replacing, SomeWriter
<1>8. \A u \in Slaves : buf[u] # Null => buf[u] # data /\ buf[u] \in Buffers
  BY <1>7 DEF OwnInv, MemTypeOK
<1>9. BufInv'
  BY <1>1, <1>4, <1>8 DEF BufInv, localVars
<1>10. OwnInv'
  <2>1. \A c \in Buffers : heap'[c] # 0 <=> \E u \in Slaves : buf[u] = c
    BY <1>4, <1>7, <1>8, MemNumbers DEF OwnInv
  <2> QED BY <2>1, <1>1, <1>7 DEF OwnInv, localVars, zoneVars
<1>11. RegionInv'
  BY <1>4, <1>7 DEF RegionInv
<1> QED BY <1>3, <1>5, <1>6, <1>9, <1>10, <1>11

\* The private buffer becomes the one of the region.
LEMMA PutDataMem ==
  ASSUME MemIInv, NEW s \in Slaves, PutData(s)
  PROVE  MemIInv'
<1> USE DEF MemIInv
<1>1. /\ pc[s] = "p_data" /\ lpc[s] = "out"
      /\ data' = buf[s] /\ buf' = [buf EXCEPT ![s] = Null]
      /\ Jump(s, "p_size")
      /\ UNCHANGED <<lockVars, size, updateCond, terminate, heap, arg, cpSize, aux, ops, res, crashed>>
  BY DEF PutData, At
<1>2. held[s] = "write" /\ s \in Threads
  BY <1>1, MemNumbers DEF PlaceInv
<1>3. LockTypeOK' /\ LockInv' /\ PlaceInv'
  BY <1>1, <1>2, JumpPlace, MemNumbers DEF Places, MemTypeOK
<1>4. /\ buf[s] # Null /\ buf[s] \in Buffers /\ heap[buf[s]] = arg[s].size
      /\ pc'[s] = "p_size" /\ \A u \in Slaves : u # s => pc'[u] = pc[u] /\ pc[u] \notin {"p_data", "p_size", "g_copy"}
      /\ buf'[s] = Null /\ \A u \in Slaves : u # s => buf'[u] = buf[u] /\ buf[u] # buf[s]
  BY <1>1, <1>2, WriterAlone, MemNumbers DEF Jump, PlaceInv, MemTypeOK, BufInv, OwnInv
<1>5. MemTypeOK'
  <2>1. buf' \in [Slaves -> Buffers \cup {Null}] /\ data' \in Buffers
    BY <1>1, <1>4 DEF MemTypeOK
  <2> QED BY <2>1, <1>1, <1>3 DEF MemTypeOK
<1>6. ArgInv'
  BY <1>1, <1>4 DEF ArgInv
<1>7. Replacing /\ ~Replacing' /\ SomeWriter'
  BY <1>1, <1>4 DEF Replacing, SomeWriter
<1>8. BufInv'
  BY <1>1, <1>4 DEF BufInv
<1>9. OwnInv'
  <2>1. \A c \in Buffers : heap[c] # 0 <=> (\E u \in Slaves : buf'[u] = c) \/ buf[s] = c
    <3> SUFFICES ASSUME NEW c \in Buffers
                 PROVE  (\E u \in Slaves : buf[u] = c) <=> (\E u \in Slaves : buf'[u] = c) \/ buf[s] = c
      BY <1>7 DEF OwnInv
    <3> QED BY <1>4, MemNumbers
  <2>2. \A u, w \in Slaves : buf'[u] # Null /\ buf'[u] = buf'[w] => u = w
    BY <1>4 DEF OwnInv
  <2>3. \A u \in Slaves : buf'[u] # buf[s]
    BY <1>4
  <2> QED BY <2>1, <2>2, <2>3, <1>1, <1>7 DEF OwnInv
<1>10. RegionInv'
  BY <1>1, <1>4, <1>7 DEF RegionInv
<1> QED BY <1>3, <1>5, <1>6, <1>8, <1>9, <1>10

\* The size becomes the one of the data before the lock is given back.
LEMMA PutSizeMem ==
  ASSUME MemIInv, NEW s \in Slaves, PutSize(s)
  PROVE  MemIInv'
<1> USE DEF MemIInv
<1>1. /\ pc[s] = "p_size" /\ lpc[s] = "out"
      /\ size' = arg[s].size /\ updateCond' = arg[s].stamp
      /\ Jump(s, "done") /\ Wunlock(s)
      /\ UNCHANGED <<data, terminate, heap, localVars, res, crashed>>
  BY DEF PutSize, At
<1>2. held[s] = "write" /\ s \in Threads
  BY <1>1, MemNumbers DEF PlaceInv
<1>3. LockTypeOK' /\ LockInv' /\ PlaceInv'
  BY <1>1, <1>2, JumpPlace, MemNumbers DEF Places, MemTypeOK
<1>4. /\ pc'[s] = "done" /\ \A u \in Slaves : u # s => pc'[u] = pc[u] /\ pc[u] \notin {"p_data", "p_size", "g_copy"}
      /\ arg[s].size \in Sizes /\ arg[s].stamp \in Stamps
  BY <1>1, <1>2, WriterAlone, MemNumbers DEF Jump, PlaceInv, ArgInv
<1>5. MemTypeOK'
  BY <1>1, <1>3, <1>4 DEF MemTypeOK, localVars
<1>6. ArgInv' /\ BufInv'
  BY <1>1, <1>4 DEF ArgInv, BufInv, localVars
<1>7. ~Replacing /\ ~Replacing' /\ ~SomeWriter'
  BY <1>1, <1>4 DEF Replacing, SomeWriter
<1>8. OwnInv'
  BY <1>1, <1>7 DEF OwnInv, localVars
<1>9. RegionInv'
  BY <1>1, <1>4, <1>7 DEF RegionInv
<1> QED BY <1>3, <1>5, <1>6, <1>8, <1>9

\* A call of mem_get changes nothing but its arguments.
LEMMA GetCallMem ==
  ASSUME MemIInv, NEW s \in Slaves, NEW cap \in Caps, GetCall(s, cap)
  PROVE  MemIInv'
<1> USE DEF MemIInv
<1>1. /\ pc[s] = "idle" /\ lpc[s] = "out" /\ ops[s] < MaxOps
      /\ ops' = [ops EXCEPT ![s] = @ + 1]
      /\ arg' = [arg EXCEPT ![s] = [size |-> cap, stamp |-> 0]]
      /\ Jump(s, "g_size") /\ Rlock(s)
      /\ UNCHANGED <<zoneVars, heap, buf, cpSize, aux, res, crashed>>
  BY DEF GetCall, Begin, At
<1>2. LockTypeOK' /\ LockInv' /\ PlaceInv'
  BY <1>1, JumpPlace, MemNumbers DEF PlaceInv, Places, MemTypeOK
<1>3. /\ pc'[s] = "g_size" /\ \A u \in Slaves : u # s => pc'[u] = pc[u]
      /\ \A u \in Slaves : u # s => arg'[u] = arg[u]
      /\ arg'[s].size = cap
      /\ arg' \in [Slaves -> [size : Nat, stamp : Stamps]]
  BY <1>1, MemNumbers DEF Jump, PlaceInv, ArgInv
<1>4. MemTypeOK'
  <2>1. ops' \in [Slaves -> 0..MaxOps]
    BY <1>1, MemAssumption DEF MemTypeOK
  <2> QED BY <2>1, <1>1, <1>2 DEF MemTypeOK, zoneVars
<1>5. ArgInv' /\ BufInv'
  BY <1>1, <1>3 DEF ArgInv, BufInv
<1>6. Replacing' = Replacing /\ SomeWriter' = SomeWriter
  BY <1>1, <1>3 DEF Replacing, SomeWriter
<1>7. OwnInv'
  BY <1>1, <1>6 DEF OwnInv, zoneVars
<1>8. RegionInv'
  BY <1>1, <1>3, <1>6 DEF RegionInv, zoneVars
<1> QED BY <1>2, <1>4, <1>5, <1>7, <1>8

\* A reader that has seen the size has the read lock, so that it stays the size.
LEMMA GetSizeMem ==
  ASSUME MemIInv, NEW s \in Slaves, GetSize(s)
  PROVE  MemIInv'
<1> USE DEF MemIInv
<1>1. /\ pc[s] = "g_size" /\ lpc[s] = "out"
      /\ cpSize' = [cpSize EXCEPT ![s] = AtMost(arg[s].size, size)]
      /\ Jump(s, "g_copy")
      /\ UNCHANGED <<lockVars, zoneVars, heap, buf, arg, aux, ops, res, crashed>>
  BY DEF GetSize, At
<1>2. held[s] = "read" /\ s \in Threads
  BY <1>1, MemNumbers DEF PlaceInv, Entering
<1>3. LockTypeOK' /\ LockInv' /\ PlaceInv'
  BY <1>1, <1>2, JumpPlace, MemNumbers DEF Places, MemTypeOK
<1>4. /\ pc'[s] = "g_copy" /\ \A u \in Slaves : u # s => pc'[u] = pc[u]
      /\ cpSize'[s] = AtMost(arg[s].size, size) /\ \A u \in Slaves : u # s => cpSize'[u] = cpSize[u]
  BY <1>1, MemNumbers DEF Jump, PlaceInv, MemTypeOK
<1>5. MemTypeOK'
  <2>1. arg[s].size \in Nat /\ size \in Nat
    BY MemNumbers DEF ArgInv, MemTypeOK
  <2>2. AtMost(arg[s].size, size) \in Nat
    BY <2>1 DEF AtMost
  <2>3. cpSize' \in [Slaves -> Nat]
    BY <2>2, <1>1 DEF MemTypeOK
  <2> QED BY <2>3, <1>1, <1>3 DEF MemTypeOK, zoneVars
<1>6. ArgInv' /\ BufInv'
  BY <1>1, <1>4 DEF ArgInv, BufInv
<1>7. Replacing' = Replacing /\ SomeWriter' = SomeWriter
  BY <1>1, <1>4 DEF Replacing, SomeWriter
<1>8. OwnInv'
  BY <1>1, <1>7 DEF OwnInv, zoneVars
<1>9. RegionInv'
  BY <1>1, <1>4, <1>7 DEF RegionInv, zoneVars
<1> QED BY <1>3, <1>5, <1>6, <1>8, <1>9

\* mem_finish frees the buffer of the region when nobody is writing.
LEMMA FinishMem ==
  ASSUME MemIInv, Finish
  PROVE  MemIInv'
<1> USE DEF MemIInv
<1>1. /\ pc[Main] = "m_clear" /\ lpc[Main] = "out"
      /\ terminate' = TRUE
      /\ heap' = IF data = Null THEN heap ELSE [heap EXCEPT ![data] = 0]
      /\ data' = Null
      /\ Jump(Main, "m_join") /\ Wunlock(Main)
      /\ UNCHANGED <<size, updateCond, localVars, res, crashed>>
  BY DEF Finish, At
<1>2. held[Main] = "write" /\ Main \in Threads
  BY <1>1, MemNumbers DEF PlaceInv
<1>3. LockTypeOK' /\ LockInv' /\ PlaceInv'
  BY <1>1, <1>2, JumpPlace, MemNumbers DEF Places, MemTypeOK
<1>4. /\ \A u \in Slaves : pc'[u] = pc[u] /\ pc[u] \notin {"p_data", "p_size", "g_copy"}
      /\ data \in Buffers \cup {Null}
      /\ \A c \in Buffers : heap'[c] = IF c = data THEN 0 ELSE heap[c]
  BY <1>1, <1>2, WriterAlone, MemNumbers DEF Jump, PlaceInv, MemTypeOK
<1>5. MemTypeOK'
  <2>1. heap' \in [Buffers -> Sizes \cup {0}]
    BY <1>1 DEF MemTypeOK
  <2> QED BY <2>1, <1>1, <1>3 DEF MemTypeOK, localVars
<1>6. ArgInv'
  BY <1>1, <1>4 DEF ArgInv, localVars
<1>7. ~Replacing /\ ~Replacing'
  BY <1>4 DEF Replacing
<1>8. \A u \in Slaves : buf[u] # Null => buf[u] # data /\ buf[u] \in Buffers
  BY <1>7 DEF OwnInv, MemTypeOK
<1>9. BufInv'
  BY <1>1, <1>4, <1>8 DEF BufInv, localVars
<1>10. OwnInv'
  <2>1. \A c \in Buffers : heap'[c] # 0 <=> \E u \in Slaves : buf[u] = c
    BY <1>4, <1>7, <1>8, MemNumbers DEF OwnInv
  <2> QED BY <2>1, <1>1, <1>7, MemNumbers DEF OwnInv, localVars
<1>11. RegionInv'
  BY <1>1, <1>4 DEF RegionInv
<1> QED BY <1>3, <1>5, <1>6, <1>9, <1>10, <1>11
-----------------------------------------------------------------------------
\* Every step of the region keeps MemIInv, if nobody waits for updates.
THEOREM MemStep ==
  ASSUME Waiters = {}
  PROVE  MemIInv /\ [MemNext]_memVars => MemIInv'
<1> SUFFICES ASSUME MemIInv, [MemNext]_memVars PROVE MemIInv'
  OBVIOUS
<1>0. LockTypeOK /\ LockInv /\ PlaceInv /\ MemTypeOK
  BY DEF MemIInv, MemTypeOK
<1>1. ASSUME NEW s \in Slaves, PutRefuse(s) PROVE MemIInv'
  <2>1. /\ pc[s] = "p_check" /\ lpc[s] = "out" /\ Jump(s, "p_dispose") /\ Wunlock(s)
        /\ UNCHANGED <<zoneVars, heap, localVars, crashed>>
    BY <1>1 DEF PutRefuse, At
  <2>2. LockTypeOK' /\ LockInv' /\ PlaceInv'
    BY <2>1, <1>0, JumpPlace, MemNumbers DEF PlaceInv, Places
  <2>3. \A u \in Slaves : pc'[u] = pc[u] \/ (pc[u] = "p_check" /\ pc'[u] = "p_dispose")
    BY <2>1, <1>0, MemNumbers DEF Jump, PlaceInv
  <2> QED BY <2>1, <2>2, <2>3, <1>0, SameRegion DEF MemTypeOK
<1>2. ASSUME NEW s \in Slaves, GetCopy(s) PROVE MemIInv'
  <2>1. /\ pc[s] = "g_copy" /\ lpc[s] = "out" /\ Jump(s, "done") /\ Runlock(s)
        /\ UNCHANGED <<zoneVars, heap, localVars, crashed>>
    BY <1>2 DEF GetCopy, At
  <2>2. LockTypeOK' /\ LockInv' /\ PlaceInv'
    BY <2>1, <1>0, JumpPlace, MemNumbers DEF PlaceInv, Places
  <2>3. \A u \in Slaves : pc'[u] = pc[u] \/ (pc[u] = "g_copy" /\ pc'[u] = "done")
    BY <2>1, <1>0, MemNumbers DEF Jump, PlaceInv
  <2> QED BY <2>1, <2>2, <2>3, <1>0, SameRegion DEF MemTypeOK
<1>3. ASSUME NEW s \in Slaves, Return(s) \/ Exit(s) PROVE MemIInv'
  <2>1. /\ pc[s] \in {"idle", "done"} /\ lpc[s] = "out" /\ (Jump(s, "idle") \/ Jump(s, "exited"))
        /\ UNCHANGED <<lockVars, zoneVars, heap, localVars, crashed>>
    BY <1>3 DEF Return, Exit, At
  <2>2. held[s] = "none" /\ s \in Threads
    BY <2>1, <1>0, MemNumbers DEF PlaceInv
  <2>3. LockTypeOK' /\ LockInv' /\ PlaceInv'
    BY <2>1, <2>2, <1>0, JumpPlace DEF Places
  <2>4. \A u \in Slaves : pc'[u] = pc[u] \/ (pc[u] \in {"idle", "done"} /\ pc'[u] \in {"idle", "exited"})
    BY <2>1, <1>0, MemNumbers DEF Jump, PlaceInv
  <2> QED BY <2>1, <2>3, <2>4, <1>0, SameRegion DEF MemTypeOK
<1>4. CASE FinishCall \/ DestroyCall
  <2>1. /\ pc[Main] \in {"m_run", "m_join"} /\ lpc[Main] = "out"
        /\ (Jump(Main, "m_clear") \/ Jump(Main, "m_destroy")) /\ Wlock(Main)
        /\ UNCHANGED <<zoneVars, heap, localVars, crashed>>
    BY <1>4 DEF FinishCall, DestroyCall, At
  <2>2. held[Main] = "none" /\ Main \in Threads
    BY <2>1, <1>0, MemNumbers DEF PlaceInv
  <2>3. LockTypeOK' /\ LockInv' /\ PlaceInv'
    BY <2>1, <2>2, <1>0, JumpPlace DEF Places
  <2>4. \A u \in Slaves : pc'[u] = pc[u]
    BY <2>1, <1>0, MemNumbers DEF Jump, PlaceInv
  <2> QED BY <2>1, <2>3, <2>4, <1>0, SameRegion DEF MemTypeOK
<1>5. CASE Destroy
  <2>1. /\ pc[Main] = "m_destroy" /\ lpc[Main] = "out" /\ Jump(Main, "m_end") /\ Wunlock(Main)
        /\ UNCHANGED <<zoneVars, heap, localVars, crashed>>
    BY <1>5 DEF Destroy, At
  <2>2. held[Main] = "write" /\ Main \in Threads
    BY <2>1, <1>0, MemNumbers DEF PlaceInv
  <2>3. LockTypeOK' /\ LockInv' /\ PlaceInv'
    BY <2>1, <2>2, <1>0, JumpPlace DEF Places
  <2>4. \A u \in Slaves : pc'[u] = pc[u]
    BY <2>1, <1>0, MemNumbers DEF Jump, PlaceInv
  <2> QED BY <2>1, <2>3, <2>4, <1>0, SameRegion DEF MemTypeOK
<1>6. ASSUME NEW t \in Threads, Locking(t) PROVE MemIInv'
  <2>1. UNCHANGED <<zoneVars, heap, pc, localVars, crashed>>
    BY <1>6 DEF Locking
  <2>2. LockTypeOK' /\ LockInv' /\ PlaceInv'
    BY <1>6, <1>0, LockingPlace
  <2> QED BY <2>1, <2>2, <1>0, SameRegion DEF MemTypeOK
<1>7. ASSUME UNCHANGED <<lockVars, zoneVars, heap, pc, localVars>>, crashed' \in BOOLEAN PROVE MemIInv'
  <2>1. LockTypeOK' /\ LockInv'
    BY <1>0, <1>7 DEF lockVars, LockTypeOK, LockInv, MutexInv, InSection, LoadInv, CountInv, Counted,
                TokenInv, ReadersHoldToken, Writing, HeldInv
  <2>2. PlaceInv'
    BY <1>0, <1>7 DEF lockVars, PlaceInv
  <2> QED BY <2>1, <2>2, <1>7, SameRegion
<1>8. CASE UNCHANGED memVars
  BY <1>8, <1>7, <1>0 DEF memVars, MemTypeOK
<1>9. ASSUME NEW s \in Slaves, GetCrash(s) PROVE MemIInv'
  BY <1>9, <1>7 DEF GetCrash
<1>10. ASSUME NEW s \in Slaves, SlaveStep(s) PROVE MemIInv'
  <2>1. ~WaitAux(s) /\ ~WaitPark(s) /\ ~WaitLeave(s)
    BY <1>0, MemNumbers DEF WaitAux, WaitPark, WaitLeave, At, PlaceInv, Places
  <2> QED BY <2>1, <1>10, <1>1, <1>2, <1>3, <1>9, PutDisposeMem, PutAcceptMem, PutDataMem, PutSizeMem,
             GetSizeMem DEF SlaveStep
<1>11. ASSUME NEW s \in Slaves, CallPut(s) \/ CallGet(s) \/ CallWait(s) PROVE MemIInv'
  <2>1. ~CallWait(s)
    BY DEF CallWait, WaitCall
  <2> QED BY <2>1, <1>11, PutCallMem, GetCallMem DEF CallPut, CallGet
<1>12. CASE MemNext
  BY <1>12, <1>3, <1>4, <1>5, <1>6, <1>10, <1>11, FinishMem DEF MemNext, MainStep
<1> QED BY <1>8, <1>12

\* In every state of the region, when nobody calls mem_wait, the lock, the places of the
\* threads, their buffers and the region agree.
THEOREM MemInvariant ==
  ASSUME Waiters = {}
  PROVE  MemSpec => []MemIInv
BY MemStart, MemStep, PTL DEF MemSpec

\* Every variable of the region, its lock and its callers keeps its type.
THEOREM MemTypes ==
  ASSUME Waiters = {}
  PROVE  MemSpec => []MemTypeOK
<1>1. MemIInv => MemTypeOK
  BY DEF MemIInv
<1> QED BY <1>1, MemInvariant, PTL

\* The buffers in use are the one of the region and those of the calls of mem_put that
\* have not given theirs up, each of them once (clmem.c:92-111, 122-126).
THEOREM MemHeapOwnership ==
  ASSUME Waiters = {}
  PROVE  MemSpec => []HeapOwnership
<1>1. MemIInv => HeapOwnership
  <2> SUFFICES ASSUME MemIInv PROVE HeapOwnership
    OBVIOUS
  <2> USE DEF MemIInv
  <2>1. data \in Buffers \cup {Null} /\ \A s \in Slaves : buf[s] \in Buffers \cup {Null}
    BY DEF MemTypeOK
  <2>2. {b \in Buffers : heap[b] # 0} =
          {buf[s] : s \in Private} \cup (IF data = Null \/ Replacing THEN {} ELSE {data})
    BY <2>1, MemNumbers DEF OwnInv, Private
  <2> QED BY <2>2 DEF HeapOwnership, OwnInv, Private
<1> QED BY <1>1, MemInvariant, PTL

\* While mem_put or mem_finish writes the region no other thread reads or writes it.
THEOREM MemExclusion ==
  ASSUME Waiters = {}
  PROVE  MemSpec => []Exclusion
<1>1. MemIInv => Exclusion
  BY DEF MemIInv, LockInv, TokenInv, Writing, ReadersHoldToken, Exclusion, Reading
<1> QED BY <1>1, MemInvariant, PTL
-----------------------------------------------------------------------------
(* The refinement: the value and the time stamp of the register.           *)

\* Between copies the value is what the region holds ...
LEMMA Quiet ==
  ASSUME ~SomeWriter
  PROVE  Val = (IF data = Null THEN 0 ELSE heap[data]) /\ Stamp = updateCond
BY DEF Val, Stamp

\* ... and from the moment a copy is accepted it is what is copied.
LEMMA Busy ==
  ASSUME LockInv, PlaceInv, NEW s \in Slaves, pc[s] \in {"p_data", "p_size"}
  PROVE  Val = arg[s].size /\ Stamp = arg[s].stamp
BY OneWriter DEF Val, Stamp

\* Steps that leave the writer, its arguments and the region alone.
LEMMA SameVal ==
  ASSUME LockInv, PlaceInv, LockInv', PlaceInv', UNCHANGED <<data, updateCond>>,
         \A u \in Slaves : pc'[u] \in {"p_data", "p_size"} <=> pc[u] \in {"p_data", "p_size"},
         \A u \in Slaves : pc[u] \in {"p_data", "p_size"} => arg'[u] = arg[u],
         ~SomeWriter /\ data # Null => heap'[data] = heap[data]
  PROVE  Val' = Val /\ Stamp' = Stamp
<1>1. SomeWriter' = SomeWriter
  BY DEF SomeWriter
<1>2. CASE ~SomeWriter
  BY <1>1, <1>2 DEF Val, Stamp
<1>3. CASE SomeWriter
  <2>1. PICK s \in Slaves : pc[s] \in {"p_data", "p_size"}
    BY <1>3 DEF SomeWriter
  <2>2. Writer = s /\ \A u \in Slaves : pc[u] \in {"p_data", "p_size"} <=> u = s
    <3>1. held[s] = "write" /\ s \in Threads
      BY <2>1, MemNumbers DEF PlaceInv
    <3> QED BY <2>1, <3>1, OneWriter, WriterAlone, MemNumbers
  <2>3. \A u \in Slaves : pc'[u] \in {"p_data", "p_size"} <=> u = s
    BY <2>2
  <2>4. Writer' = s
    BY <2>3 DEF Writer
  <2>5. arg'[s] = arg[s]
    BY <2>1
  <2> QED BY <1>1, <1>3, <2>2, <2>4, <2>5 DEF Val, Stamp
<1> QED BY <1>2, <1>3

\* The copy that is accepted: it becomes the value at once.
LEMMA PutAcceptValue ==
  ASSUME MemIInv, NEW s \in Slaves, PutAccept(s)
  PROVE  Register!Put(s, arg[s].size, arg[s].stamp) /\ arg[s].size \in Sizes /\ arg[s].stamp \in Stamps
<1> USE DEF MemIInv
<1>1. /\ pc[s] = "p_check" /\ lpc[s] = "out" /\ ~PutOlder(s)
      /\ Result(s, arg[s].size, arg[s].size) /\ Jump(s, "p_data")
      /\ UNCHANGED <<lockVars, zoneVars, localVars, crashed>>
  BY DEF PutAccept, At
<1>2. held[s] = "write" /\ s \in Threads
  BY <1>1, MemNumbers DEF PlaceInv
<1>3. /\ pc'[s] = "p_data" /\ \A u \in Slaves : u # s => pc'[u] = pc[u] /\ pc[u] \notin {"p_data", "p_size"}
      /\ arg[s].size \in Sizes /\ arg[s].stamp \in Stamps
  BY <1>1, <1>2, WriterAlone, MemNumbers DEF Jump, PlaceInv, ArgInv
<1>4. ~SomeWriter
  BY <1>1, <1>3 DEF SomeWriter
<1>5. \A u \in Slaves : pc'[u] \in {"p_data", "p_size"} <=> u = s
  BY <1>3
<1>6. Writer' = s /\ SomeWriter'
  BY <1>5 DEF Writer, SomeWriter
<1>7. Val' = arg[s].size /\ Stamp' = arg[s].stamp
  BY <1>1, <1>6 DEF Val, Stamp, localVars
<1>8. Val = 0 \/ Stamp <= arg[s].stamp
  <2>1. updateCond \in Nat /\ arg[s].stamp \in Nat
    BY <1>3, MemNumbers DEF MemTypeOK
  <2> QED BY <2>1, <1>1, <1>4, Quiet DEF PutOlder
<1> QED BY <1>1, <1>3, <1>7, <1>8 DEF Register!Put, Result

\* The copy that is refused: there is a value, and it is newer.
LEMMA PutRefuseValue ==
  ASSUME MemIInv, LockInv', PlaceInv', NEW s \in Slaves, PutRefuse(s)
  PROVE  Register!Put(s, arg[s].size, arg[s].stamp) /\ arg[s].size \in Sizes /\ arg[s].stamp \in Stamps
<1> USE DEF MemIInv
<1>1. /\ pc[s] = "p_check" /\ lpc[s] = "out" /\ PutOlder(s)
      /\ Result(s, 0, 0) /\ Jump(s, "p_dispose")
      /\ UNCHANGED <<zoneVars, heap, localVars, crashed>>
  BY DEF PutRefuse, At
<1>2. held[s] = "write" /\ s \in Threads
  BY <1>1, MemNumbers DEF PlaceInv
<1>3. /\ pc'[s] = "p_dispose" /\ \A u \in Slaves : u # s => pc'[u] = pc[u] /\ pc[u] \notin {"p_data", "p_size"}
      /\ arg[s].size \in Sizes /\ arg[s].stamp \in Stamps
  BY <1>1, <1>2, WriterAlone, MemNumbers DEF Jump, PlaceInv, ArgInv
<1>4. ~SomeWriter /\ ~Replacing
  BY <1>1, <1>3 DEF SomeWriter, Replacing
<1>5. Val # 0 /\ Stamp > arg[s].stamp
  <2>1. data \in Buffers
    BY <1>1 DEF PutOlder, MemTypeOK
  <2>2. heap[data] # 0
    BY <2>1, <1>4 DEF OwnInv
  <2> QED BY <2>2, <1>1, <1>4, Quiet DEF PutOlder
<1>6. Val' = Val /\ Stamp' = Stamp
  BY <1>1, <1>3, SameVal DEF zoneVars, localVars
<1> QED BY <1>1, <1>3, <1>5, <1>6 DEF Register!Put, Register!Nothing, Result

\* The size is read and the data copied while nobody writes.
LEMMA GetCopyValue ==
  ASSUME MemIInv, LockInv', PlaceInv', NEW s \in Slaves, GetCopy(s)
  PROVE  Register!Get(s, arg[s].size) /\ arg[s].size \in Caps
<1> USE DEF MemIInv
<1>1. /\ pc[s] = "g_copy" /\ lpc[s] = "out" /\ (cpSize[s] > 0 => data # Null)
      /\ IF cpSize[s] = 0 THEN Result(s, 0, 0) ELSE Result(s, heap[data], cpSize[s])
      /\ Jump(s, "done")
      /\ UNCHANGED <<zoneVars, heap, localVars, crashed>>
  BY DEF GetCopy, At
<1>2. held[s] = "read" /\ s \in Threads
  BY <1>1, MemNumbers DEF PlaceInv
<1>3. /\ pc'[s] = "done" /\ \A u \in Slaves : u # s => pc'[u] = pc[u]
      /\ \A u \in Slaves : pc[u] \notin {"p_data", "p_size"}
      /\ arg[s].size \in Caps
  BY <1>1, <1>2, NoWriter, MemNumbers DEF Jump, PlaceInv, ArgInv
<1>4. ~SomeWriter
  BY <1>3 DEF SomeWriter
<1>5. Val' = Val /\ Stamp' = Stamp
  BY <1>1, <1>3, SameVal DEF zoneVars, localVars
<1>6. /\ arg[s].size \in Nat /\ size \in Nat /\ cpSize[s] \in Nat
      /\ cpSize[s] = AtMost(arg[s].size, size)
  BY <1>1, <1>3, MemNumbers DEF RegionInv, MemTypeOK
<1>7. CASE data = Null
  <2>1. Val = 0 /\ cpSize[s] = 0
    BY <1>1, <1>4, <1>6, <1>7, Quiet
  <2>2. Register!AtMost(arg[s].size, Val) = 0
    BY <2>1, <1>6 DEF Register!AtMost
  <2> QED BY <2>1, <2>2, <1>1, <1>3, <1>5 DEF Register!Get, Register!Nothing, Result
<1>8. CASE data # Null
  <2>1. Val = heap[data] /\ heap[data] = size
    BY <1>4, <1>8, Quiet DEF RegionInv
  <2>2. Register!AtMost(arg[s].size, Val) = cpSize[s]
    BY <2>1, <1>6 DEF Register!AtMost, AtMost
  <2> QED BY <2>1, <2>2, <1>1, <1>3, <1>5 DEF Register!Get, Register!Nothing, Result
<1> QED BY <1>7, <1>8

\* The region is closed with the lock held.
LEMMA FinishValue ==
  ASSUME MemIInv, Finish
  PROVE  Register!Clear
<1> USE DEF MemIInv
<1>1. /\ pc[Main] = "m_clear" /\ lpc[Main] = "out" /\ data' = Null /\ Jump(Main, "m_join")
      /\ UNCHANGED <<updateCond, res>>
  BY DEF Finish, At
<1>2. held[Main] = "write" /\ Main \in Threads
  BY <1>1, MemNumbers DEF PlaceInv
<1>3. \A u \in Slaves : pc'[u] = pc[u] /\ pc[u] \notin {"p_data", "p_size"}
  BY <1>1, <1>2, WriterAlone, MemNumbers DEF Jump, PlaceInv
<1>4. ~SomeWriter /\ ~SomeWriter'
  BY <1>3 DEF SomeWriter
<1> QED BY <1>1, <1>4 DEF Register!Clear, Val, Stamp

\* The steps in which nothing is read or decided.
LEMMA OtherValue ==
  ASSUME MemIInv, LockInv', PlaceInv', NEW s \in Slaves,
         \/ \E v \in Sizes, st \in Stamps, b \in Buffers : PutCall(s, v, st, b)
         \/ \E cap \in Caps : GetCall(s, cap)
         \/ PutDispose(s) \/ PutData(s) \/ PutSize(s) \/ GetSize(s) \/ GetCrash(s) \/ Return(s) \/ Exit(s)
  PROVE  UNCHANGED <<Val, Stamp, res>>
<1> USE DEF MemIInv
<1>1. ASSUME NEW v \in Sizes, NEW st \in Stamps, NEW b \in Buffers, PutCall(s, v, st, b)
      PROVE  UNCHANGED <<Val, Stamp, res>>
  <2>1. /\ pc[s] = "idle" /\ Jump(s, "p_check") /\ heap[b] = 0
        /\ arg' = [arg EXCEPT ![s] = [size |-> v, stamp |-> st]]
        /\ heap' = [heap EXCEPT ![b] = v] /\ UNCHANGED <<zoneVars, res>>
    BY <1>1 DEF PutCall, Begin, At
  <2>2. pc'[s] = "p_check" /\ \A u \in Slaves : u # s => pc'[u] = pc[u] /\ arg'[u] = arg[u]
    BY <2>1, MemNumbers DEF Jump, PlaceInv, ArgInv
  <2>3. ~SomeWriter => data # b
    BY <2>1 DEF OwnInv, Replacing, SomeWriter
  <2>4. ~SomeWriter /\ data # Null => heap'[data] = heap[data]
    BY <2>1, <2>3 DEF MemTypeOK
  <2> QED BY <2>1, <2>2, <2>4, SameVal DEF zoneVars
<1>2. ASSUME NEW cap \in Caps, GetCall(s, cap) PROVE UNCHANGED <<Val, Stamp, res>>
  <2>1. /\ pc[s] = "idle" /\ Jump(s, "g_size") /\ arg' = [arg EXCEPT ![s] = [size |-> cap, stamp |-> 0]]
        /\ UNCHANGED <<zoneVars, heap, res>>
    BY <1>2 DEF GetCall, Begin, At
  <2>2. pc'[s] = "g_size" /\ \A u \in Slaves : u # s => pc'[u] = pc[u] /\ arg'[u] = arg[u]
    BY <2>1, MemNumbers DEF Jump, PlaceInv, ArgInv
  <2> QED BY <2>1, <2>2, SameVal DEF zoneVars
<1>3. CASE PutDispose(s)
  <2>1. /\ pc[s] = "p_dispose" /\ Jump(s, "idle") /\ heap' = [heap EXCEPT ![buf[s]] = 0]
        /\ UNCHANGED <<zoneVars, arg, res>>
    BY <1>3 DEF PutDispose, At
  <2>2. pc'[s] = "idle" /\ \A u \in Slaves : u # s => pc'[u] = pc[u]
    BY <2>1, MemNumbers DEF Jump, PlaceInv
  <2>3. ~SomeWriter /\ data # Null => buf[s] # data
    BY DEF OwnInv, Replacing, SomeWriter
  <2>4. ~SomeWriter /\ data # Null => heap'[data] = heap[data]
    BY <2>1, <2>3 DEF MemTypeOK
  <2> QED BY <2>1, <2>2, <2>4, SameVal DEF zoneVars
<1>4. CASE PutData(s) \/ PutSize(s)
  <2>1. /\ pc[s] \in {"p_data", "p_size"} /\ UNCHANGED <<arg, res, heap>>
    BY <1>4 DEF PutData, PutSize, At, localVars
  <2>2. held[s] = "write" /\ s \in Threads
    BY <2>1, MemNumbers DEF PlaceInv
  <2>3. \A u \in Slaves : u # s => pc[u] \notin {"p_data", "p_size"}
    BY <2>2, WriterAlone, MemNumbers
  <2>4. Val = arg[s].size /\ Stamp = arg[s].stamp
    BY <2>1, Busy
  <2>5. CASE PutData(s)
    <3>1. Jump(s, "p_size")
      BY <2>5 DEF PutData
    <3>2. \A u \in Slaves : pc'[u] \in {"p_data", "p_size"} <=> u = s
      BY <3>1, <2>3, MemNumbers DEF Jump, PlaceInv
    <3>3. SomeWriter' /\ Writer' = s
      BY <3>2 DEF SomeWriter, Writer
    <3> QED BY <3>3, <2>1, <2>4 DEF Val, Stamp
  <2>6. CASE PutSize(s)
    <3>1. pc[s] = "p_size" /\ Jump(s, "done") /\ updateCond' = arg[s].stamp /\ UNCHANGED data
      BY <2>6 DEF PutSize, At
    <3>2. \A u \in Slaves : pc'[u] \notin {"p_data", "p_size"}
      BY <3>1, <2>3, MemNumbers DEF Jump, PlaceInv
    <3>3. ~SomeWriter'
      BY <3>2 DEF SomeWriter
    <3>4. data # Null /\ heap[data] = arg[s].size
      BY <3>1 DEF RegionInv
    <3> QED BY <3>1, <3>3, <3>4, <2>1, <2>4 DEF Val, Stamp
  <2> QED BY <1>4, <2>5, <2>6
<1>5. CASE GetSize(s) \/ GetCrash(s) \/ Return(s) \/ Exit(s)
  <2>1. UNCHANGED <<zoneVars, heap, arg, res>>
    BY <1>5 DEF GetSize, GetCrash, Return, Exit, localVars
  <2>2. \A u \in Slaves : pc'[u] \in {"p_data", "p_size"} <=> pc[u] \in {"p_data", "p_size"}
    BY <1>5, MemNumbers DEF GetSize, GetCrash, Return, Exit, At, Jump, PlaceInv
  <2> QED BY <2>1, <2>2, SameVal DEF zoneVars
<1> QED BY <1>1, <1>2, <1>3, <1>4, <1>5

\* A region is a register where the latest copy wins, read and written in one piece.
THEOREM MemIsRegister ==
  ASSUME Waiters = {}
  PROVE  MemSpec => IsRegister
<1>1. MemInit => Register!Init
  <2> SUFFICES ASSUME MemInit PROVE Register!Init
    OBVIOUS
  <2>1. ~SomeWriter
    BY MemNumbers DEF MemInit, SomeWriter
  <2> QED BY <2>1, Quiet DEF MemInit, Register!Init, Register!Nothing
<1>2. MemIInv /\ MemIInv' /\ [MemNext]_memVars => [Register!Next]_<<Val, Stamp, res>>
  <2> SUFFICES ASSUME MemIInv, MemIInv', [MemNext]_memVars
               PROVE  Register!Next \/ UNCHANGED <<Val, Stamp, res>>
    OBVIOUS
  <2>0. LockInv /\ PlaceInv /\ LockInv' /\ PlaceInv'
    BY DEF MemIInv
  <2>1. ASSUME NEW s \in Slaves, PutAccept(s) \/ PutRefuse(s) PROVE Register!Next
    BY <2>0, <2>1, PutAcceptValue, PutRefuseValue DEF Register!Next
  <2>2. ASSUME NEW s \in Slaves, GetCopy(s) PROVE Register!Next
    BY <2>0, <2>2, GetCopyValue DEF Register!Next
  <2>3. CASE Finish
    BY <2>3, FinishValue DEF Register!Next
  <2>4. ASSUME NEW s \in Slaves, SlaveStep(s) PROVE Register!Next \/ UNCHANGED <<Val, Stamp, res>>
    <3>1. ~WaitAux(s) /\ ~WaitPark(s) /\ ~WaitLeave(s)
      BY <2>0, MemNumbers DEF WaitAux, WaitPark, WaitLeave, At, PlaceInv, Places
    <3> QED BY <3>1, <2>0, <2>1, <2>2, <2>4, OtherValue DEF SlaveStep
  <2>5. ASSUME NEW s \in Slaves, CallPut(s) \/ CallGet(s) \/ CallWait(s) \/ Exit(s)
        PROVE  UNCHANGED <<Val, Stamp, res>>
    BY <2>0, <2>5, OtherValue DEF CallPut, CallGet, CallWait, WaitCall
  <2>6. CASE FinishCall \/ DestroyCall \/ Destroy \/ (\E t \in Threads : Locking(t)) \/ UNCHANGED memVars
    <3>1. UNCHANGED <<zoneVars, heap, arg, res>>
      BY <2>6 DEF FinishCall, DestroyCall, Destroy, Locking, memVars, localVars
    <3>2. \A u \in Slaves : pc'[u] \in {"p_data", "p_size"} <=> pc[u] \in {"p_data", "p_size"}
      BY <2>6, <2>0, MemNumbers DEF FinishCall, DestroyCall, Destroy, Locking, memVars, Jump, PlaceInv
    <3> QED BY <3>1, <3>2, <2>0, SameVal DEF zoneVars
  <2> QED BY <2>3, <2>4, <2>5, <2>6 DEF MemNext, MainStep
<1> QED BY <1>1, <1>2, MemInvariant, PTL DEF MemSpec, IsRegister, Register!Spec
=============================================================================
