------------------------------- MODULE RwLock -------------------------------
(***************************************************************************)
(* thread/rwlock.c: a readers/writer lock made of a mutex (m_lock), a      *)
(* counter of readers, a binary semaphore that the first reader or the     *)
(* writer takes, and a condition variable (update) signalled by every      *)
(* writer that leaves.  The clipboard has one such lock per memory region  *)
(* and one for the network clock.                                          *)
(*                                                                         *)
(* A caller t is inside a lock function at label lpc[t]; lpc[t] = "out"    *)
(* while it runs its own code.  n_readers++ and n_readers-- are a load and *)
(* a store of their own, because rw_lock_wait_update lets two threads into *)
(* the section m_lock guards.  The mutex is a default pthread mutex on     *)
(* Linux: unlocking it frees it whoever holds it.                          *)
(***************************************************************************)
EXTENDS Naturals, FiniteSets

CONSTANTS Threads,    \* callers of the lock
          NoThread    \* "the mutex is free"

ASSUME ThreadsAssumption ==
  /\ IsFiniteSet(Threads)
  /\ NoThread \notin Threads

VARIABLES
  sem,        \* value of the semaphore
  mLock,      \* owner of m_lock
  nReaders,   \* n_readers
  tmp,        \* tmp[t]: n_readers as loaded by t
  lpc,        \* where t is inside the lock code
  held        \* held[t]: what t was granted and has not begun to give back

lockVars == <<sem, mLock, nReaders, tmp, lpc, held>>

Labels == {"out", "r_enter", "r_store", "r_test", "r_sem", "r_exit",
           "u_enter", "u_store", "u_test", "u_exit",
           "w_sem", "x_post", "x_bcast", "c_wait", "c_blocked"}

LockTypeOK ==
  /\ sem \in Nat
  /\ mLock \in Threads \cup {NoThread}
  /\ nReaders \in Nat
  /\ tmp \in [Threads -> Nat]
  /\ lpc \in [Threads -> Labels]
  /\ held \in [Threads -> {"none", "read", "write"}]

\* rw_lock_init on Linux: sem_init(..., 0, 1).
LockInit ==
  /\ sem = 1
  /\ mLock = NoThread
  /\ nReaders = 0
  /\ tmp = [t \in Threads |-> 0]
  /\ lpc = [t \in Threads |-> "out"]
  /\ held = [t \in Threads |-> "none"]

Goto(t, from, to) == lpc[t] = from /\ lpc' = [lpc EXCEPT ![t] = to]

Grant(t, what) == held' = [held EXCEPT ![t] = what]
-----------------------------------------------------------------------------
(* The calls, as the caller makes them.                                    *)

Rlock(t)  == Goto(t, "out", "r_enter") /\ UNCHANGED <<sem, mLock, nReaders, tmp, held>>

Wlock(t)  == Goto(t, "out", "w_sem") /\ UNCHANGED <<sem, mLock, nReaders, tmp, held>>

Runlock(t) == Goto(t, "out", "u_enter") /\ Grant(t, "none") /\ UNCHANGED <<sem, mLock, nReaders, tmp>>

Wunlock(t) == Goto(t, "out", "x_post") /\ Grant(t, "none") /\ UNCHANGED <<sem, mLock, nReaders, tmp>>

WaitUpdate(t) == Goto(t, "out", "c_wait") /\ UNCHANGED <<sem, mLock, nReaders, tmp, held>>
-----------------------------------------------------------------------------
(* rw_lock_rlock; rw_lock_wait_update runs the same code once it is woken. *)

RlockEnter(t) ==
  /\ Goto(t, "r_enter", "r_store")
  /\ mLock = NoThread
  /\ mLock' = t
  /\ tmp' = [tmp EXCEPT ![t] = nReaders]
  /\ UNCHANGED <<sem, nReaders, held>>

\* Mutant: the reader that enters is not counted.
RlockStoreLost(t) ==
  /\ Goto(t, "r_store", "r_test")
  /\ nReaders' = tmp[t]
  /\ UNCHANGED <<sem, mLock, tmp, held>>

RlockStore(t) ==
  /\ Goto(t, "r_store", "r_test")
  /\ nReaders' = tmp[t] + 1
  /\ UNCHANGED <<sem, mLock, tmp, held>>

\* Mutant: the first reader does not wait for the semaphore.
RlockTestNoWait(t) ==
  /\ Goto(t, "r_test", "r_exit")
  /\ UNCHANGED <<sem, mLock, nReaders, tmp, held>>

RlockTest(t) ==
  /\ Goto(t, "r_test", IF nReaders = 1 THEN "r_sem" ELSE "r_exit")
  /\ UNCHANGED <<sem, mLock, nReaders, tmp, held>>

\* The first reader waits for the semaphore with m_lock held.
RlockSem(t) ==
  /\ Goto(t, "r_sem", "r_exit")
  /\ sem > 0
  /\ sem' = sem - 1
  /\ UNCHANGED <<mLock, nReaders, tmp, held>>

RlockExit(t) ==
  /\ Goto(t, "r_exit", "out")
  /\ mLock' = NoThread
  /\ Grant(t, "read")
  /\ UNCHANGED <<sem, nReaders, tmp>>

(* rw_lock_runlock *)

RunlockEnter(t) ==
  /\ Goto(t, "u_enter", "u_store")
  /\ mLock = NoThread
  /\ mLock' = t
  /\ tmp' = [tmp EXCEPT ![t] = nReaders]
  /\ UNCHANGED <<sem, nReaders, held>>

RunlockStore(t) ==
  /\ Goto(t, "u_store", "u_test")
  /\ nReaders' = tmp[t] - 1
  /\ UNCHANGED <<sem, mLock, tmp, held>>

\* Mutant: every reader that leaves gives the semaphore back.
RunlockTestEach(t) ==
  /\ Goto(t, "u_test", "u_exit")
  /\ sem' = sem + 1
  /\ UNCHANGED <<mLock, nReaders, tmp, held>>

RunlockTest(t) ==
  /\ Goto(t, "u_test", "u_exit")
  /\ sem' = IF nReaders = 0 THEN sem + 1 ELSE sem
  /\ UNCHANGED <<mLock, nReaders, tmp, held>>

RunlockExit(t) ==
  /\ Goto(t, "u_exit", "out")
  /\ mLock' = NoThread
  /\ UNCHANGED <<sem, nReaders, tmp, held>>

(* rw_lock_wlock and rw_lock_wunlock *)

WlockSem(t) ==
  /\ Goto(t, "w_sem", "out")
  /\ sem > 0
  /\ sem' = sem - 1
  /\ Grant(t, "write")
  /\ UNCHANGED <<mLock, nReaders, tmp>>

WunlockPost(t) ==
  /\ Goto(t, "x_post", "x_bcast")
  /\ sem' = sem + 1
  /\ UNCHANGED <<mLock, nReaders, tmp, held>>

\* The broadcast comes after the semaphore is given back, without m_lock:
\* every thread blocked on update goes on to lock m_lock again.
WunlockBroadcast(t) ==
  /\ lpc[t] = "x_bcast"
  /\ lpc' = [u \in Threads |-> IF u = t THEN "out"
                               ELSE IF lpc[u] = "c_blocked" THEN "r_enter" ELSE lpc[u]]
  /\ UNCHANGED <<sem, mLock, nReaders, tmp, held>>

\* rw_lock_wait_update: pthread_cond_wait unlocks m_lock, which the caller does
\* not hold (rw_lock_rlock gave it back): free it whoever the owner is.
CondWait(t) ==
  /\ Goto(t, "c_wait", "c_blocked")
  /\ mLock' = NoThread
  /\ UNCHANGED <<sem, nReaders, tmp, held>>

LockStep(t) ==
  \/ RlockEnter(t) \/ RlockStore(t) \/ RlockTest(t) \/ RlockSem(t) \/ RlockExit(t)
  \/ RunlockEnter(t) \/ RunlockStore(t) \/ RunlockTest(t) \/ RunlockExit(t)
  \/ WlockSem(t) \/ WunlockPost(t) \/ WunlockBroadcast(t)

\* Callers that use the lock as mem_get, mem_put and the clock do: what is taken
\* is given back.
Call(t) ==
  \/ held[t] = "none" /\ (Rlock(t) \/ Wlock(t))
  \/ held[t] = "read" /\ Runlock(t)
  \/ held[t] = "write" /\ Wunlock(t)

LockNext == \E t \in Threads : Call(t) \/ LockStep(t)

LockSpec == LockInit /\ [][LockNext]_lockVars

\* With callers that also wait for updates, as mem_wait does.
WaitNext == LockNext \/ \E t \in Threads : CondWait(t) \/ (held[t] = "read" /\ WaitUpdate(t))

WaitSpec == LockInit /\ [][WaitNext]_lockVars
-----------------------------------------------------------------------------
(* Properties.                                                             *)

\* A caller that is parked in rw_lock_wait_update does not read the guarded data.
Reading(t) == held[t] = "read" /\ lpc[t] \notin {"c_wait", "c_blocked"}

\* A read/write lock (rwlock.c:4): while a thread is between rw_lock_wlock and
\* rw_lock_wunlock, no other thread reads or writes what the lock guards.
Exclusion ==
  \A t, u \in Threads : t # u /\ held[t] = "write" => held[u] # "write" /\ ~Reading(u)

\* The inductive invariant behind Exclusion under LockSpec: nobody waits for updates.
\* m_lock is held exactly by the thread inside the section it guards, ...
InSection(t) == lpc[t] \in {"r_store", "r_test", "r_sem", "r_exit", "u_store", "u_test", "u_exit"}
MutexInv == \A t \in Threads : InSection(t) <=> mLock = t

\* ... what a thread loaded from n_readers is still current when it stores, ...
LoadInv == \A t \in Threads : lpc[t] \in {"r_store", "u_store"} => tmp[t] = nReaders

\* ... n_readers is the number of threads that have counted themselves in, ...
Counted == {t \in Threads : \/ held[t] = "read"
                            \/ lpc[t] \in {"r_test", "r_sem", "r_exit", "u_enter", "u_store"}}
CountInv == nReaders = Cardinality(Counted)

\* ... and the semaphore is one token: free, or with one writer, or with the
\* readers as a group, and never given back twice.
Writing(t) == held[t] = "write" \/ lpc[t] = "x_post"
ReadersHoldToken ==
  \E t \in Threads : \/ held[t] = "read"
                     \/ lpc[t] \in {"r_exit", "u_enter", "u_store"}
                     \/ lpc[t] = "r_test" /\ nReaders # 1
                     \/ lpc[t] = "u_test" /\ nReaders = 0
TokenInv ==
  /\ sem \in {0, 1}
  /\ ReadersHoldToken => sem = 0
  /\ \A t \in Threads : Writing(t) => sem = 0 /\ ~ReadersHoldToken
  /\ \A t, u \in Threads : Writing(t) /\ Writing(u) => t = u

\* What is granted is held outside the lock code; nobody waits for an update.
HeldInv ==
  \A t \in Threads : /\ held[t] # "none" => lpc[t] = "out"
                     /\ lpc[t] \notin {"c_wait", "c_blocked"}

LockInv == MutexInv /\ LoadInv /\ CountInv /\ TokenInv /\ HeldInv
=============================================================================
